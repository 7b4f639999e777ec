SPECIFICATION Spec
CONSTANTS
    NumWorkers = 2
    Reqs <- MCReqs
    MaxCalls = 2
    MaxHard = 2
    MaxSoft = 1
    None = None
    h1 = h1  h2 = h2  k1 = k1  k2 = k2  b1 = b1  b2 = b2
SYMMETRY Symmetry
CHECK_DEADLOCK FALSE
INVARIANTS
    TypeOK
PROPERTIES
    ImplementsSource
