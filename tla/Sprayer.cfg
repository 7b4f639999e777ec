SPECIFICATION Spec
CONSTANTS
    NumWorkers = 2
    Callers = {c1}
    Peers = {p1, p2}
    SprayAt <- MCNoForce
    Anns = {a1, a2}
    Cap = 2
    Slack = 1
    MaxQueue = 1
    f1 = f1
    None = None
SYMMETRY Symmetry
INVARIANTS
    TypeOK
    AtMostOnce
    SubscribedOnce
