SPECIFICATION FairSpec
CONSTANTS
    NumWorkers = 2
    MaxJobs = 2
    HashesPerCycle = 4
    ParStates = 2
    None = None
CHECK_DEADLOCK FALSE
INVARIANTS
    TypeOK
    JobNotTorn
    NoUseAfterFree
PROPERTIES
    WaitStateEnds
