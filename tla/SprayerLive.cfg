SPECIFICATION FairSpec
CONSTANTS
    NumWorkers = 1
    Callers = {c1}
    Peers = {p1}
    SprayAt <- MCForce
    Anns = {a1, a2, a3}
    Cap = 1
    Slack = 0
    MaxQueue = 1
    f1 = f1
    None = None
INVARIANTS QueueBound
PROPERTIES QueuesDrain
