SPECIFICATION FairSpec
CONSTANTS
    r1 = r1
    r2 = r2
    r3 = r3
    r4 = r4
    Timer = Timer
    None = None
    Requests = {r1, r2, r3, r4}
    MaxBatch = 2
INVARIANTS TypeOK QueueIsTimed OwnResultOnce
PROPERTY CallsReturn
