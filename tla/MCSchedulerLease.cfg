SPECIFICATION FairSpec
CONSTANTS
    p1 = p1
    p2 = p2
    p3 = p3
    Processes = {p1, p2, p3}
    None = None
    TTL = 3
    Renewal = 1
    MaxStall = 3
INVARIANTS
    TypeOK
    OneScheduler
PROPERTIES
    LosersExit
    SchedulingResumes
