SPECIFICATION FairSpec
CONSTANTS
    Procs = {p1, p2}
    ActorIDs = {a1}
    Nobody = Nobody
    Collector = Collector
    Failures = {}
    SlowStartup = FALSE
    MaxGen = 2
    MaxFut = 4
    MaxTimers = 0
PROPERTY InvocationsReturn
CHECK_DEADLOCK FALSE
