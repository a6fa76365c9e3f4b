SPECIFICATION FairSpec
CONSTANTS
    Procs = {p1, p2}
    ActorIDs = {a1}
    Nobody = Nobody
    Collector = Collector
    Failures = {"module", "startup"}
    SlowStartup = TRUE
    MaxGen = 1
    MaxFut = 4
    MaxTimers = 0
INVARIANTS
    FailedFutureIsNotFound
    ClosedActorIsOnItsWayOut
PROPERTY InvocationsReturn
