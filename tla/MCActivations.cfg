SPECIFICATION Spec
CONSTANTS
    Procs = {p1, p2}
    ActorIDs = {a1}
    Nobody = Nobody
    Collector = Collector
    Failures = {"module", "startup"}
    SlowStartup = FALSE
    MaxGen = 2
    MaxFut = 5
    MaxTimers = 1
SYMMETRY ProcSymmetry
VIEW LiveState
INVARIANTS
    TypeOK
    SingleLiveInstance
    OpenInstanceIsReachable
    RunsWhatWasAsked
CHECK_DEADLOCK FALSE
