SPECIFICATION ClusterSpec
CONSTANTS
    s1 = s1
    s2 = s2
    c1 = c1
    c2 = c2
    Servers = {s1, s2}
    Actors = {a1}
    Modules = {m1}
    NoServer = NoServer
    Clients = {c1, c2}
    Home <- AnyHome
    Faults = {"crash", "lose", "collect", "expire", "fail"}
    MaxFaults = 1
    TTL = 2
    MaxLag = 0
    Drift = 0
    MaxClock = 6
    MaxGeneration = 2
    MaxLoad = 2
    MaxInvocations = 3
SYMMETRY Symmetry
VIEW WithoutCounts
INVARIANTS
    ClusterTypeOK
    LeaseTrailsRegistry
    
    FreshStampFindsTheOwner
CHECK_DEADLOCK FALSE
