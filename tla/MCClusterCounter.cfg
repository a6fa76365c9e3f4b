SPECIFICATION ClusterSpec
CONSTANTS
    s1 = s1
    s2 = s2
    c1 = c1
    c2 = c2
    Servers = {s1, s2}
    Actors = {a1}
    Modules = {m1}
    NoServer = NoServer
    Clients = {c1}
    Home <- AnyHome
    Faults = {"expire"}
    MaxFaults = 4
    TTL = 2
    MaxLag = 0
    Drift = 0
    MaxClock = 7
    MaxGeneration = 1
    MaxLoad = 2
    MaxInvocations = 4
INVARIANT CounterStartsAgainOrGrows
CHECK_DEADLOCK FALSE
