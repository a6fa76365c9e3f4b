SPECIFICATION Spec
CONSTANTS
    a = a  m = m  s1 = s1  s2 = s2  s3 = s3
    Servers = {s1, s2, s3}
    Actors = {a}
    Modules = {m}
    NoServer = NoServer
    TTL = 2
    MaxLag = 0
    MaxClock = 10
    MaxGeneration = 2
    MaxLoad = 1
SYMMETRY ServerSymmetry
INVARIANTS
    TypeOK
    StampsDoNotGoBack
    ActivationsAreRegistered
    TakenOverStaysDead
CHECK_DEADLOCK FALSE
