CONSTANTS
    Processes = {p1, p2}
    h1 = h1
    h2 = h2
    h3 = h3
    Hosts = {h1, h2, h3}
    Replicas = 2
    MaxHash = 7
    Actors <- AllHashes
    Placements <- Interleaved
    NoHost = NoHost
    MaxChanges = 2
SPECIFICATION Spec
INVARIANT SameHostsSameRoute
PROPERTY OnlyMovesWhatItMust
 
CHECK_DEADLOCK FALSE
