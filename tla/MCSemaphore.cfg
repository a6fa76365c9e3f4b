SPECIFICATION Spec
CONSTANTS
    user = user
    requestType = requestType
    unknown = unknown
    KVs <- KVsDef
    perKeyLimits <- LimitsDef
    Wishes <- WishesDef
    Requests = {r1, r2, r3}
    MaxTTL = 1
    Period = 2
    GCAfters = {1, 2, 3}
    MaxTimers = 2
INVARIANTS LimitRespected 
PROPERTIES RefusalLosesAtMostOneSlot ExpiredAreReleased
