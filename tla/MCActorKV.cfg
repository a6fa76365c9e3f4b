CONSTANTS
    Invocations = {i1, i2}
    Servers = {s1, s2}
    a1 = a1
    a2 = a2
    Actors = {a1, a2}
    Keys = {x, y}
    Nobody = Nobody
    ActorKey = ActorKey
    Backends = {"fdb", "local"}
    Calls <- OneWay
    OpenTrCalls = {"fdb"}
    MaxVersion = 2
SPECIFICATION Spec
SYMMETRY Symmetry
INVARIANT KVTypeOK
INVARIANT AcknowledgedIsStored
INVARIANT NoCircularWait
PROPERTY StorageIsAtomic
PROPERTY OnlyTheOwnerCommits
