SPECIFICATION MCSpec
CONSTANTS
    IntBase = 8
    MaxDigits = 10
    Namespaces <- MCNamespaces
    Modules <- MCModules
    ActorIDs <- MCActorIDs
    Servers <- MCServers
    StorageKeys <- MCStorageKeys
    PartCounts <- MCPartCounts
    MaxRecords = 6
    TestTuples <- MCTestTuples
INVARIANTS
    RecordsKeepTheirKeys
    PrefixReadsItsRecords
    UnpackInvertsPack
    PackKeepsOrder
    RangeIsTheExtensions
CHECK_DEADLOCK FALSE
