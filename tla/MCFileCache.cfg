SPECIFICATION Spec
CONSTANTS
    s1 = s1
    s2 = s2
    Streams = {s1, s2}
    Hops = 2
    StreamFaults = {"timeout", "crash", "disconnect"}
    CacheFaults = {"fetch", "evict"}
    MaxFaults = 1
    fileSize = 5
    chunkSize = 2
    fetchSize = 4
    Ranges <- RangesDef
INVARIANTS NoTruncatedAnswer ErrorsHaveACause
 
CHECK_DEADLOCK FALSE
