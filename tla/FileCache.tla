------------------------------ MODULE FileCache ------------------------------
(***************************************************************************)
(* The file cache actor (examples/file_cache/file_cache.go), a streaming   *)
(* actor whose answers are written by goroutines that outlive the          *)
(* invocation and share a chunk cache and a singleflight.Group; and its    *)
(* answers on their way to the callers (module Streams).                   *)
(*                                                                         *)
(* A byte of the file is its offset, so that an answer shows which bytes   *)
(* it is made of.                                                          *)
(***************************************************************************)
EXTENDS Streams, Sequences

CONSTANTS
    fileSize, chunkSize, fetchSize,
    Ranges,         \* stream -> pairs <<StartOffset, EndOffset>> it may ask for
    CacheFaults     \* which of "fetch" and "evict" may happen

ASSUME FileCacheAssumption ==
    /\ fileSize \in Nat \ {0} /\ chunkSize \in Nat \ {0}
    /\ fetchSize \in Nat /\ chunkSize <= fetchSize
    /\ fetchSize % chunkSize = 0                 \* NewFileCacheActor
    /\ CacheFaults \subseteq {"fetch", "evict"}
    /\ Ranges \in [Streams -> SUBSET (Int \X Int)]

VARIABLES
    req,            \* stream -> its GetRangeRequest, NoRange before
    pc,             \* stream -> where its goroutine is
    toRead,         \* stream -> chunks left to copy, the current one first
    out,            \* stream -> pieces written to the pipe
    putIdx,         \* stream -> next chunk its fetch will Put
    chunkCache      \* chunk index -> its bytes, <<>> when not cached

fcVars == <<req, pc, toRead, out, putIdx, chunkCache>>
vars == <<link, faults, fcVars>>

NoRange == <<>>
Chunks == 0 .. (fileSize - 1) \div chunkSize

Minimum(a, b) == IF a < b THEN a ELSE b

(* The bytes of the file from a to b - 1. *)
Bytes(a, b) == [i \in 1 .. b - a |-> a + i - 1]

CacheFault(f) == f \in CacheFaults /\ faults < MaxFaults /\ faults' = faults + 1

(***************************************************************************)
(* rangeToChunkIndexes: the loop steps through chunks from the one of      *)
(* `start` as long as bytes remain; the first may begin and the last may   *)
(* end inside of the chunk.  Every chunk but the first takes chunkSize     *)
(* from what remains.                                                      *)
(***************************************************************************)
rangeToChunkIndexes(start, end) ==
    LET first == Minimum(chunkSize, (start % chunkSize) + end - start)
        Remaining(i) ==    \* after i chunks
            end - start - (first - (start % chunkSize)) - (i - 1) * chunkSize
        count == CHOOSE i \in 1 .. end - start:
                    Remaining(i) <= 0 /\ \A j \in 1 .. i - 1: Remaining(j) > 0
        Chunk(i) ==
            LET idx == (start + (i - 1) * chunkSize) \div chunkSize
            IN  [idx |-> idx,
                 start |-> IF i = 1 THEN start % chunkSize ELSE 0,
                 end |-> IF i = count /\ chunkSize * (idx + 1) > end
                         THEN end - idx * chunkSize
                         ELSE IF i = 1 THEN first ELSE chunkSize]
    IN  [i \in 1 .. count |-> Chunk(i)]

(* A variant: the last fetch is not cut at the end of the file. *)
fetchEndUncut(idx) ==
    ((idx * chunkSize) \div fetchSize) * fetchSize + fetchSize

(* chunkIndexToFetchRange *)
fetchStart(idx) == ((idx * chunkSize) \div fetchSize) * fetchSize
fetchEnd(idx) == Minimum(fetchStart(idx) + fetchSize, fileSize)

Current(s) == Head(toRead[s]).idx

Init ==
    /\ InitStreams
    /\ req = [s \in Streams |-> NoRange]
    /\ pc = [s \in Streams |-> "idle"]
    /\ toRead = [s \in Streams |-> <<>>]
    /\ out = [s \in Streams |-> <<>>]
    /\ putIdx = [s \in Streams |-> 0]
    /\ chunkCache = [c \in Chunks |-> <<>>]

(* InvokeStream, an invalid GetRangeRequest *)
Refused(start, end) == start < 0 \/ end < 0 \/ end <= start \/ end > fileSize

(***************************************************************************)
(* InvokeStream: a range outside of the file is refused, which the caller  *)
(* gets as status 500; otherwise a goroutine starts and the reader of the  *)
(* pipe is the answer.                                                     *)
(***************************************************************************)
InvokeStream(s, start, end) ==
    /\ pc[s] = "idle"
    /\ req' = [req EXCEPT ![s] = <<start, end>>]
    /\ IF Refused(start, end)
       THEN /\ pc' = [pc EXCEPT ![s] = "done"]
            /\ link' = [link EXCEPT ![s] = [h \in Links |-> [n |-> 0, end |-> "error"]]]
            /\ UNCHANGED toRead
       ELSE /\ pc' = [pc EXCEPT ![s] = "get"]
            /\ toRead' = [toRead EXCEPT ![s] = rangeToChunkIndexes(start, end)]
            /\ UNCHANGED link
    /\ UNCHANGED <<faults, out, putIdx, chunkCache>>

(* getRange gives up: CloseWithError on the pipe. *)
Fail(S) ==
    /\ pc' = [s \in Streams |-> IF s \in S THEN "done" ELSE pc[s]]
    /\ link' = [s \in Streams |->
                  IF s \in S /\ link[s][1].end = "open"
                  THEN [link[s] EXCEPT ![1].end = "error"] ELSE link[s]]

(***************************************************************************)
(* w.Write of the part of the current chunk that was asked for; after the  *)
(* last chunk w.Close().  A chunk that is too short for the slice is a     *)
(* panic, a reader that has closed the pipe an error.                      *)
(***************************************************************************)
Write(s) ==
    LET chunk == chunkCache[Current(s)]
        want == Head(toRead[s])
        rest == Tail(toRead[s])
    IN  IF want.end > Len(chunk)
        THEN pc' = [pc EXCEPT ![s] = "panic"] /\ UNCHANGED <<link, toRead, out>>
        ELSE IF link[s][1].end = "closed"
        THEN Fail({s}) /\ UNCHANGED <<toRead, out>>
        ELSE /\ out' = [out EXCEPT ![s] =
                          Append(@, SubSeq(chunk, want.start + 1, want.end))]
             /\ toRead' = [toRead EXCEPT ![s] = rest]
             /\ pc' = [pc EXCEPT ![s] = IF rest = <<>> THEN "done" ELSE "get"]
             /\ link' = [link EXCEPT ![s][1] =
                           [n |-> @.n + 1, end |-> IF rest = <<>> THEN "eof" ELSE "open"]]

(* copyChunk, the first look into the cache *)
Get(s) ==
    /\ pc[s] = "get"
    /\ IF chunkCache[Current(s)] # <<>>
       THEN Write(s)
       ELSE pc' = [pc EXCEPT ![s] = "do"] /\ UNCHANGED <<link, toRead, out>>
    /\ UNCHANGED <<faults, req, putIdx, chunkCache>>

(* Streams in the call of fetchDeduper.Do that fetches the range of a chunk. *)
Fetching(idx) == {s \in Streams: /\ pc[s] = "fetch"
                                 /\ fetchStart(Current(s)) = fetchStart(idx)}
Waiting(idx) == {s \in Streams: /\ pc[s] = "wait"
                                /\ fetchStart(Current(s)) = fetchStart(idx)}

(* fetchDeduper.Do: the first caller fetches, others wait for its result. *)
Do(s) ==
    /\ pc[s] = "do"
    /\ IF Fetching(Current(s)) = {}
       THEN /\ pc' = [pc EXCEPT ![s] = "fetch"]
            /\ putIdx' = [putIdx EXCEPT ![s] = fetchStart(Current(s)) \div chunkSize]
       ELSE pc' = [pc EXCEPT ![s] = "wait"] /\ UNCHANGED putIdx
    /\ UNCHANGED <<link, faults, req, toRead, out, chunkCache>>

(***************************************************************************)
(* The next chunk of a fetch: io.CopyN, which fails where the file ends    *)
(* too early, and Put.  With the last one the call of Do returns to all    *)
(* its callers.                                                            *)
(***************************************************************************)
PutChunk(s) ==
    LET idx == putIdx[s]
        last == Minimum((idx + 1) * chunkSize, fetchEnd(Current(s)))
        callers == {s} \cup Waiting(Current(s))
    IN  /\ pc[s] = "fetch"
        /\ IF last > fileSize
           THEN Fail(callers) /\ UNCHANGED <<putIdx, chunkCache>>
           ELSE /\ chunkCache' = [chunkCache EXCEPT ![idx] = Bytes(idx * chunkSize, last)]
                /\ putIdx' = [putIdx EXCEPT ![s] = @ + 1]
                /\ pc' = [t \in Streams |->
                            IF t \in callers /\ last = fetchEnd(Current(s))
                            THEN "again" ELSE pc[t]]
                /\ UNCHANGED link
        /\ UNCHANGED <<faults, req, toRead, out>>

(* A variant: those who wait are forgotten when a fetch fails. *)
FetchFailsAlone(s) ==
    /\ pc[s] = "fetch"
    /\ CacheFault("fetch")
    /\ Fail({s})
    /\ UNCHANGED <<req, toRead, out, putIdx, chunkCache>>

(***************************************************************************)
(* FetchRange, the copy or Put fails, or the context of the stream that    *)
(* fetches expires: everybody who waits for the fetch fails with it.       *)
(***************************************************************************)
FetchFails(s) ==
    /\ pc[s] = "fetch"
    /\ CacheFault("fetch")
    /\ Fail({s} \cup Waiting(Current(s)))
    /\ UNCHANGED <<req, toRead, out, putIdx, chunkCache>>

(* copyChunk, the look into the cache after the fetch *)
GetAgain(s) ==
    /\ pc[s] = "again"
    /\ IF chunkCache[Current(s)] # <<>>
       THEN Write(s)
       ELSE Fail({s}) /\ UNCHANGED <<toRead, out>>
    /\ UNCHANGED <<faults, req, putIdx, chunkCache>>

(* The cache drops a chunk. *)
Evict(c) ==
    /\ chunkCache[c] # <<>>
    /\ CacheFault("evict")
    /\ chunkCache' = [chunkCache EXCEPT ![c] = <<>>]
    /\ UNCHANGED <<link, req, pc, toRead, out, putIdx>>

(* The actor's process ends, with its goroutines, handlers and cache. *)
CrashActor ==
    /\ StreamFault("crash")
    /\ pc' = [s \in Streams |-> IF pc[s] = "idle" THEN "idle" ELSE "done"]
    /\ link' = [s \in Streams |->
                  IF pc[s] = "idle" \/ link[s][2].end # "open" THEN link[s]
                  ELSE [link[s] EXCEPT ![1].end = "closed", ![2].end = "error"]]
    /\ chunkCache' = [c \in Chunks |-> <<>>]
    /\ UNCHANGED <<req, toRead, out, putIdx>>

Work(s) == Get(s) \/ Do(s) \/ PutChunk(s) \/ GetAgain(s)
Carry(s) == Pass(s) /\ UNCHANGED fcVars

Next ==
    \/ \E s \in Streams: \E range \in Ranges[s]: InvokeStream(s, range[1], range[2])
    \/ \E s \in Streams: Work(s) \/ FetchFails(s) \/ Carry(s)
    \/ \E s \in Streams: pc[s] # "idle" /\ Break(s) /\ UNCHANGED fcVars
    \/ \E c \in Chunks: Evict(c)
    \/ CrashActor

(***************************************************************************)
(* Goroutines are scheduled, a fetch makes progress or fails, and handlers *)
(* pass on what they have.  Nobody is obliged to ask.                      *)
(***************************************************************************)
Spec ==
    /\ Init /\ [][Next]_vars
    /\ \A s \in Streams: WF_vars(Work(s)) /\ WF_vars(Carry(s))

-----------------------------------------------------------------------------

(* Types; a goroutine never slices a chunk beyond its end (a panic).        *)
TypeOK ==
    /\ TypeOKStreams
    /\ pc \in [Streams -> {"idle", "get", "do", "wait", "fetch", "again", "done"}]
    /\ \A s \in Streams: req[s] \in Ranges[s] \cup {NoRange}
    /\ \A c \in Chunks: Len(chunkCache[c]) <= chunkSize

(* Where piece i of an answer ends in the file. *)
PieceEnd(s, i) == IF i = 0 THEN req[s][1] ELSE out[s][i][Len(out[s][i])] + 1

(* The caller of server.go reads the bytes of its range in order, whichever *)
(* stream fetched them, each piece going on where the one before it ended,  *)
(* and takes no truncated answer for a complete one.                        *)
NoTruncatedAnswer ==
    \A s \in Streams: req[s] # NoRange =>
        LET n == link[s][Hops + 1].n
        IN  /\ n <= Len(out[s])
            /\ \A i \in 1 .. n:
                 /\ out[s][i] # <<>>
                 /\ out[s][i] = Bytes(PieceEnd(s, i - 1), PieceEnd(s, i))
                 /\ PieceEnd(s, i) <= req[s][2]
            /\ link[s][Hops + 1].end = "eof" => PieceEnd(s, n) = req[s][2]

(* Without a fault no request for a range of the file fails: the fetch      *)
(* leaves every chunk its callers look for in the cache (file_cache.go:255).*)
ErrorsHaveACause ==
    faults = 0 => \A s \in Streams:
        link[s][Hops + 1].end = "error" =>
            Refused(req[s][1], req[s][2])

(* Every answer ends, in success or in an error the caller sees, and no     *)
(* goroutine of getRange is left behind, even when its caller went away.    *)
StreamsEnd ==
    \A s \in Streams: (req[s] # NoRange) ~> (pc[s] = "done" /\ Settled(s))
=============================================================================
