------------------------------ MODULE Semaphore ------------------------------
(***************************************************************************)
(* The semaphore actor (examples/semaphore/main.go): acquire and release   *)
(* of slots with a time to live, and the housecleaning that a timer of the *)
(* actor runs again and again; with what activations.go does to such an    *)
(* actor: activation, collection when idle, replacement, loss.             *)
(*                                                                         *)
(* Time is relative: `left` is what remains of a request's TTL, a timer    *)
(* is the time until it fires, `idle` the time since the last invocation.  *)
(* All three stop where nothing reads the difference any more, so the      *)
(* state space is finite without a bound on time.                          *)
(***************************************************************************)
EXTENDS Sequences, FiniteSetsExt

CONSTANTS
    KVs,            \* pairs of key and value that requests name
    perKeyLimits,   \* kv -> limit of its key, 0 when the key is unknown
    Requests,       \* request IDs
    Wishes,         \* lists of KVs that requests ask for
    MaxTTL,         \* bound: largest TTL of a request
    Period,         \* time between two housecleanings (10 s)
    GCAfters,       \* values of GCActorsAfterDurationWithNoInvocations
    MaxTimers       \* bound: housecleaning timers pending at a time

ASSUME SemaphoreAssumption ==
    /\ perKeyLimits \in [KVs -> Nat]
    /\ Wishes \subseteq Seq(KVs)
    /\ MaxTTL \in Nat /\ MaxTimers \in Nat
    /\ Period \in Nat \ {0}
    /\ GCAfters \subseteq Nat \ {0}

VARIABLES
    gcAfter,        \* the environment's option, fixed when it starts
    timely,         \* do timers of the Go runtime fire when they are due?
    active,         \* is an instance in memory?
    kvCounts,       \* kv -> slots taken, 0 when the map has no entry
    requestIDToKVs, \* request ID -> what it holds, NoRequest when absent
    timers,         \* remaining time -> housecleaning timers pending
    idle            \* time since the actor's last invocation

vars == <<gcAfter, timely, active, kvCounts, requestIDToKVs, timers, idle>>
options == <<gcAfter, timely>>

NoRequest == [kvs |-> <<>>, left |-> -1]

Pending == SumFunction(timers)

(* The places of k among the first n of a list of KVs, and the slots these   *)
(* n stand for.                                                              *)
Positions(kvs, n, k) == {i \in 1 .. n: kvs[i] = k}
Taken(kvs, n) == [k \in KVs |-> Cardinality(Positions(kvs, n, k))]

Plus(f, g) == [k \in KVs |-> f[k] + g[k]]
Minus(f, g) == [k \in KVs |-> f[k] - g[k]]

NoCounts == [k \in KVs |-> 0]

Forget ==
    /\ kvCounts' = NoCounts
    /\ requestIDToKVs' = [r \in Requests |-> NoRequest]

Init ==
    /\ gcAfter \in GCAfters /\ timely \in BOOLEAN
    /\ active = FALSE
    /\ kvCounts = NoCounts
    /\ requestIDToKVs = [r \in Requests |-> NoRequest]
    /\ timers = [t \in 0 .. Period |-> 0]
    /\ idle = 0

(* scheduleNextHouseclean: ts with one more timer. *)
ScheduleNextHouseclean(ts) == [ts EXCEPT ![Period] = @ + 1]

(***************************************************************************)
(* An invocation finds no instance: instantiation with empty maps, then    *)
(* STARTUP.  Its own operation follows as a step of its own, since others  *)
(* may come first once the future is resolved.                             *)
(***************************************************************************)
Activate ==
    /\ ~active /\ Pending < MaxTimers
    /\ active' = TRUE
    /\ Forget
    /\ timers' = ScheduleNextHouseclean(timers)
    /\ idle' = 0
    /\ UNCHANGED options

(* A variant: the limit may be passed by one. *)
BlockedPastLimit(kvs) ==
    {i \in 1 .. Len(kvs):
        LET count == kvCounts[kvs[i]] + Taken(kvs, i - 1)[kvs[i]]
        IN  count > 0 /\ count > perKeyLimits[kvs[i]]}

(* acquire's loop: positions at which the limit is found to be reached. *)
Blocked(kvs) ==
    {i \in 1 .. Len(kvs):
        LET count == kvCounts[kvs[i]] + Taken(kvs, i - 1)[kvs[i]]
        IN  count > 0 /\ count >= perKeyLimits[kvs[i]]}

(* A variant: unwind gives back nothing. *)
UnwoundToNothing(i) == 0

(***************************************************************************)
(* unwind(req, i), with positions from 1: it gives back the slots of the   *)
(* first i - 2 KVs, while the loop has taken those of the first i - 1.     *)
(***************************************************************************)
UnwoundTo(i) == IF i = 1 THEN 0 ELSE i - 2

(***************************************************************************)
(* acquire.  A request ID in use and an unknown key are refused at once; a *)
(* limit that is reached at position i ends the loop and unwinds.          *)
(***************************************************************************)
Acquire(r, kvs, ttl) ==
    /\ active
    /\ idle' = 0
    /\ IF \/ requestIDToKVs[r] # NoRequest
          \/ \E i \in DOMAIN kvs: perKeyLimits[kvs[i]] = 0
       THEN UNCHANGED <<kvCounts, requestIDToKVs>>
       ELSE IF Blocked(kvs) # {}
       THEN LET i == Min(Blocked(kvs))
            IN  /\ kvCounts' = Minus(Plus(kvCounts, Taken(kvs, i - 1)),
                                     Taken(kvs, UnwoundTo(i)))
                /\ UNCHANGED requestIDToKVs
       ELSE /\ kvCounts' = Plus(kvCounts, Taken(kvs, Len(kvs)))
            /\ requestIDToKVs' =
                   [requestIDToKVs EXCEPT ![r] = [kvs |-> kvs, left |-> ttl]]
    /\ UNCHANGED <<options, active, timers>>

(* Slots of k that the requests of a set hold, and their number. *)
SlotsOf(r, k) ==
    LET kvs == requestIDToKVs[r].kvs IN {r} \X Positions(kvs, Len(kvs), k)
Slots(R, k) == UNION {SlotsOf(r, k): r \in R}
HeldBy(R) == [k \in KVs |-> Cardinality(Slots(R, k))]

(* decrKV for every kv of every request of a set, and the requests forgotten. *)
Drop(R) ==
    /\ kvCounts' = Minus(kvCounts, HeldBy(R))
    /\ requestIDToKVs' = [r \in Requests |->
                             IF r \in R THEN NoRequest ELSE requestIDToKVs[r]]

(* release; an unknown request ID is no error. *)
Release(r) ==
    /\ active
    /\ idle' = 0
    /\ Drop({r})
    /\ UNCHANGED <<options, active, timers>>

Expired == {r \in Requests: requestIDToKVs[r].left = 0}

(* A variant: the next run is scheduled only if nothing had expired. *)
HousecleanOnce(ts) ==
    /\ idle' = 0
    /\ Drop(Expired)
    /\ timers' = IF Expired = {} THEN ScheduleNextHouseclean(ts) ELSE ts

(* A variant: the invocation by a timer does not count as one. *)
HousecleanUnnoticed(ts) ==
    /\ Drop(Expired)
    /\ timers' = ScheduleNextHouseclean(ts)
    /\ UNCHANGED idle

(* houseclean, the body: what has expired is dropped, the next run scheduled. *)
Houseclean(ts) ==
    /\ idle' = 0
    /\ Drop(Expired)
    /\ timers' = ScheduleNextHouseclean(ts)

(***************************************************************************)
(* A timer fires.  Without an instance activations.invoke returns (nil,    *)
(* nil); otherwise the reference of the timer equals that of the instance, *)
(* which may be a later one than the instance that set the timer.          *)
(***************************************************************************)
FireTimer ==
    LET ts == [timers EXCEPT ![0] = @ - 1]
    IN  /\ timers[0] > 0
        /\ IF active THEN Houseclean(ts)
           ELSE timers' = ts /\ UNCHANGED <<kvCounts, requestIDToKVs, idle>>
        /\ UNCHANGED <<options, active>>

(* gcFunc closes the actor; its timers stay with the Go runtime. *)
Collect ==
    /\ active /\ idle > gcAfter
    /\ active' = FALSE
    /\ Forget
    /\ idle' = 0
    /\ UNCHANGED <<options, timers>>

(***************************************************************************)
(* An instance of a higher generation takes over: empty maps, STARTUP, and *)
(* timers whose reference differs from the new one, which do nothing.      *)
(***************************************************************************)
Replace ==
    /\ active
    /\ Forget
    /\ timers' = ScheduleNextHouseclean([t \in 0 .. Period |-> 0])
    /\ idle' = 0
    /\ UNCHANGED <<options, active>>

(* The process ends; memory and timers go with it. *)
Crash ==
    /\ active
    /\ active' = FALSE
    /\ Forget
    /\ timers' = [t \in 0 .. Period |-> 0]
    /\ idle' = 0
    /\ UNCHANGED options

(* Time passes: no further than the next timer when timers are timely. *)
Tick ==
    /\ timely => timers[0] = 0
    /\ timers' = [t \in 0 .. Period |->
                     IF t = Period THEN 0
                     ELSE timers[t + 1] + (IF t = 0 THEN timers[0] ELSE 0)]
    /\ requestIDToKVs' = [r \in Requests |->
           [requestIDToKVs[r] EXCEPT !.left = IF @ > 0 THEN @ - 1 ELSE @]]
    /\ idle' = IF active /\ idle <= gcAfter THEN idle + 1 ELSE idle
    /\ UNCHANGED <<options, active, kvCounts>>

Next ==
    \/ Activate
    \/ \E r \in Requests, kvs \in Wishes, ttl \in 0 .. MaxTTL: Acquire(r, kvs, ttl)
    \/ \E r \in Requests: Release(r)
    \/ FireTimer
    \/ Collect
    \/ Replace
    \/ Crash
    \/ Tick

(* Time passes, and the Go runtime runs a timer that is due. *)
Spec == Init /\ [][Next]_vars /\ WF_vars(Tick) /\ WF_vars(FireTimer)

-----------------------------------------------------------------------------

(* Types, and no count of decrKV below zero. *)
TypeOK ==
    /\ gcAfter \in GCAfters /\ timely \in BOOLEAN /\ active \in BOOLEAN
    /\ kvCounts \in [KVs -> Nat]
    /\ requestIDToKVs \in
          [Requests -> [kvs: Wishes, left: 0 .. MaxTTL] \cup {NoRequest}]
    /\ timers \in [0 .. Period -> Nat]
    /\ idle \in 0 .. gcAfter + 1

(* The semaphore: the requests of an instance never hold more slots of a kv *)
(* than the limit of its key, whatever expired, was refused or unwound.     *)
(* The counts lie in between: decrKV (main.go:172) never meets one that is  *)
(* too low, and slots that are lost are lost within the limit.              *)
LimitRespected ==
    \A k \in KVs: /\ HeldBy(Requests)[k] <= kvCounts[k]
                  /\ kvCounts[k] <= perKeyLimits[k]

(* unwind (main.go:159) is there so that a refused request keeps nothing:   *)
(* what is counted is what the requests hold.                               *)
CountsAreHolders == \A k \in KVs: HeldBy(Requests)[k] = kvCounts[k]

Lost(k) == kvCounts[k] - HeldBy(Requests)[k]

LosesAtMostOneSlot ==
    (\E k \in KVs: Lost(k)' > Lost(k)) =>
        /\ \E k \in KVs: /\ Lost(k)' = Lost(k) + 1
                          /\ \A j \in KVs \ {k}: Lost(j)' = Lost(j)
        /\ active /\ active'
        /\ UNCHANGED <<requestIDToKVs, timers>>

(* What the code does instead: a refusal loses at most one slot, however    *)
(* long its list, and nothing else (release, houseclean, expiry, a new      *)
(* instance) makes counts and holders differ more.                          *)
RefusalLosesAtMostOneSlot == [][LosesAtMostOneSlot]_vars

(* Housecleaning never stops in an instance (main.go:130): there is always a *)
(* timer that will run it.  Unless timers are late or gcAfter is shorter     *)
(* than the period there is only one, and it keeps the actor in memory, as  *)
(* its invocations count (activations.go:467): gcFunc never finds it idle.  *)
HousecleanIsScheduled ==
    active => /\ \E t \in 0 .. Period: timers[t] > 0
              /\ timely /\ gcAfter >= Period =>
                     /\ \E t \in 0 .. Period:
                            timers = [u \in 0 .. Period |-> IF u = t THEN 1 ELSE 0]
                     /\ idle <= gcAfter

(* README of the example: what a caller that crashed had acquired is        *)
(* released once it has expired.                                            *)
ExpiredAreReleased ==
    \A r \in Requests:
        (requestIDToKVs[r].left = 0) ~> (requestIDToKVs[r] = NoRequest)
=============================================================================
