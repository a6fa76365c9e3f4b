--------------------------- MODULE ActorKVProofs ---------------------------
(***************************************************************************)
(* Proofs about module ActorKV, on either store, for any invocations,      *)
(* servers, actors and keys.                                               *)
(***************************************************************************)
EXTENDS ActorKV, FiniteSetTheorems, TLAPS

Alive == {"running", "calling"}

\* What the steps of one invocation leave true of it: who it is for, and that
\* a transaction is open only while its operation runs and has only written
\* keys it had read.
InvocationOK(i) ==
    /\ inv[i].pc # "new" => inv[i].actor \in Actors
    /\ inv[i].pc \in Alive \cup {"enter"} => inv[i].server \in Servers
    /\ inv[i].tr = "open" => inv[i].pc \in Alive
    /\ inv[i].tr = "none" /\ ~Ended(i) => inv[i].written = {}
    /\ inv[i].tr = "open" => inv[i].written \subseteq inv[i].read
    /\ inv[i].pc = "calling" =>
         /\ inv[i].tr = "open" => backend \in OpenTrCalls
         /\ inv[i].callee \in Invocations
         /\ inv[inv[i].callee].pc # "new"
         /\ <<inv[i].actor, inv[inv[i].callee].actor>> \in Calls

InvocationInv == \A i \in Invocations : InvocationOK(i)

\* localKV's mutex is held by the one invocation with an open transaction.
MutexInv ==
    /\ backend = "fdb" => mutex = Nobody
    /\ backend = "local" => \A i \in Invocations : mutex = i <=> inv[i].tr = "open"

\* The fencing token of an open transaction is still the actor's activation,
\* unless FoundationDB will find the actor's record in conflict.
FenceInv ==
    \A i \in Invocations :
        inv[i].tr = "open" /\ (backend = "fdb" => ActorKey \notin inv[i].dirty) =>
            activation[inv[i].actor] = <<inv[i].server, inv[i].token>>

\* FoundationDB: what a transaction has read, unless it will be found in
\* conflict, is what the store has.
SnapshotInv ==
    backend = "fdb" =>
        \A i \in Invocations : inv[i].tr = "open" =>
            /\ \A k \in Keys \ inv[i].dirty : inv[i].snap[k] = store[inv[i].actor][k]
            /\ \A k \in inv[i].read : inv[i].got[k] = inv[i].snap[k]

\* localKV: the store is the clone and what the open transaction has written
\* over it, which is one more than what it has read.
CloneInv ==
    backend = "local" =>
        \A i \in Invocations : mutex = i =>
            /\ \A k \in inv[i].read : inv[i].got[k] = clone[inv[i].actor][k]
            /\ \A a \in Actors, k \in Keys :
                 store[a][k] = IF a = inv[i].actor /\ k \in inv[i].written
                               THEN clone[a][k] + 1 ELSE clone[a][k]

\* The inductive invariant of the lazy transaction.
KVInv == KVTypeOK /\ InvocationInv /\ MutexInv /\ FenceInv /\ SnapshotInv /\ CloneInv

-----------------------------------------------------------------------------
\* Type correctness of a record with no transaction, and of the ends and
\* beginnings made from it.
LEMMA NewInvType == NewInv \in InvState
  BY Zenon DEF NewInv, InvState, Zero

\* The record of an invocation that has returned.
LEMMA EndFields ==
    ASSUME KVTypeOK, NEW i \in Invocations, NEW answer \in {"ok", "failed", "unknown"}
    PROVE  /\ End(i, answer) \in InvState
           /\ End(i, answer).pc = answer
           /\ End(i, answer).actor = inv[i].actor
           /\ End(i, answer).written = inv[i].written
           /\ End(i, answer).tr = "none"
<1>1. inv[i] \in InvState
  BY Zenon DEF KVTypeOK
<1> QED
  BY <1>1, NewInvType, Zenon DEF End, InvState, NewInv

Started(a) == [NewInv EXCEPT !.pc = "stamp", !.actor = a]

\* The record of an invocation that has just been made.
LEMMA StartFields ==
    ASSUME NEW a \in Actors
    PROVE  /\ Started(a) \in InvState /\ Started(a).pc = "stamp" /\ Started(a).actor = a
           /\ Started(a).tr = "none" /\ Started(a).written = {}
  BY NewInvType, Zenon DEF Started, InvState, NewInv

\* The record of an invocation whose transaction opens with its first read.
LEMMA OpenedType ==
    ASSUME NEW r \in InvState, NEW t \in Nat, NEW c \in [Keys -> Nat],
           NEW g \in [Keys -> Nat], NEW k \in Keys
    PROVE  [r EXCEPT !.tr = "open", !.token = t, !.snap = c, !.read = {k}, !.got = g]
             \in InvState
  BY Zenon DEF InvState

\* The record of an invocation that has read one more key.
LEMMA GotType ==
    ASSUME NEW r \in InvState, NEW g \in [Keys -> Nat], NEW k \in Keys
    PROVE  [r EXCEPT !.read = @ \cup {k}, !.got = g] \in InvState
  BY Zenon DEF InvState

SameButDirty(r, q) ==
    /\ r.pc = q.pc /\ r.actor = q.actor /\ r.server = q.server /\ r.callee = q.callee
    /\ r.tr = q.tr /\ r.token = q.token /\ r.snap = q.snap /\ r.got = q.got
    /\ r.read = q.read /\ r.written = q.written

\* A commit of others only shows in the dirty keys of a transaction.
LEMMA DirtiedFields ==
    ASSUME KVTypeOK, NEW a \in Actors, NEW keys \in SUBSET (Keys \cup {ActorKey}),
           NEW j \in Invocations
    PROVE  /\ Dirtied(a, keys)[j] \in InvState
           /\ SameButDirty(Dirtied(a, keys)[j], inv[j])
           /\ Dirtied(a, keys)[j].dirty = IF inv[j].tr = "open" /\ inv[j].actor = a
                                         THEN inv[j].dirty \cup keys ELSE inv[j].dirty
<1>1. inv[j] \in InvState
  BY Zenon DEF KVTypeOK
<1>2. Dirtied(a, keys)[j] = IF inv[j].tr = "open" /\ inv[j].actor = a
                            THEN [inv[j] EXCEPT !.dirty = @ \cup keys] ELSE inv[j]
  BY Zenon DEF Dirtied
<1>3. CASE inv[j].tr = "open" /\ inv[j].actor = a
  <2>1. [inv[j] EXCEPT !.dirty = @ \cup keys] \in InvState
    BY <1>1, Zenon DEF InvState
  <2> QED
    BY <1>1, <1>2, <1>3, <2>1, Zenon DEF InvState, SameButDirty
<1>4. CASE ~(inv[j].tr = "open" /\ inv[j].actor = a)
  BY <1>1, <1>2, <1>4, Zenon DEF SameButDirty
<1> QED
  BY <1>3, <1>4, Zenon

\* An invocation that a step leaves as it is still has a callee that was made
\* for the actor it called.
LEMMA InvocationStep ==
    ASSUME InvocationInv, backend' = backend,
           \A l \in Invocations :
               /\ inv[l].pc # "new" => inv'[l].pc # "new" /\ inv'[l].actor = inv[l].actor
               /\ SameButDirty(inv'[l], inv[l]) \/ InvocationOK(l)'
    PROVE  InvocationInv'
<1> SUFFICES ASSUME NEW j \in Invocations, SameButDirty(inv'[j], inv[j]) PROVE InvocationOK(j)'
  BY Zenon DEF InvocationInv
<1>1. InvocationOK(j)
  BY Zenon DEF InvocationInv
<1>2. CASE inv[j].pc # "calling"
  BY <1>1, <1>2, Zenon DEF InvocationOK, SameButDirty, Ended
<1>3. CASE inv[j].pc = "calling"
  <2> DEFINE c == inv[j].callee
  <2>1. inv'[c].pc # "new" /\ inv'[c].actor = inv[c].actor
    BY <1>1, <1>3, Zenon DEF InvocationOK
  <2> QED
    BY <1>1, <1>3, <2>1, Zenon DEF InvocationOK, SameButDirty, Ended
<1> QED
  BY <1>2, <1>3, Zenon

-----------------------------------------------------------------------------
\* What EnsureActivation writes: open transactions on the actor are outdated.
LEMMA ReactivateStep ==
    ASSUME KVInv, NEW a \in Actors, NEW s \in Servers, Reactivate(a, s)
    PROVE  KVInv'
<1> USE ActorKVAssumption
<1>1. /\ StoreFree
      /\ activation' = [activation EXCEPT ![a] = <<s, version[s]>>]
      /\ UNCHANGED <<backend, store, mutex, clone, version, serverState>>
  BY Zenon DEF Reactivate, storeVars
<1>2. ASSUME NEW j \in Invocations
      PROVE  /\ inv'[j] \in InvState
             /\ SameButDirty(inv'[j], inv[j])
             /\ inv'[j].dirty = IF inv[j].tr = "open" /\ inv[j].actor = a
                                THEN inv[j].dirty \cup {ActorKey} ELSE inv[j].dirty
  BY DirtiedFields DEF Reactivate, KVInv
<1>3. KVTypeOK'
  <2>1. inv' \in [Invocations -> InvState]
    BY <1>2, Zenon DEF Reactivate, Dirtied
  <2>2. activation' \in [Actors -> Token]
    BY <1>1, Zenon DEF KVInv, KVTypeOK, Token
  <2> QED
    BY <1>1, <2>1, <2>2, Zenon DEF KVInv, KVTypeOK
<1>4. InvocationInv'
  <2>1. \A j \in Invocations : SameButDirty(inv'[j], inv[j])
    BY <1>2, Zenon
  <2> QED
    BY <1>1, <2>1, InvocationStep, Zenon DEF KVInv, SameButDirty
<1>5. MutexInv'
  BY <1>1, <1>2, ZenonT(30) DEF KVInv, MutexInv, SameButDirty
<1>6. FenceInv'
  <2> SUFFICES ASSUME NEW j \in Invocations, inv'[j].tr = "open",
                      backend = "fdb" => ActorKey \notin inv'[j].dirty
               PROVE  activation'[inv[j].actor] = <<inv[j].server, inv[j].token>>
    BY <1>1, <1>2, Zenon DEF FenceInv, SameButDirty
  <2>1. inv[j].tr = "open" /\ inv[j].actor \in Actors
    BY <1>2, ZenonT(30) DEF KVInv, InvocationInv, InvocationOK, SameButDirty, Alive
  <2>2. inv[j].actor # a
    BY <1>1, <1>2, <2>1, Zenon DEF StoreFree, KVInv, MutexInv, KVTypeOK
  <2>3. activation[inv[j].actor] = <<inv[j].server, inv[j].token>>
    BY <1>2, <2>1, <2>2, Zenon DEF KVInv, FenceInv
  <2> QED
    BY <1>1, <2>1, <2>2, <2>3, Zenon DEF KVInv, KVTypeOK
<1>7. SnapshotInv'
  <2>1. \A j \in Invocations : /\ inv'[j].tr = inv[j].tr /\ inv'[j].actor = inv[j].actor
                               /\ inv'[j].snap = inv[j].snap /\ inv'[j].got = inv[j].got
                               /\ inv'[j].read = inv[j].read
    BY <1>2, Zenon DEF SameButDirty
  <2> SUFFICES ASSUME backend = "fdb", NEW j \in Invocations, inv[j].tr = "open"
               PROVE  /\ \A k \in Keys \ inv'[j].dirty :
                           inv[j].snap[k] = store[inv[j].actor][k]
                      /\ \A k \in inv[j].read : inv[j].got[k] = inv[j].snap[k]
    BY <1>1, <2>1 DEF SnapshotInv
  <2> QED
    BY <1>2, Zenon DEF KVInv, SnapshotInv
<1>8. CloneInv'
  <2>1. \A j \in Invocations : /\ inv'[j].read = inv[j].read
                               /\ inv'[j].written = inv[j].written
                               /\ inv'[j].got = inv[j].got
                               /\ inv'[j].actor = inv[j].actor
    BY <1>2, Zenon DEF SameButDirty
  <2> QED
    BY <1>1, <2>1 DEF KVInv, CloneInv
<1> QED
  BY <1>3, <1>4, <1>5, <1>6, <1>7, <1>8, Zenon DEF KVInv

\* A step that touches neither the invocations nor what they depend on.
LEMMA RegistryStep ==
    ASSUME KVInv, NEW s \in Servers, BumpVersion(s) \/ SetServerState(s)
    PROVE  KVInv'
<1>1. UNCHANGED <<backend, store, mutex, clone, activation, inv>>
  BY Zenon DEF BumpVersion, SetServerState, storeVars
<1>2. KVTypeOK'
  BY <1>1, ActorKVAssumption, SMTT(30)
     DEF KVInv, KVTypeOK, BumpVersion, SetServerState
<1> QED
  BY <1>1, <1>2 DEF KVInv, InvocationInv, InvocationOK, MutexInv, FenceInv, SnapshotInv,
                    CloneInv, Ended

SameTransaction(r, q) ==
    /\ r.actor = q.actor /\ r.server = q.server /\ r.token = q.token /\ r.snap = q.snap
    /\ r.got = q.got /\ r.read = q.read /\ r.written = q.written /\ r.dirty = q.dirty

\* A step of invocations that leaves the open transactions and the stores alone.
LEMMA QuietStep ==
    ASSUME KVInv,
           UNCHANGED <<backend, store, mutex, clone, activation, version, serverState>>,
           inv' \in [Invocations -> InvState],
           \A l \in Invocations : /\ inv'[l].tr = inv[l].tr
                                  /\ inv[l].tr = "open" => SameTransaction(inv'[l], inv[l])
    PROVE  KVTypeOK' /\ MutexInv' /\ FenceInv' /\ SnapshotInv' /\ CloneInv'
<1>1. KVTypeOK'
  BY Zenon DEF KVInv, KVTypeOK
<1>2. MutexInv'
  BY Zenon DEF KVInv, MutexInv
<1>3. FenceInv'
  BY Zenon DEF KVInv, FenceInv, SameTransaction
<1>4. SnapshotInv'
  BY DEF KVInv, SnapshotInv, SameTransaction
<1>5. CloneInv'
  BY DEF KVInv, MutexInv, CloneInv, SameTransaction
<1> QED
  BY <1>1, <1>2, <1>3, <1>4, <1>5, Zenon

\* An invocation that is made has no transaction.
LEMMA InvokeStep ==
    ASSUME KVInv, NEW i \in Invocations, NEW a \in Actors, Invoke(i, a)
    PROVE  KVInv'
<1>1. /\ inv[i].pc = "new"
      /\ UNCHANGED <<backend, store, mutex, clone, activation, version, serverState>>
  BY Zenon DEF Invoke, storeVars, registryVars
<1>2. /\ inv'[i] \in InvState /\ inv'[i].pc = "stamp" /\ inv'[i].actor = a
      /\ inv'[i].tr = "none" /\ inv'[i].written = {}
      /\ \A j \in Invocations \ {i} : inv'[j] = inv[j]
      /\ inv' \in [Invocations -> InvState]
  BY StartFields, Zenon DEF Invoke, Started, KVInv, KVTypeOK
<1>3. inv[i].tr = "none"
  BY <1>1, Zenon DEF KVInv, KVTypeOK, InvState, InvocationInv, InvocationOK, Alive
<1>4. InvocationInv'
  <2>1. InvocationOK(i)'
    BY <1>2, Zenon DEF InvocationOK, Alive, Ended
  <2> QED
    BY <1>1, <1>2, <2>1, InvocationStep, Zenon DEF KVInv, SameButDirty
<1>5. KVTypeOK' /\ MutexInv' /\ FenceInv' /\ SnapshotInv' /\ CloneInv'
  BY <1>1, <1>2, <1>3, QuietStep, Zenon DEF SameTransaction
<1> QED
  BY <1>4, <1>5, Zenon DEF KVInv

\* An invocation finds the server of the actor, or gets the actor's mutex.
LEMMA EnterStep ==
    ASSUME KVInv, NEW i \in Invocations, Route(i) \/ Enter(i)
    PROVE  KVInv'
<1>1. /\ inv[i].pc \in {"stamp", "enter"} /\ inv[i].tr = "none" /\ inv[i].actor \in Actors
      /\ inv[i].pc = "enter" => inv[i].server \in Servers
      /\ inv[i].written = {} /\ inv[i] \in InvState
  BY Zenon DEF Route, Enter, KVInv, KVTypeOK, InvState, InvocationInv, InvocationOK, Alive, Ended
<1>2. UNCHANGED <<backend, store, mutex, clone, activation, version, serverState>>
  BY Zenon DEF Route, Enter, storeVars, registryVars
<1>3. activation[inv[i].actor][1] \in Servers
  BY <1>1, Zenon DEF KVInv, KVTypeOK, Token
<1>4. /\ \A j \in Invocations \ {i} : inv'[j] = inv[j]
      /\ inv'[i] \in InvState /\ inv'[i].pc \in {"enter", "running"}
      /\ inv'[i].actor = inv[i].actor /\ inv'[i].server \in Servers
      /\ inv'[i].tr = "none" /\ inv'[i].written = {}
      /\ inv' \in [Invocations -> InvState]
  <2>1. CASE Route(i)
    BY <1>1, <1>3, <2>1, Zenon DEF Route, KVInv, KVTypeOK, InvState
  <2>2. CASE Enter(i)
    BY <1>1, <2>2, Zenon DEF Enter, KVInv, KVTypeOK, InvState
  <2> QED
    BY <2>1, <2>2, Zenon
<1>5. InvocationInv'
  <2>1. InvocationOK(i)'
    BY <1>1, <1>4, Zenon DEF InvocationOK, Alive, Ended
  <2> QED
    BY <1>1, <1>2, <1>4, <2>1, InvocationStep, Zenon DEF KVInv, SameButDirty
<1>6. KVTypeOK' /\ MutexInv' /\ FenceInv' /\ SnapshotInv' /\ CloneInv'
  BY <1>1, <1>2, <1>4, QuietStep, Zenon DEF SameTransaction
<1> QED
  BY <1>5, <1>6, Zenon DEF KVInv

\* The operation invokes another actor, and gets its answer.
LEMMA CallStep ==
    ASSUME KVInv, NEW i \in Invocations, NEW j \in Invocations, NEW a \in Actors, Call(i, j, a)
    PROVE  KVInv'
<1> USE ActorKVAssumption
<1>1. /\ inv[i].pc = "running" /\ inv[j].pc = "new" /\ i # j
      /\ inv[i].tr = "open" => backend \in OpenTrCalls
      /\ <<inv[i].actor, a>> \in Calls
      /\ inv[i] \in InvState /\ inv[j] \in InvState /\ inv[j].tr = "none"
  BY Zenon DEF Call, KVInv, KVTypeOK, InvState, InvocationInv, InvocationOK, Alive
<1>2. UNCHANGED <<backend, store, mutex, clone, activation, version, serverState>>
  BY Zenon DEF Call, storeVars, registryVars
<1>3. \A l \in Invocations : l # i /\ l # j => inv'[l] = inv[l]
  BY <1>1, Zenon DEF Call, KVInv, KVTypeOK
<1>a. inv'[i] = [inv[i] EXCEPT !.pc = "calling", !.callee = j]
  BY <1>1, Zenon DEF Call, KVInv, KVTypeOK
<1>b. inv'[j] = Started(a)
  BY <1>1, Zenon DEF Call, Started, KVInv, KVTypeOK
<1>4. /\ inv'[i] \in InvState /\ inv'[i].pc = "calling" /\ inv'[i].callee = j
      /\ inv'[i].actor = inv[i].actor /\ inv'[i].server = inv[i].server
      /\ inv'[i].tr = inv[i].tr /\ inv'[i].token = inv[i].token
      /\ inv'[i].snap = inv[i].snap /\ inv'[i].got = inv[i].got
      /\ inv'[i].read = inv[i].read /\ inv'[i].written = inv[i].written
      /\ inv'[i].dirty = inv[i].dirty
  BY <1>1, <1>a, ZenonT(30) DEF InvState
<1>5. /\ inv'[j] \in InvState /\ inv'[j].pc = "stamp" /\ inv'[j].actor = a
      /\ inv'[j].tr = "none" /\ inv'[j].written = {}
  BY <1>b, StartFields
<1>6. inv' \in [Invocations -> InvState]
  BY <1>3, <1>4, <1>5, Zenon DEF Call, KVInv, KVTypeOK
<1>7. InvocationInv'
  <2>1. InvocationOK(i)'
    BY <1>1, <1>2, <1>4, <1>5, ZenonT(30) DEF KVInv, InvocationInv, InvocationOK, Alive, Ended
  <2>2. InvocationOK(j)'
    BY <1>5, Zenon DEF InvocationOK, Alive, Ended
  <2> QED
    BY <1>1, <1>2, <1>3, <1>4, <2>1, <2>2, InvocationStep, Zenon DEF KVInv, SameButDirty
<1>8. \A l \in Invocations : /\ inv'[l].tr = inv[l].tr
                             /\ inv[l].tr = "open" => SameTransaction(inv'[l], inv[l])
  BY <1>1, <1>3, <1>4, <1>5, Zenon DEF SameTransaction
<1>9. KVTypeOK' /\ MutexInv' /\ FenceInv' /\ SnapshotInv' /\ CloneInv'
  BY <1>2, <1>6, <1>8, QuietStep, Zenon
<1> QED
  BY <1>7, <1>9, Zenon DEF KVInv

\* The operation that was invoked has returned.
LEMMA CallReturnsStep ==
    ASSUME KVInv, NEW i \in Invocations, CallReturns(i)
    PROVE  KVInv'
<1>1. inv[i].pc = "calling" /\ inv[i] \in InvState /\ inv[i].actor \in Actors
  BY Zenon DEF CallReturns, KVInv, KVTypeOK, InvocationInv, InvocationOK
<1>2. UNCHANGED <<backend, store, mutex, clone, activation, version, serverState>>
  BY Zenon DEF CallReturns, storeVars, registryVars
<1>3. \A l \in Invocations : l # i => inv'[l] = inv[l]
  BY Zenon DEF CallReturns, KVInv, KVTypeOK
<1>4. /\ inv' \in [Invocations -> InvState] /\ inv'[i].pc = "running"
      /\ inv'[i].tr = inv[i].tr /\ SameTransaction(inv'[i], inv[i])
  BY <1>1, Zenon DEF CallReturns, KVInv, KVTypeOK, InvState, SameTransaction
<1>5. InvocationInv'
  <2>1. InvocationOK(i)'
    BY <1>1, <1>4, Zenon DEF KVInv, InvocationInv, InvocationOK, SameTransaction, Alive, Ended
  <2> QED
    BY <1>1, <1>2, <1>3, <1>4, <2>1, InvocationStep, Zenon DEF KVInv, SameButDirty, SameTransaction
<1>6. KVTypeOK' /\ MutexInv' /\ FenceInv' /\ SnapshotInv' /\ CloneInv'
  BY <1>2, <1>3, <1>4, QuietStep, Zenon DEF SameTransaction
<1> QED
  BY <1>5, <1>6, Zenon DEF KVInv

\* An invocation returns, with what that does to localKV when its transaction
\* is the one that is open.
LEMMA EndStep ==
    ASSUME KVInv, NEW i \in Invocations, NEW answer \in {"ok", "failed", "unknown"},
           inv[i].pc = "running",
           inv' = [inv EXCEPT ![i] = End(i, answer)],
           mutex' = IF mutex = i THEN Nobody ELSE mutex,
           store' \in {store, clone}, clone' \in {store, clone},
           mutex # i => UNCHANGED <<store, clone>>,
           UNCHANGED <<backend, activation, version, serverState>>
    PROVE  KVInv'
<1> USE ActorKVAssumption
<1>1. \A l \in Invocations : l # i => inv'[l] = inv[l]
  BY Zenon DEF KVInv, KVTypeOK
<1>2. /\ inv'[i] \in InvState /\ inv'[i].pc = answer /\ inv'[i].actor = inv[i].actor
      /\ inv'[i].tr = "none" /\ inv'[i].written = inv[i].written
      /\ inv' \in [Invocations -> InvState]
  BY EndFields, Zenon DEF KVInv, KVTypeOK
<1>3. KVTypeOK'
  BY <1>2, Zenon DEF KVInv, KVTypeOK
<1>4. InvocationInv'
  <2>1. InvocationOK(i)'
    BY <1>2, Zenon DEF KVInv, InvocationInv, InvocationOK, Alive, Ended
  <2> QED
    BY <1>1, <1>2, <2>1, InvocationStep, Zenon DEF KVInv, SameButDirty
<1>5. MutexInv'
  BY <1>1, <1>2, Zenon DEF KVInv, MutexInv, KVTypeOK
<1>6. FenceInv'
  BY <1>1, <1>2, Zenon DEF KVInv, FenceInv
<1>7. SnapshotInv'
  <2>1. backend = "fdb" => store' = store
    BY Zenon DEF KVInv, MutexInv
  <2> QED
    BY <1>1, <1>2, <2>1 DEF KVInv, SnapshotInv
<1>8. CloneInv'
  BY <1>1, <1>2 DEF KVInv, CloneInv
<1> QED
  BY <1>3, <1>4, <1>5, <1>6, <1>7, <1>8, Zenon DEF KVInv

\* The first KV operation: the fencing check, and the transaction that opens.
LEMMA BeginTransactionStep ==
    ASSUME KVInv, NEW i \in Invocations, NEW k \in Keys, BeginTransaction(i, k)
    PROVE  KVInv'
<1> USE ActorKVAssumption
<1> DEFINE current == store[inv[i].actor]
           token == serverState[inv[i].server]
<1>1. /\ inv[i].pc = "running" /\ inv[i].tr = "none" /\ inv[i].written = {} /\ StoreFree
      /\ inv[i].actor \in Actors /\ inv[i].server \in Servers /\ inv[i] \in InvState
  BY Zenon DEF BeginTransaction, KVInv, KVTypeOK, InvocationInv, InvocationOK, Alive, Ended
<1>a. current \in [Keys -> Nat] /\ token \in Nat
  BY <1>1 DEF KVInv, KVTypeOK
<1>2. mutex = Nobody /\ mutex # i
  BY <1>1, Zenon DEF StoreFree, KVInv, MutexInv, KVTypeOK
<1>3. CASE BeginRefused(i)
  BY <1>1, <1>2, <1>3, EndStep, Zenon DEF BeginRefused, storeVars, registryVars
<1>4. CASE ~BeginRefused(i)
  <2>1. /\ Fenced(i)
        /\ mutex' = IF backend = "local" THEN i ELSE mutex
        /\ clone' = IF backend = "local" THEN store ELSE clone
        /\ UNCHANGED <<backend, store, activation, version, serverState>>
    BY <1>4, Zenon DEF BeginTransaction, registryVars
  <2>a. inv' = [inv EXCEPT ![i].tr = "open", ![i].token = token, ![i].snap = current,
                           ![i].read = {k}, ![i].got[k] = current[k]]
    BY <1>4, Zenon DEF BeginTransaction
  <2>2. \A l \in Invocations : l # i => inv'[l] = inv[l]
    BY <2>a, Zenon DEF KVInv, KVTypeOK
  <2> DEFINE got == [inv[i].got EXCEPT ![k] = current[k]]
  <2>3. inv'[i] = [inv[i] EXCEPT !.tr = "open", !.token = token, !.snap = current,
                                 !.read = {k}, !.got = got]
    BY <2>a, Zenon DEF KVInv, KVTypeOK
  <2>b. got \in [Keys -> Nat] /\ got[k] = current[k]
    BY <1>1, <1>a, Zenon DEF InvState
  <2>4. /\ inv'[i] \in InvState
        /\ inv'[i].pc = "running" /\ inv'[i].actor = inv[i].actor
        /\ inv'[i].server = inv[i].server /\ inv'[i].tr = "open"
        /\ inv'[i].token = token /\ inv'[i].snap = current
        /\ inv'[i].read = {k} /\ inv'[i].got[k] = current[k]
        /\ inv'[i].written = {}
    <3> HIDE DEF current, token, got
    <3>2. /\ inv'[i].pc = inv[i].pc /\ inv'[i].actor = inv[i].actor
          /\ inv'[i].server = inv[i].server /\ inv'[i].tr = "open"
          /\ inv'[i].token = token /\ inv'[i].snap = current
          /\ inv'[i].read = {k} /\ inv'[i].got[k] = current[k]
          /\ inv'[i].written = inv[i].written
      BY <1>1, <2>3, <2>b, Zenon DEF InvState
    <3>3. /\ inv[i] \in InvState /\ token \in Nat
          /\ current \in [Keys -> Nat] /\ got \in [Keys -> Nat]
      BY <1>1, <1>a, <2>b, Zenon
    <3>4. [inv[i] EXCEPT !.tr = "open", !.token = token, !.snap = current,
                         !.read = {k}, !.got = got] \in InvState
      BY <3>3, OpenedType, Zenon
    <3>5. inv'[i] \in InvState
      BY <2>3, <3>4, Zenon
    <3> QED
      BY <1>1, <3>2, <3>5, Zenon
  <2>5. KVTypeOK'
    <3>1. inv' \in [Invocations -> InvState]
      BY <2>a, <2>2, <2>4, Zenon DEF KVInv, KVTypeOK
    <3> QED
      BY <2>1, <3>1, Zenon DEF KVInv, KVTypeOK
  <2>6. InvocationInv'
    <3>1. InvocationOK(i)'
      BY <1>1, <2>4, Zenon DEF InvocationOK, Alive, Ended
    <3> QED
      BY <1>1, <2>1, <2>2, <2>4, <3>1, InvocationStep, Zenon DEF KVInv, SameButDirty
  <2>7. MutexInv'
    BY <1>2, <2>1, <2>2, <2>4, Zenon DEF KVInv, MutexInv
  <2>8. FenceInv'
    <3> SUFFICES ASSUME NEW l \in Invocations, inv'[l].tr = "open",
                        backend = "fdb" => ActorKey \notin inv'[l].dirty
                 PROVE  activation[inv'[l].actor] = <<inv'[l].server, inv'[l].token>>
      BY <2>1, Zenon DEF FenceInv
    <3>1. CASE l = i
      BY <2>1, <2>4, <3>1, Zenon DEF Fenced
    <3>2. CASE l # i
      BY <2>2, <3>2, Zenon DEF KVInv, FenceInv
    <3> QED
      BY <3>1, <3>2, Zenon
  <2>9. SnapshotInv'
    <3> SUFFICES ASSUME backend = "fdb", NEW l \in Invocations, inv'[l].tr = "open"
                 PROVE  /\ \A q \in Keys \ inv'[l].dirty :
                             inv'[l].snap[q] = store[inv'[l].actor][q]
                        /\ \A q \in inv'[l].read : inv'[l].got[q] = inv'[l].snap[q]
      BY <2>1, Zenon DEF SnapshotInv
    <3>1. CASE l = i
      BY <2>4, <3>1, Zenon
    <3>2. CASE l # i
      BY <2>2, <3>2 DEF KVInv, SnapshotInv
    <3> QED
      BY <3>1, <3>2, Zenon
  <2>10. CloneInv'
    <3>1. CASE backend = "fdb"
      BY <2>1, <3>1, Zenon DEF CloneInv
    <3>2. CASE backend = "local"
      <4>1. mutex' = i /\ clone' = store /\ store' = store
        BY <2>1, <3>2, Zenon
      <4>2. \A q \in inv'[i].read : inv'[i].got[q] = clone'[inv'[i].actor][q]
        BY <2>4, <4>1, Zenon
      <4> QED
        BY <2>4, <4>1, <4>2, Zenon DEF CloneInv
    <3> QED
      BY <3>1, <3>2, Zenon DEF KVInv, KVTypeOK
  <2> QED
    BY <2>5, <2>6, <2>7, <2>8, <2>9, <2>10, Zenon DEF KVInv
<1> QED
  BY <1>3, <1>4, Zenon

\* A read, of the snapshot or of localKV's map, which for a key that the
\* transaction has not read is what the clone has.
LEMMA GetStep ==
    ASSUME KVInv, NEW i \in Invocations, NEW k \in Keys, Get(i, k)
    PROVE  KVInv'
<1> USE ActorKVAssumption
<1> DEFINE v == IF backend = "local" THEN store[inv[i].actor][k] ELSE inv[i].snap[k]
<1>1. /\ inv[i].pc = "running" /\ inv[i].tr = "open" /\ inv[i].written \subseteq inv[i].read
      /\ inv[i].actor \in Actors /\ inv[i].server \in Servers /\ inv[i] \in InvState
      /\ k \notin inv[i].read
  BY Zenon DEF Get, KVInv, KVTypeOK, InvocationInv, InvocationOK, Alive
<1>a. v \in Nat
  BY <1>1 DEF KVInv, KVTypeOK, InvState
<1>2. UNCHANGED <<backend, store, mutex, clone, activation, version, serverState>>
  BY Zenon DEF Get, storeVars, registryVars
<1>3. \A l \in Invocations : l # i => inv'[l] = inv[l]
  BY Zenon DEF Get, KVInv, KVTypeOK
<1> DEFINE got == [inv[i].got EXCEPT ![k] = v]
<1>4. inv'[i] = [inv[i] EXCEPT !.read = @ \cup {k}, !.got = got]
  BY Zenon DEF Get, KVInv, KVTypeOK
<1>b. /\ got \in [Keys -> Nat] /\ got[k] = v
      /\ \A q \in inv[i].read : got[q] = inv[i].got[q]
  BY <1>1, <1>a, Zenon DEF InvState
<1>5. /\ inv'[i] \in InvState
      /\ inv'[i].pc = inv[i].pc /\ inv'[i].actor = inv[i].actor
      /\ inv'[i].server = inv[i].server /\ inv'[i].tr = inv[i].tr
      /\ inv'[i].token = inv[i].token /\ inv'[i].snap = inv[i].snap
      /\ inv'[i].read = inv[i].read \cup {k} /\ inv'[i].got = got
      /\ inv'[i].written = inv[i].written /\ inv'[i].dirty = inv[i].dirty
  <2> HIDE DEF got
  <2>a. inv[i] \in InvState /\ got \in [Keys -> Nat]
    BY <1>1, <1>b, Zenon
  <2>b. [inv[i] EXCEPT !.read = @ \cup {k}, !.got = got] \in InvState
    BY <2>a, GotType, Zenon
  <2>1. inv'[i] \in InvState
    BY <1>4, <2>b, Zenon
  <2> QED
    BY <1>1, <2>1, <1>4, Zenon DEF InvState
<1>6. /\ inv'[i].got[k] = v
      /\ \A q \in inv[i].read : inv'[i].got[q] = inv[i].got[q]
  BY <1>b, <1>5, Zenon
<1>7. KVTypeOK'
  <2>1. inv' \in [Invocations -> InvState]
    BY <1>3, <1>5, Zenon DEF Get, KVInv, KVTypeOK
  <2> QED
    BY <1>2, <2>1, Zenon DEF KVInv, KVTypeOK
<1>8. InvocationInv'
  <2>1. InvocationOK(i)'
    BY <1>1, <1>5, Zenon DEF InvocationOK, Alive, Ended
  <2> QED
    BY <1>1, <1>2, <1>3, <1>5, <2>1, InvocationStep, Zenon DEF KVInv, SameButDirty
<1>9. MutexInv'
  BY <1>2, <1>3, <1>5 DEF KVInv, MutexInv
<1>10. FenceInv'
  <2> HIDE DEF v
  <2> QED
    BY <1>2, <1>3, <1>5 DEF KVInv, FenceInv
<1>11. SnapshotInv'
  <2> SUFFICES ASSUME backend = "fdb", NEW l \in Invocations, inv'[l].tr = "open"
               PROVE  /\ \A q \in Keys \ inv'[l].dirty :
                           inv'[l].snap[q] = store[inv'[l].actor][q]
                      /\ \A q \in inv'[l].read : inv'[l].got[q] = inv'[l].snap[q]
    BY <1>2, Zenon DEF SnapshotInv
  <2>1. CASE l = i
    <3>1. /\ \A q \in Keys \ inv[i].dirty : inv[i].snap[q] = store[inv[i].actor][q]
          /\ \A q \in inv[i].read : inv[i].got[q] = inv[i].snap[q]
      BY <1>1, Zenon DEF KVInv, SnapshotInv
    <3>2. v = inv[i].snap[k]
      BY Zenon
    <3> HIDE DEF v, got
    <3> QED
      BY <1>5, <1>6, <2>1, <3>1, <3>2
  <2>2. CASE l # i
    BY <1>3, <2>2 DEF KVInv, SnapshotInv
  <2> QED
    BY <2>1, <2>2, Zenon
<1>12. CloneInv'
  <2> SUFFICES ASSUME backend = "local", NEW l \in Invocations, mutex = l
               PROVE  /\ \A q \in inv'[l].read : inv'[l].got[q] = clone[inv'[l].actor][q]
                      /\ inv'[l].actor = inv[l].actor /\ inv'[l].written = inv[l].written
    BY <1>2 DEF KVInv, CloneInv
  <2>1. l = i
    BY <1>1, Zenon DEF KVInv, MutexInv
  <2>2. v = clone[inv[i].actor][k]
    BY <1>1, <2>1 DEF KVInv, CloneInv
  <2>3. \A q \in inv[i].read : inv[i].got[q] = clone[inv[i].actor][q]
    BY <2>1, Zenon DEF KVInv, CloneInv
  <2> HIDE DEF v
  <2> QED
    BY <1>5, <1>6, <2>1, <2>2, <2>3, Zenon
<1> QED
  BY <1>7, <1>8, <1>9, <1>10, <1>11, <1>12, Zenon DEF KVInv

\* A write, which on localKV shows in place.
LEMMA PutStep ==
    ASSUME KVInv, NEW i \in Invocations, NEW k \in Keys, Put(i, k)
    PROVE  KVInv'
<1> USE ActorKVAssumption
<1>1. /\ inv[i].pc = "running" /\ inv[i].tr = "open" /\ inv[i].written \subseteq inv[i].read
      /\ inv[i].actor \in Actors /\ inv[i].server \in Servers /\ inv[i] \in InvState
      /\ k \in inv[i].read \ inv[i].written
  BY Zenon DEF Put, KVInv, KVTypeOK, InvocationInv, InvocationOK, Alive
<1>2. /\ UNCHANGED <<backend, mutex, clone, activation, version, serverState>>
      /\ store' = IF backend = "local"
                  THEN [store EXCEPT ![inv[i].actor][k] = inv[i].got[k] + 1] ELSE store
  BY Zenon DEF Put, registryVars
<1>3. \A l \in Invocations : l # i => inv'[l] = inv[l]
  BY Zenon DEF Put, KVInv, KVTypeOK
<1>4. inv'[i] = [inv[i] EXCEPT !.written = @ \cup {k}]
  BY Zenon DEF Put, KVInv, KVTypeOK
<1>5. /\ inv'[i] \in InvState
      /\ inv'[i].pc = inv[i].pc /\ inv'[i].actor = inv[i].actor
      /\ inv'[i].server = inv[i].server /\ inv'[i].tr = inv[i].tr
      /\ inv'[i].token = inv[i].token /\ inv'[i].snap = inv[i].snap
      /\ inv'[i].read = inv[i].read /\ inv'[i].got = inv[i].got
      /\ inv'[i].written = inv[i].written \cup {k} /\ inv'[i].dirty = inv[i].dirty
  BY <1>1, <1>4 DEF InvState
<1>6. KVTypeOK'
  <2>1. inv' \in [Invocations -> InvState]
    BY <1>3, <1>5, Zenon DEF Put, KVInv, KVTypeOK
  <2>2. inv[i].got[k] + 1 \in Nat
    BY <1>1 DEF InvState
  <2>3. store' \in [Actors -> [Keys -> Nat]]
    BY <1>2, <2>2, Zenon DEF KVInv, KVTypeOK
  <2> QED
    BY <1>2, <2>1, <2>3, Zenon DEF KVInv, KVTypeOK
<1>7. InvocationInv'
  <2>1. InvocationOK(i)'
    BY <1>1, <1>5, Zenon DEF InvocationOK, Alive, Ended
  <2> QED
    BY <1>1, <1>2, <1>3, <1>5, <2>1, InvocationStep, Zenon DEF KVInv, SameButDirty
<1>8. MutexInv'
  BY <1>2, <1>3, <1>5 DEF KVInv, MutexInv
<1>9. FenceInv'
  BY <1>2, <1>3, <1>5, SMTT(30) DEF KVInv, FenceInv
<1>10. SnapshotInv'
  BY <1>2, <1>3, <1>5 DEF KVInv, SnapshotInv
<1>11. CloneInv'
  <2> SUFFICES ASSUME backend = "local", NEW l \in Invocations, mutex = l
               PROVE  /\ \A q \in inv'[l].read : inv'[l].got[q] = clone[inv'[l].actor][q]
                      /\ \A a \in Actors, q \in Keys :
                           store'[a][q] = IF a = inv'[l].actor /\ q \in inv'[l].written
                                          THEN clone[a][q] + 1 ELSE clone[a][q]
    BY <1>2 DEF CloneInv
  <2>1. l = i
    BY <1>1, Zenon DEF KVInv, MutexInv
  <2>2. /\ \A q \in inv[i].read : inv[i].got[q] = clone[inv[i].actor][q]
        /\ \A a \in Actors, q \in Keys :
             store[a][q] = IF a = inv[i].actor /\ q \in inv[i].written
                           THEN clone[a][q] + 1 ELSE clone[a][q]
    BY <2>1, Zenon DEF KVInv, CloneInv
  <2>3. \A a \in Actors, q \in Keys :
          store'[a][q] = IF a = inv[i].actor /\ q = k THEN clone[a][k] + 1 ELSE store[a][q]
    BY <1>1, <1>2, <2>2 DEF KVInv, KVTypeOK
  <2> QED
    BY <1>1, <1>5, <2>1, <2>2, <2>3
<1> QED
  BY <1>6, <1>7, <1>8, <1>9, <1>10, <1>11, Zenon DEF KVInv

\* What a transaction of FoundationDB that commits has read is what the store
\* has, so that what it writes is one more; and the actor is still where the
\* transaction was fenced.
LEMMA CommitFDBReads ==
    ASSUME KVInv, NEW i \in Invocations, NEW answer \in {"ok", "unknown"}, CommitFDB(i, answer)
    PROVE  /\ inv[i].pc = "running" /\ inv[i].tr = "open" /\ inv[i].actor \in Actors
           /\ inv[i].written = Keys
           /\ \A k \in Keys : inv[i].got[k] = store[inv[i].actor][k]
           /\ activation[inv[i].actor] = <<inv[i].server, inv[i].token>>
<1>1. /\ inv[i].pc = "running" /\ inv[i].written = Keys /\ Keys # {} /\ backend = "fdb"
      /\ inv[i].dirty \cap (inv[i].read \cup {ActorKey}) = {}
  BY Zenon DEF CommitFDB, MayReturn, Conflicts
<1>2. inv[i].tr = "open" /\ inv[i].actor \in Actors /\ Keys \subseteq inv[i].read
  BY <1>1, Zenon DEF KVInv, KVTypeOK, InvState, InvocationInv, InvocationOK, Ended
<1>3. \A k \in Keys : k \notin inv[i].dirty
  BY <1>1, <1>2, Zenon
<1>4. \A k \in Keys : inv[i].got[k] = store[inv[i].actor][k]
  BY <1>1, <1>2, <1>3 DEF KVInv, SnapshotInv
<1>5. activation[inv[i].actor] = <<inv[i].server, inv[i].token>>
  BY <1>1, <1>2, Zenon DEF KVInv, FenceInv
<1> QED
  BY <1>1, <1>2, <1>4, <1>5, Zenon

\* A commit of FoundationDB outdates the other transactions on the actor.
LEMMA CommitFDBStep ==
    ASSUME KVInv, NEW i \in Invocations, NEW answer \in {"ok", "unknown"}, CommitFDB(i, answer)
    PROVE  KVInv'
<1> USE ActorKVAssumption
<1> DEFINE a == inv[i].actor
           added == [k \in Keys |-> inv[i].got[k] + 1]
<1>1. backend = "fdb" /\ inv[i].pc = "running" /\ a \in Actors /\ mutex = Nobody
  BY CommitFDBReads, Zenon DEF CommitFDB, KVInv, MutexInv
<1>2. /\ UNCHANGED <<backend, mutex, clone, activation, version, serverState>>
      /\ store' = [store EXCEPT ![a] = added]
  BY Zenon DEF CommitFDB, registryVars
<1>3. ASSUME NEW l \in Invocations, l # i
      PROVE  /\ inv'[l] \in InvState
             /\ SameButDirty(inv'[l], inv[l])
             /\ inv'[l].dirty = IF inv[l].tr = "open" /\ inv[l].actor = a
                                THEN inv[l].dirty \cup Keys ELSE inv[l].dirty
  <2>1. inv'[l] = Dirtied(a, Keys)[l]
    BY <1>3, Zenon DEF CommitFDB, Dirtied
  <2> QED
    BY <1>1, <2>1, DirtiedFields DEF KVInv
<1>4. /\ inv'[i] \in InvState /\ inv'[i].pc = answer /\ inv'[i].actor = a
      /\ inv'[i].tr = "none" /\ inv'[i].written = inv[i].written
  <2>1. inv'[i] = End(i, answer)
    BY Zenon DEF CommitFDB, Dirtied
  <2> QED
    BY <2>1, EndFields DEF KVInv
<1>5. KVTypeOK'
  <2>1. DOMAIN inv' = Invocations /\ inv' = [l \in Invocations |-> inv'[l]]
    BY Zenon DEF CommitFDB, Dirtied
  <2>2. inv' \in [Invocations -> InvState]
    BY <1>3, <1>4, <2>1, Zenon
  <2>3. added \in [Keys -> Nat]
    BY DEF KVInv, KVTypeOK, InvState
  <2>4. store' \in [Actors -> [Keys -> Nat]]
    BY <1>1, <1>2, <2>3, Zenon DEF KVInv, KVTypeOK
  <2> QED
    BY <1>2, <2>2, <2>4, Zenon DEF KVInv, KVTypeOK
<1>6. InvocationInv'
  <2>1. InvocationOK(i)'
    BY <1>1, <1>4, Zenon DEF InvocationOK, Alive, Ended
  <2>2. \A l \in Invocations : l # i => SameButDirty(inv'[l], inv[l])
    BY <1>3, Zenon
  <2> QED
    BY <1>1, <1>2, <1>4, <2>1, <2>2, InvocationStep, Zenon DEF KVInv, SameButDirty
<1>7. MutexInv'
  BY <1>1, <1>2, Zenon DEF MutexInv
<1>8. FenceInv'
  <2> SUFFICES ASSUME NEW l \in Invocations, inv'[l].tr = "open",
                      ActorKey \notin inv'[l].dirty
               PROVE  activation[inv'[l].actor] = <<inv'[l].server, inv'[l].token>>
    BY <1>1, <1>2, Zenon DEF FenceInv
  <2>1. l # i
    BY <1>4, Zenon
  <2>2. inv[l].tr = "open" /\ ActorKey \notin inv[l].dirty
    BY <1>3, <2>1, ZenonT(30) DEF SameButDirty
  <2>3. activation[inv[l].actor] = <<inv[l].server, inv[l].token>>
    BY <2>2, Zenon DEF KVInv, FenceInv
  <2>4. /\ inv'[l].actor = inv[l].actor /\ inv'[l].server = inv[l].server
        /\ inv'[l].token = inv[l].token
    BY <1>3, <2>1, Zenon DEF SameButDirty
  <2> QED
    BY <2>3, <2>4, Zenon
<1>9. SnapshotInv'
  <2> SUFFICES ASSUME NEW l \in Invocations, inv'[l].tr = "open"
               PROVE  /\ \A q \in Keys \ inv'[l].dirty :
                           inv'[l].snap[q] = store'[inv'[l].actor][q]
                      /\ \A q \in inv'[l].read : inv'[l].got[q] = inv'[l].snap[q]
    BY Zenon DEF SnapshotInv
  <2>1. l # i
    BY <1>4, Zenon
  <2>2. SameButDirty(inv'[l], inv[l])
    BY <1>3, <2>1, Zenon
  <2>a. inv[l].tr = "open"
    BY <2>2, Zenon DEF SameButDirty
  <2>3. /\ inv[l].tr = "open" /\ inv[l].actor \in Actors
        /\ \A q \in Keys \ inv[l].dirty : inv[l].snap[q] = store[inv[l].actor][q]
        /\ \A q \in inv[l].read : inv[l].got[q] = inv[l].snap[q]
    <3>1. inv[l].actor \in Actors
      BY <2>a, Zenon DEF KVInv, InvocationInv, InvocationOK, Alive
    <3> QED
      BY <1>1, <2>a, <3>1, Zenon DEF KVInv, SnapshotInv
  <2>4. CASE inv[l].actor = a
    <3>1. Keys \ inv'[l].dirty = {}
      BY <1>3, <2>1, <2>3, <2>4, Zenon
    <3> QED
      BY <2>2, <2>3, <3>1, Zenon DEF SameButDirty
  <2>5. CASE inv[l].actor # a
    <3>1. inv'[l].dirty = inv[l].dirty
      BY <1>3, <2>1, <2>5, Zenon
    <3>2. store'[inv[l].actor] = store[inv[l].actor]
      BY <1>2, <2>3, <2>5, Zenon DEF KVInv, KVTypeOK
    <3> QED
      BY <2>2, <2>3, <3>1, <3>2, SMTT(30) DEF SameButDirty
  <2> QED
    BY <2>4, <2>5, Zenon
<1>10. CloneInv'
  BY <1>1, <1>2, Zenon DEF CloneInv
<1> QED
  BY <1>5, <1>6, <1>7, <1>8, <1>9, <1>10, Zenon DEF KVInv

\* A transaction of localKV that commits writes has the mutex.
LEMMA CommitLocalHolds ==
    ASSUME KVInv, NEW i \in Invocations, CommitLocal(i)
    PROVE  /\ backend = "local" /\ mutex = i /\ inv[i].pc = "running" /\ inv[i].tr = "open"
           /\ inv[i].actor \in Actors /\ inv[i].written = Keys
<1>1. inv[i].pc = "running" /\ inv[i].written = Keys /\ Keys # {} /\ backend = "local"
  BY Zenon DEF CommitLocal, MayReturn
<1>2. inv[i].tr = "open" /\ inv[i].actor \in Actors
  BY <1>1, Zenon DEF KVInv, KVTypeOK, InvState, InvocationInv, InvocationOK, Ended
<1> QED
  BY <1>1, <1>2, Zenon DEF KVInv, MutexInv

\* Every way for an operation to return preserves the invariant.
LEMMA ReturnsStep ==
    ASSUME KVInv, NEW i \in Invocations, Returns(i)
    PROVE  KVInv'
<1> USE ActorKVAssumption
<1>1. CASE CommitNothing(i)
  <2>1. inv[i].pc = "running"
    BY <1>1, Zenon DEF CommitNothing, MayReturn
  <2> QED
    BY <1>1, <2>1, EndStep, Zenon DEF CommitNothing, registryVars
<1>2. CASE CommitLocal(i)
  <2>1. inv[i].pc = "running" /\ mutex = i
    BY <1>2, CommitLocalHolds, Zenon
  <2> QED
    BY <1>2, <2>1, EndStep, Zenon DEF CommitLocal, registryVars
<1>3. CASE CommitRefused(i)
  <2>1. inv[i].pc = "running" /\ mutex = Nobody
    BY <1>3, Zenon DEF CommitRefused, MayReturn, KVInv, MutexInv
  <2> QED
    BY <1>3, <2>1, EndStep, Zenon DEF CommitRefused, storeVars, registryVars
<1>4. CASE Cancel(i)
  <2>1. inv[i].pc = "running"
    BY <1>4, Zenon DEF Cancel
  <2> QED
    BY <1>4, <2>1, EndStep, Zenon DEF Cancel, registryVars
<1>5. ASSUME NEW answer \in {"ok", "unknown"}, CommitFDB(i, answer) PROVE KVInv'
  BY <1>5, CommitFDBStep, Zenon
<1> QED
  BY <1>1, <1>2, <1>3, <1>4, <1>5, Zenon DEF Returns

\* The inductive step.
LEMMA KVInvStep == KVInv /\ [Next]_vars => KVInv'
<1> SUFFICES ASSUME KVInv, [Next]_vars PROVE KVInv'
  BY Zenon
<1>1. CASE UNCHANGED vars
  BY <1>1, SMTT(30) DEF vars, KVInv, KVTypeOK, InvocationInv, InvocationOK, MutexInv, FenceInv,
              SnapshotInv, CloneInv, Ended
<1>2. CASE Next
  BY <1>2, ReactivateStep, RegistryStep, InvokeStep, EnterStep, BeginTransactionStep,
     CallReturnsStep, ReturnsStep, GetStep, PutStep, CallStep, Zenon DEF Next, Waits
<1> QED
  BY <1>1, <1>2, Zenon

\* No invocation has been made, and the stores are empty.
LEMMA KVInvInit == Init => KVInv
<1> USE ActorKVAssumption
<1> SUFFICES ASSUME Init PROVE KVInv
  BY Zenon
<1>1. \A i \in Invocations : /\ inv[i] \in InvState /\ inv[i].pc = "new" /\ inv[i].tr = "none"
                             /\ inv[i].written = {}
  BY NewInvType, Zenon DEF Init, NewInv
<1>2. KVTypeOK
  BY <1>1 DEF Init, KVTypeOK, Token, Zero
<1>3. InvocationInv
  BY <1>1, Zenon DEF InvocationInv, InvocationOK, Alive, Ended
<1>4. mutex = Nobody
  BY Zenon DEF Init
<1> QED
  BY <1>1, <1>2, <1>3, <1>4, Zenon DEF KVInv, MutexInv, FenceInv, SnapshotInv, CloneInv

\* The invariant of the lazy transaction holds throughout.
LEMMA KVInvariant == Spec => []KVInv
  BY KVInvInit, KVInvStep, PTL DEF Spec

\* Type correctness of the transactional storage, on either store.
THEOREM TypeCorrect == Spec => []KVTypeOK
<1>1. KVInv => KVTypeOK
  BY Zenon DEF KVInv
<1> QED
  BY <1>1, KVInvariant, PTL

-----------------------------------------------------------------------------
\* One increment of all keys of one actor, by an invocation that returns with
\* it and whose fencing token is the actor's activation.
Commits(i, a) ==
    /\ Committed' = [Committed EXCEPT ![a] = [k \in Keys |-> Committed[a][k] + 1]]
    /\ inv[i].actor = a /\ inv[i].pc = "running" /\ Ended(i)'
    /\ activation[a] = <<inv[i].server, inv[i].token>>
    /\ UNCHANGED activation

\* localKV: what was written over the clone is one increment.
LEMMA CommitLocalCommits ==
    ASSUME KVInv, NEW i \in Invocations, CommitLocal(i)
    PROVE  Commits(i, inv[i].actor) /\ inv[i].actor \in Actors
<1>a. KVTypeOK
  BY Zenon DEF KVInv
<1> DEFINE a == inv[i].actor
<1>1. /\ backend = "local" /\ mutex = i /\ inv[i].pc = "running" /\ inv[i].tr = "open"
      /\ a \in Actors /\ inv[i].written = Keys
  BY CommitLocalHolds, Zenon
<1>2. \A b \in Actors, k \in Keys :
        store[b][k] = IF b = a THEN clone[b][k] + 1 ELSE clone[b][k]
  BY <1>1 DEF KVInv, CloneInv
<1>3. store = [clone EXCEPT ![a] = [k \in Keys |-> clone[a][k] + 1]]
  BY <1>a, <1>1, <1>2 DEF KVTypeOK
<1>4. Committed = clone /\ Committed' = store /\ UNCHANGED activation
  BY <1>1, ActorKVAssumption, Zenon DEF CommitLocal, Committed, registryVars
<1>5. activation[a] = <<inv[i].server, inv[i].token>>
  BY <1>1, Zenon DEF KVInv, FenceInv
<1>6. Ended(i)'
  <2>1. inv'[i] = End(i, "ok")
    BY <1>a, Zenon DEF CommitLocal, KVTypeOK
  <2> QED
    BY <1>a, <2>1, EndFields, Zenon DEF Ended
<1> QED
  BY <1>1, <1>3, <1>4, <1>5, <1>6, Zenon DEF Commits

\* FoundationDB: what was read without a conflict and written is one increment.
LEMMA CommitFDBCommits ==
    ASSUME KVInv, NEW i \in Invocations, NEW answer \in {"ok", "unknown"}, CommitFDB(i, answer)
    PROVE  Commits(i, inv[i].actor) /\ inv[i].actor \in Actors
<1>a. KVTypeOK
  BY Zenon DEF KVInv
<1> DEFINE a == inv[i].actor
<1>1. /\ inv[i].pc = "running" /\ a \in Actors
      /\ \A k \in Keys : inv[i].got[k] = store[a][k]
      /\ activation[a] = <<inv[i].server, inv[i].token>>
  BY CommitFDBReads, Zenon
<1>2. Committed = store /\ Committed' = store' /\ UNCHANGED activation
  BY Zenon DEF CommitFDB, Committed, KVInv, MutexInv, registryVars
<1>3. store' = [store EXCEPT ![a] = [k \in Keys |-> store[a][k] + 1]]
  BY <1>1, Zenon DEF CommitFDB
<1>4. Ended(i)'
  <2>1. inv'[i] = End(i, answer)
    BY Zenon DEF CommitFDB, Dirtied
  <2> QED
    BY <1>a, <2>1, EndFields, Zenon DEF Ended
<1> QED
  BY <1>1, <1>2, <1>3, <1>4, Zenon DEF Commits

\* What a step does to the committed storage: nothing, or one increment.
LEMMA CommittedStep ==
    ASSUME KVInv, [Next]_vars
    PROVE  \/ UNCHANGED Committed
           \/ \E i \in Invocations, a \in Actors : Commits(i, a)
<1> USE ActorKVAssumption
<1>a. KVTypeOK
  BY Zenon DEF KVInv
<1>1. CASE UNCHANGED <<store, mutex, clone>>
  BY <1>1, Zenon DEF Committed
<1>2. ASSUME NEW i \in Invocations, NEW k \in Keys, BeginTransaction(i, k)
      PROVE  UNCHANGED Committed
  <2>1. CASE BeginRefused(i)
    BY <2>1, Zenon DEF BeginRefused, storeVars, Committed
  <2>2. CASE ~BeginRefused(i)
    <3>1. mutex = Nobody
      BY <1>2, Zenon DEF BeginTransaction, StoreFree, KVInv, MutexInv
    <3> QED
      BY <1>2, <2>2, <3>1, Zenon DEF BeginTransaction, Committed
  <2> QED
    BY <2>1, <2>2, Zenon
<1>3. ASSUME NEW i \in Invocations, NEW k \in Keys, Put(i, k)
      PROVE  UNCHANGED Committed
  <2>1. backend = "local" => mutex = i
    BY <1>3, Zenon DEF Put, KVInv, MutexInv
  <2> QED
    BY <1>3, <2>1, Zenon DEF Put, Committed
<1>4. ASSUME NEW i \in Invocations, CommitNothing(i)
      PROVE  UNCHANGED Committed
  <2>1. CASE mutex # i
    BY <1>4, <2>1, Zenon DEF CommitNothing, Committed
  <2>2. CASE mutex = i
    <3>1. backend = "local" /\ inv[i].written = {}
      BY <1>a, <1>4, <2>2, Zenon DEF CommitNothing, KVInv, MutexInv, KVTypeOK
    <3>2. \A a \in Actors, k \in Keys : store[a][k] = clone[a][k]
      BY <2>2, <3>1 DEF KVInv, CloneInv
    <3>3. store = clone
      BY <1>a, <3>2 DEF KVTypeOK
    <3> QED
      BY <1>4, <2>2, <3>3, Zenon DEF CommitNothing, Committed
  <2> QED
    BY <2>1, <2>2, Zenon
<1>5. ASSUME NEW i \in Invocations, Cancel(i)
      PROVE  UNCHANGED Committed
  BY <1>5, Zenon DEF Cancel, Committed
<1>6. ASSUME NEW i \in Invocations, CommitLocal(i)
      PROVE  Commits(i, inv[i].actor) /\ inv[i].actor \in Actors
  BY <1>6, CommitLocalCommits, Zenon
<1>7. ASSUME NEW i \in Invocations, NEW answer \in {"ok", "unknown"}, CommitFDB(i, answer)
      PROVE  Commits(i, inv[i].actor) /\ inv[i].actor \in Actors
  BY <1>7, CommitFDBCommits, Zenon
<1>8. ASSUME NEW i \in Invocations,
             \/ Route(i) \/ Enter(i) \/ CallReturns(i) \/ CommitRefused(i)
             \/ \E a \in Actors : Invoke(i, a)
             \/ \E k \in Keys : Get(i, k)
             \/ \E j \in Invocations, a \in Actors : Call(i, j, a)
      PROVE  UNCHANGED <<store, mutex, clone>>
  BY <1>8, Zenon DEF Route, Enter, CallReturns, CommitRefused, Invoke, Get, Call, storeVars
<1>9. ASSUME NEW s \in Servers,
             BumpVersion(s) \/ SetServerState(s) \/ \E a \in Actors : Reactivate(a, s)
      PROVE  UNCHANGED <<store, mutex, clone>>
  BY <1>9, Zenon DEF BumpVersion, SetServerState, Reactivate, storeVars
<1>10. CASE UNCHANGED vars
  BY <1>1, <1>10, Zenon DEF vars
<1> QED
  BY <1>1, <1>2, <1>3, <1>4, <1>5, <1>6, <1>7, <1>8, <1>9, <1>10, Zenon DEF Next, Waits, Returns

\* What a new transaction would find is an actor's storage.
LEMMA CommittedType == KVTypeOK => Committed \in [Actors -> [Keys -> Nat]]
  BY Zenon DEF KVTypeOK, Committed

\* Storage changes only with the return of an invocation whose fencing token is
\* the actor's activation at that moment, however long ago BeginTransaction
\* (kv_registry.go:431) checked it.
THEOREM FencingSound == Spec => OnlyTheOwnerCommits
<1>1. ASSUME KVInv, [Next]_vars
      PROVE  \A a \in Actors :
                Committed'[a] # Committed[a] =>
                    \E i \in Invocations :
                        /\ ~Ended(i) /\ Ended(i)' /\ inv[i].actor = a
                        /\ activation[a] = <<inv[i].server, inv[i].token>>
  <2> SUFFICES ASSUME NEW a \in Actors, Committed'[a] # Committed[a]
               PROVE  \E i \in Invocations :
                          /\ ~Ended(i) /\ Ended(i)' /\ inv[i].actor = a
                          /\ activation[a] = <<inv[i].server, inv[i].token>>
    BY Zenon
  <2>1. PICK i \in Invocations, b \in Actors : Commits(i, b)
    BY <1>1, CommittedStep, Zenon
  <2>2. Committed \in [Actors -> [Keys -> Nat]]
    BY <1>1, CommittedType, Zenon DEF KVInv
  <2>3. a = b
    BY <2>1, <2>2, Zenon DEF Commits
  <2> QED
    BY <2>1, <2>3, Zenon DEF Commits, Ended
<1> QED
  BY <1>1, KVInvariant, PTL DEF Spec, OnlyTheOwnerCommits

\* Only EnsureActivation moves an actor.
LEMMA ActivationStep ==
    ASSUME [Next]_vars, activation' # activation
    PROVE  \E a \in Actors, s \in Servers : Reactivate(a, s)
<1>1. ~UNCHANGED vars
  BY Zenon DEF vars
<1>2. ASSUME NEW s \in Servers PROVE ~BumpVersion(s) /\ ~SetServerState(s)
  BY Zenon DEF BumpVersion, SetServerState
<1>3. ASSUME NEW i \in Invocations PROVE ~Waits(i)
  BY Zenon DEF Waits, Route, Enter, BeginTransaction, BeginRefused, registryVars
<1>4. ASSUME NEW i \in Invocations PROVE ~CallReturns(i) /\ ~Returns(i)
  BY Zenon DEF CallReturns, Returns, CommitNothing, CommitLocal, CommitRefused, Cancel, CommitFDB,
         registryVars
<1>5. ASSUME NEW i \in Invocations, NEW j \in Invocations, NEW a \in Actors
      PROVE  ~Invoke(i, a) /\ ~Call(i, j, a)
  BY Zenon DEF Invoke, Call, registryVars
<1>6. ASSUME NEW i \in Invocations, NEW k \in Keys PROVE ~Get(i, k) /\ ~Put(i, k)
  BY Zenon DEF Get, Put, registryVars
<1> QED
  BY <1>1, <1>2, <1>3, <1>4, <1>5, <1>6, Zenon DEF Next

\* Linearizability of an actor's storage on either store (kv_registry.go:431):
\* the lazy transactions of concurrent invocations, fenced, canceled, refused or
\* committed, implement the atomic storage of module ActorStorage.
THEOREM StorageRefined == Spec => StorageIsAtomic
<1>1. Init => Storage!Init
  BY Zenon DEF Init, Storage!Init, Committed, Zero, Storage!Zero
<1>2. ASSUME KVInv, [Next]_vars
      PROVE  [Storage!Next]_<<activation, Committed>>
  <2>1. CASE activation' # activation
    <3>1. PICK a \in Actors, s \in Servers : Reactivate(a, s)
      BY <1>2, <2>1, ActivationStep, Zenon
    <3>2. /\ activation' = [activation EXCEPT ![a] = <<s, version[s]>>]
          /\ UNCHANGED Committed
      BY <3>1, Zenon DEF Reactivate, storeVars, Committed
    <3>3. version[s] \in Nat /\ activation'[a] = <<s, version[s]>>
      BY <1>2, <3>2, ActorKVAssumption DEF KVInv, KVTypeOK
    <3>4. Storage!Activate(a)
      <4>1. activation'[a] \in Servers \X Nat
        BY <3>3
      <4>2. activation' = [activation EXCEPT ![a] = activation'[a]]
        BY <3>2, <3>3, Zenon
      <4> QED
        BY <3>2, <4>1, <4>2, Zenon DEF Storage!Activate
    <3> QED
      BY <3>4, Zenon DEF Storage!Next
  <2>2. CASE activation' = activation /\ UNCHANGED Committed
    BY <2>2, Zenon
  <2>3. CASE activation' = activation /\ ~UNCHANGED Committed
    <3>1. PICK i \in Invocations, a \in Actors : Commits(i, a)
      BY <1>2, <2>3, CommittedStep, Zenon
    <3>2. Storage!Increment(a)
      BY <3>1, Zenon DEF Commits, Storage!Increment
    <3> QED
      BY <3>2, Zenon DEF Storage!Next
  <2> QED
    BY <2>1, <2>2, <2>3, Zenon
<1> QED
  BY <1>1, <1>2, KVInvariant, PTL DEF Spec, StorageIsAtomic, Storage!Spec

-----------------------------------------------------------------------------
\* The increments of an actor that were acknowledged.
Acknowledged(a) ==
    {i \in Invocations : inv[i].actor = a /\ inv[i].pc = "ok" /\ inv[i].written = Keys}

\* An invocation is acknowledged with its increment by the step that commits it.
LEMMA AcknowledgingStep ==
    ASSUME KVInv, [Next]_vars, Keys # {}, NEW l \in Invocations,
           inv'[l].pc = "ok", inv'[l].written = Keys
    PROVE  \/ inv[l].pc = "ok" /\ inv[l].written = Keys /\ inv[l].actor = inv'[l].actor
           \/ CommitLocal(l) \/ CommitFDB(l, "ok")
<1> DEFINE Same == inv[l].pc = "ok" /\ inv[l].written = Keys /\ inv[l].actor = inv'[l].actor
<1>a. KVTypeOK /\ inv[l] \in InvState
  BY Zenon DEF KVInv, KVTypeOK
<1>1. ASSUME NEW a \in Actors, NEW s \in Servers, Reactivate(a, s) PROVE Same
  <2>1. inv' = Dirtied(a, {ActorKey})
    BY <1>1, Zenon DEF Reactivate
  <2>2. SameButDirty(Dirtied(a, {ActorKey})[l], inv[l])
    BY <1>a, DirtiedFields, Zenon
  <2> QED
    BY <2>1, <2>2, Zenon DEF SameButDirty
<1>2. ASSUME NEW s \in Servers, BumpVersion(s) \/ SetServerState(s) PROVE Same
  BY <1>2, Zenon DEF BumpVersion, SetServerState
<1>3. ASSUME NEW i \in Invocations, NEW a \in Actors, Invoke(i, a) PROVE Same
  BY <1>3, <1>a, StartFields, Zenon DEF Invoke, Started, KVTypeOK
<1>4. ASSUME NEW i \in Invocations, Route(i) \/ Enter(i) \/ CallReturns(i) PROVE Same
  <2>1. inv'[i].pc \in {"enter", "running"}
    BY <1>4, <1>a DEF Route, Enter, CallReturns, KVTypeOK, InvState
  <2>2. l # i => inv'[l] = inv[l]
    BY <1>4, <1>a, Zenon DEF Route, Enter, CallReturns, KVTypeOK
  <2> QED
    BY <2>1, <2>2, Zenon
<1>5. ASSUME NEW i \in Invocations, NEW answer \in {"ok", "failed", "unknown"},
             inv' = [inv EXCEPT ![i] = End(i, answer)]
      PROVE  Same \/ (i = l /\ answer = "ok" /\ inv[i].written = Keys)
  BY <1>5, <1>a, EndFields, Zenon DEF KVTypeOK
<1>6. ASSUME NEW i \in Invocations, NEW k \in Keys, BeginTransaction(i, k) PROVE Same
  <2>1. CASE BeginRefused(i)
    BY <1>5, <2>1, Zenon DEF BeginRefused
  <2>2. CASE ~BeginRefused(i)
    <3>1. inv[i].pc = "running" /\ inv'[i].pc = inv[i].pc
      BY <1>6, <1>a, <2>2 DEF BeginTransaction, KVTypeOK, InvState
    <3>2. l # i => inv'[l] = inv[l]
      BY <1>6, <1>a, <2>2, Zenon DEF BeginTransaction, KVTypeOK
    <3> QED
      BY <3>1, <3>2, Zenon
  <2> QED
    BY <2>1, <2>2, Zenon
<1>7. ASSUME NEW i \in Invocations, NEW k \in Keys, Get(i, k) \/ Put(i, k) PROVE Same
  <2>1. inv[i].pc = "running" /\ inv'[i].pc = inv[i].pc
    BY <1>7, <1>a DEF Get, Put, KVTypeOK, InvState
  <2>2. l # i => inv'[l] = inv[l]
    BY <1>7, <1>a, Zenon DEF Get, Put, KVTypeOK
  <2> QED
    BY <2>1, <2>2, Zenon
<1>8. ASSUME NEW i \in Invocations, NEW j \in Invocations, NEW a \in Actors, Call(i, j, a)
      PROVE  Same
  <2>1. i # j /\ inv'[i].pc = "calling" /\ inv'[j] = Started(a)
    BY <1>8, <1>a DEF Call, Started, KVTypeOK, InvState
  <2>2. l # i /\ l # j => inv'[l] = inv[l]
    BY <1>8, <1>a, Zenon DEF Call, KVTypeOK
  <2> QED
    BY <2>1, <2>2, StartFields, Zenon
<1>9. ASSUME NEW i \in Invocations, CommitNothing(i) PROVE Same
  BY <1>9, <1>5, Zenon DEF CommitNothing
<1>10. ASSUME NEW i \in Invocations, CommitRefused(i) \/ Cancel(i) PROVE Same
  BY <1>10, <1>5, Zenon DEF CommitRefused, Cancel
<1>11. ASSUME NEW i \in Invocations, CommitLocal(i) PROVE Same \/ CommitLocal(l)
  BY <1>11, <1>5, Zenon DEF CommitLocal
<1>12. ASSUME NEW i \in Invocations, NEW answer \in {"ok", "unknown"}, CommitFDB(i, answer)
       PROVE  Same \/ CommitFDB(l, "ok")
  <2>1. inv[i].actor \in Actors
    BY <1>12, CommitFDBReads, Zenon
  <2>2. CASE l # i
    <3>1. inv'[l] = Dirtied(inv[i].actor, Keys)[l]
      BY <1>12, <2>2, Zenon DEF CommitFDB, Dirtied
    <3>2. SameButDirty(Dirtied(inv[i].actor, Keys)[l], inv[l])
      BY <1>a, <2>1, DirtiedFields, Zenon
    <3> QED
      BY <3>1, <3>2, Zenon DEF SameButDirty
  <2>3. CASE l = i
    <3>1. inv'[i] = End(i, answer)
      BY <1>12, Zenon DEF CommitFDB, Dirtied
    <3> QED
      BY <1>12, <1>a, <2>3, <3>1, EndFields, Zenon
  <2> QED
    BY <2>2, <2>3, Zenon
<1>13. CASE UNCHANGED vars
  BY <1>13, Zenon DEF vars
<1> HIDE DEF Same
<1>14. ASSUME NEW i \in Invocations, Waits(i) PROVE Same
  BY <1>14, <1>4, <1>6, Zenon DEF Waits
<1>15. ASSUME NEW i \in Invocations, Returns(i)
       PROVE  Same \/ CommitLocal(l) \/ CommitFDB(l, "ok")
  BY <1>15, <1>9, <1>10, <1>11, <1>12, Zenon DEF Returns
<1>16. ASSUME Next PROVE Same \/ CommitLocal(l) \/ CommitFDB(l, "ok")
  BY <1>16, <1>1, <1>2, <1>3, <1>4, <1>7, <1>8, <1>14, <1>15, Zenon DEF Next
<1> QED
  BY <1>13, <1>16, Zenon DEF Same

\* A step adds at most one to the acknowledged increments of an actor, and
\* then adds one to its storage.
LEMMA AcknowledgedStep ==
    ASSUME KVInv, [Next]_vars, Keys # {}, NEW a \in Actors
    PROVE  \/ Acknowledged(a)' \subseteq Acknowledged(a)
           \/ \E i \in Invocations : /\ Acknowledged(a)' \subseteq Acknowledged(a) \cup {i}
                                      /\ Commits(i, a)
<1> SUFFICES ASSUME NEW i \in Invocations, i \in Acknowledged(a)', i \notin Acknowledged(a)
             PROVE  /\ Acknowledged(a)' \subseteq Acknowledged(a) \cup {i}
                    /\ Commits(i, a)
  BY Zenon DEF Acknowledged
<1>1. /\ inv'[i].pc = "ok" /\ inv'[i].written = Keys /\ inv'[i].actor = a
      /\ ~(inv[i].pc = "ok" /\ inv[i].written = Keys /\ inv[i].actor = a)
  BY Zenon DEF Acknowledged
<1>2. CommitLocal(i) \/ CommitFDB(i, "ok")
  BY <1>1, AcknowledgingStep, Zenon
<1>3. Commits(i, inv[i].actor) /\ inv[i].actor \in Actors
  BY <1>2, CommitLocalCommits, CommitFDBCommits, Zenon
<1>4. inv'[i].actor = inv[i].actor
  <2>1. inv'[i] = End(i, "ok")
    BY <1>2, Zenon DEF CommitLocal, CommitFDB, Dirtied, KVInv, KVTypeOK
  <2> QED
    BY <2>1, EndFields, Zenon DEF KVInv
<1>5. ASSUME NEW l \in Acknowledged(a)', l # i PROVE l \in Acknowledged(a)
  <2>1. l \in Invocations
    BY <1>5, Zenon DEF Acknowledged
  <2>2. CASE CommitLocal(i)
    BY <1>5, <2>1, <2>2, Zenon DEF CommitLocal, Acknowledged, KVInv, KVTypeOK
  <2>3. CASE CommitFDB(i, "ok")
    <3>1. inv'[l] = Dirtied(inv[i].actor, Keys)[l]
      BY <1>5, <2>1, <2>3, Zenon DEF CommitFDB, Dirtied
    <3>2. SameButDirty(Dirtied(inv[i].actor, Keys)[l], inv[l])
      BY <1>3, <2>1, DirtiedFields, Zenon DEF KVInv
    <3> QED
      BY <1>5, <2>1, <3>1, <3>2, Zenon DEF SameButDirty, Acknowledged
  <2> QED
    BY <1>2, <2>2, <2>3, Zenon
<1> QED
  BY <1>1, <1>3, <1>4, <1>5, Zenon

\* Every increment whose invocation was acknowledged is in the store
\* (hostCapabilities.Transact, host_capabilities.go:52).
THEOREM NothingAcknowledgedIsLost == Spec => []AcknowledgedIsStored
<1>1. \A a \in Actors : Increments(a, "ok") = Cardinality(Acknowledged(a))
  BY Zenon DEF Increments, Acknowledged
<1>2. Init => AcknowledgedIsStored
  <2> SUFFICES ASSUME Init, NEW a \in Actors, NEW k \in Keys
               PROVE  Increments(a, "ok") <= Committed[a][k]
    BY Zenon DEF AcknowledgedIsStored
  <2>1. Acknowledged(a) = {}
    BY Zenon DEF Init, NewInv, Acknowledged
  <2>2. Increments(a, "ok") = 0
    BY <1>1, <2>1, FS_EmptySet, Zenon
  <2>3. Committed[a][k] = 0
    BY Zenon DEF Init, Committed, Zero
  <2> QED
    BY <2>2, <2>3
<1>3. ASSUME KVInv, AcknowledgedIsStored, [Next]_vars
      PROVE  AcknowledgedIsStored'
  <2> SUFFICES ASSUME NEW a \in Actors, NEW k \in Keys
               PROVE  Increments(a, "ok")' <= Committed'[a][k]
    BY Zenon DEF AcknowledgedIsStored
  <2>1. /\ IsFiniteSet(Acknowledged(a)) /\ IsFiniteSet(Acknowledged(a)')
        /\ Cardinality(Acknowledged(a)) \in Nat /\ Cardinality(Acknowledged(a)') \in Nat
    BY ActorKVAssumption, FS_Subset, FS_CardinalityType, Zenon DEF Acknowledged
  <2>2. Cardinality(Acknowledged(a)) <= Committed[a][k]
    BY <1>1, <1>3, Zenon DEF AcknowledgedIsStored
  <2>3. Increments(a, "ok")' = Cardinality(Acknowledged(a)')
    BY Zenon DEF Increments, Acknowledged
  <2>4. Committed \in [Actors -> [Keys -> Nat]]
    BY <1>3, CommittedType, Zenon DEF KVInv
  <2>5. CASE Acknowledged(a)' \subseteq Acknowledged(a)
    <3>1. Cardinality(Acknowledged(a)') <= Cardinality(Acknowledged(a))
      BY <2>1, <2>5, FS_Subset, Zenon
    <3>2. Committed'[a][k] >= Committed[a][k]
      <4>1. CASE UNCHANGED Committed
        BY <2>4, <4>1
      <4>2. ASSUME NEW i \in Invocations, NEW b \in Actors, Commits(i, b)
            PROVE  Committed'[a][k] >= Committed[a][k]
        BY <2>4, <4>2 DEF Commits
      <4> QED
        BY <1>3, <4>1, <4>2, CommittedStep, Zenon
    <3>3. Committed'[a][k] \in Nat /\ Committed[a][k] \in Nat
      BY <1>3, <2>4, KVInvStep, CommittedType, Zenon DEF KVInv, KVTypeOK, Committed
    <3> QED
      BY <2>1, <2>2, <2>3, <3>1, <3>2, <3>3
  <2>6. ASSUME NEW i \in Invocations,
               Acknowledged(a)' \subseteq Acknowledged(a) \cup {i}, Commits(i, a)
        PROVE  Increments(a, "ok")' <= Committed'[a][k]
    <3>1. /\ IsFiniteSet(Acknowledged(a) \cup {i})
          /\ Cardinality(Acknowledged(a) \cup {i}) <= Cardinality(Acknowledged(a)) + 1
      <4>1. /\ IsFiniteSet(Acknowledged(a) \cup {i})
            /\ \/ Cardinality(Acknowledged(a) \cup {i}) = Cardinality(Acknowledged(a))
               \/ Cardinality(Acknowledged(a) \cup {i}) = Cardinality(Acknowledged(a)) + 1
        BY <2>1, FS_AddElement, Zenon
      <4> QED
        BY <2>1, <4>1
    <3>2. /\ Cardinality(Acknowledged(a)') <= Cardinality(Acknowledged(a) \cup {i})
          /\ Cardinality(Acknowledged(a) \cup {i}) \in Nat
      BY <2>6, <3>1, FS_Subset, FS_CardinalityType, Zenon
    <3>3. Committed'[a][k] = Committed[a][k] + 1 /\ Committed[a][k] \in Nat
      BY <2>4, <2>6, Zenon DEF Commits
    <3> QED
      BY <2>1, <2>2, <2>3, <3>1, <3>2, <3>3
  <2> QED
    BY <1>3, <2>5, <2>6, AcknowledgedStep, Zenon
<1> QED
  BY <1>2, <1>3, KVInvariant, PTL DEF Spec

-----------------------------------------------------------------------------
\* Actors do not call each other in a circle.
CallsEnd == \A S \in SUBSET Actors : S # {} => \E a \in S : \A b \in S : <<a, b>> \notin Calls

\* Without calls inside an open transaction of localKV, what holds its mutex
\* waits for nobody.
LEMMA MutexHolder ==
    ASSUME KVInv, "local" \notin OpenTrCalls, ~StoreFree
    PROVE  mutex \in Invocations /\ BlockedBy(mutex) = {} /\ ~Ended(mutex)
<1>1. backend = "local" /\ mutex \in Invocations
  BY ActorKVAssumption, Zenon DEF KVInv, KVTypeOK, StoreFree
<1>2. inv[mutex].tr = "open" /\ inv[mutex].pc = "running"
  BY <1>1, Zenon DEF KVInv, MutexInv, InvocationInv, InvocationOK, Alive
<1> QED
  BY <1>1, <1>2, Zenon DEF BlockedBy, Ended

\* The invocations one waits for are under way, and for the actor it is in or
\* for one that this actor calls.
LEMMA Blockers ==
    ASSUME KVInv, "local" \notin OpenTrCalls, NEW i \in Invocations, NEW j \in BlockedBy(i)
    PROVE  /\ j \in Invocations /\ ~Ended(j) /\ inv[i].actor \in Actors
           /\ \/ ~StoreFree /\ j = mutex
              \/ /\ inv[i].pc = "enter" /\ inv[j].pc \in {"running", "calling"}
                 /\ inv[j].actor = inv[i].actor
              \/ inv[i].pc = "calling" /\ <<inv[i].actor, inv[j].actor>> \in Calls
<1>1. inv[i].pc \in {"stamp", "enter", "running", "calling"}
  BY Zenon DEF BlockedBy, KVInv, KVTypeOK, InvState
<1>2. inv[i].actor \in Actors
  BY <1>1, Zenon DEF KVInv, InvocationInv, InvocationOK
<1>3. CASE inv[i].pc \in {"stamp", "running"}
  <2>1. ~StoreFree /\ j = mutex
    BY <1>3, Zenon DEF BlockedBy
  <2> QED
    BY <1>2, <2>1, MutexHolder, Zenon
<1>4. CASE inv[i].pc = "enter"
  <2>1. /\ j \in Invocations /\ inv[j].pc \in {"running", "calling"}
        /\ inv[j].actor = inv[i].actor
    BY <1>4, Zenon DEF BlockedBy
  <2> QED
    BY <1>2, <1>4, <2>1, Zenon DEF Ended
<1>5. CASE inv[i].pc = "calling"
  <2>1. j = inv[i].callee /\ ~(j \in Invocations /\ Ended(j))
    BY <1>5, Zenon DEF BlockedBy
  <2>2. j \in Invocations /\ <<inv[i].actor, inv[j].actor>> \in Calls
    BY <1>5, <2>1, Zenon DEF KVInv, InvocationInv, InvocationOK
  <2> QED
    BY <1>2, <1>5, <2>1, <2>2, Zenon
<1> QED
  BY <1>1, <1>3, <1>4, <1>5, Zenon

\* localKV's mutex (local_kv.go:33) and the actors' (activations.go:459) are
\* never waited for in a circle, nor held by an invocation that is over, when
\* calls between actors end and, on localKV, are not made with a transaction
\* open.  Of invocations that all wait for one another none is the holder of
\* localKV's mutex; so each waits for an operation on its actor, which waits
\* for one on an actor further down the calls.
THEOREM MutexesAreReleased ==
    ASSUME CallsEnd, "local" \notin OpenTrCalls
    PROVE  Spec => []NoCircularWait
<1>1. ASSUME KVInv PROVE NoCircularWait
  <2>1. ASSUME NEW S \in SUBSET Invocations, S # {},
               \A i \in S : BlockedBy(i) \cap S # {}
        PROVE  FALSE
    <3> DEFINE A == {inv[i].actor : i \in S}
    <3>1. \A i \in S : \E j \in S : j \in BlockedBy(i)
      BY <2>1, Zenon
    <3>2. \A i \in S : ~StoreFree => i # mutex
      BY <1>1, <2>1, MutexHolder, Zenon
    <3>3. ASSUME NEW i \in S
          PROVE  \E j \in S : /\ inv[i].actor \in Actors /\ inv[j].actor \in Actors
                              /\ \/ /\ inv[i].pc = "enter" /\ inv[j].actor = inv[i].actor
                                    /\ inv[j].pc \in {"running", "calling"}
                                 \/ /\ inv[i].pc = "calling"
                                    /\ <<inv[i].actor, inv[j].actor>> \in Calls
      <4>1. PICK j \in S : j \in BlockedBy(i)
        BY <3>1, Zenon
      <4>2. inv[j].actor \in Actors
        BY <1>1, <3>1, Blockers, Zenon
      <4> QED
        BY <1>1, <3>2, <4>1, <4>2, Blockers, Zenon
    <3>4. A \in SUBSET Actors /\ A # {}
      BY <2>1, <3>3, Zenon
    <3>5. PICK a \in A : \A b \in A : <<a, b>> \notin Calls
      BY <3>4, Zenon DEF CallsEnd
    <3>6. PICK i \in S : inv[i].actor = a
      BY <3>5, Zenon
    <3>7. PICK l \in S : inv[l].actor = a /\ inv[l].pc = "calling"
      BY <3>3, <3>5, <3>6, Zenon
    <3> QED
      BY <3>3, <3>5, <3>7, Zenon
  <2>2. \A i \in Invocations : \A j \in BlockedBy(i) : ~Ended(j)
    BY <1>1, Blockers, Zenon
  <2> QED
    BY <2>1, <2>2, Zenon DEF NoCircularWait
<1> QED
  BY <1>1, KVInvariant, PTL

=============================================================================
