------------------------------- MODULE ActorKV -------------------------------
(***************************************************************************)
(* The transactional storage of actors: the lazy transaction around every  *)
(* invocation (host_capabilities.go), the fencing check that opens it      *)
(* (kvRegistry.BeginTransaction) and the two stores underneath.            *)
(*                                                                         *)
(* FoundationDB is optimistic: a transaction reads a snapshot, buffers its *)
(* writes and fails at commit when a key it read has been written since.   *)
(* localKV holds one mutex from the beginning of a transaction to its end, *)
(* writes in place and keeps a clone to go back to.                        *)
(*                                                                         *)
(* Every invocation runs an operation that reads keys, adds one to all of  *)
(* them or to none, and may invoke another actor meanwhile.  Leases are    *)
(* left to module Registry: here an actor may be moved at any time to      *)
(* another server, and a server's version may be bumped at any time.       *)
(***************************************************************************)
EXTENDS Naturals, FiniteSets

CONSTANTS
    Invocations,      \* bound: each identifies one call of activatedActor.invoke
    Servers,          \* server IDs
    Actors,           \* actors of one module
    Keys,             \* keys of an actor's storage
    Nobody,           \* no invocation
    ActorKey,         \* the registry's own key for an actor, next to Keys
    Backends,         \* stores: "fdb", "local"
    Calls,            \* <<a, b>>: the operation of a may invoke b
    OpenTrCalls,      \* stores on which it may do so after a KV operation
    MaxVersion        \* bound: ServerVersions

ASSUME ActorKVAssumption ==
    /\ IsFiniteSet(Invocations) /\ Nobody \notin Invocations
    /\ ActorKey \notin Keys
    /\ Backends \subseteq {"fdb", "local"} /\ OpenTrCalls \subseteq Backends
    /\ Calls \subseteq Actors \X Actors
    /\ MaxVersion \in Nat \ {0}

VARIABLES
    backend,          \* which store this registry runs on
    store,            \* actor -> key -> value
    mutex,            \* localKV: the invocation whose transaction is open
    clone,            \* localKV.trClone: what Cancel restores
    activation,       \* actor -> <<serverID, serverVersion>> in the registry
    version,          \* server -> its ServerVersion in the registry
    serverState,      \* server -> activations.serverState.serverVersion
    inv               \* invocation -> how far it is

vars == <<backend, store, mutex, clone, activation, version, serverState, inv>>
registryVars == <<activation, version, serverState>>
storeVars == <<store, mutex, clone>>

-----------------------------------------------------------------------------
Zero == [k \in Keys |-> 0]

Token == Servers \X (1..MaxVersion)

\* The lazy transaction: tr is "none" until the first KV operation, got holds
\* what Get returned for the keys in read, written the keys that were Put, and
\* dirty what others have committed since the transaction began.
InvState ==
    [pc : {"new", "stamp", "enter", "running", "calling", "ok", "failed", "unknown"},
     actor : Actors \cup {Nobody}, server : Servers \cup {Nobody},
     callee : Invocations \cup {Nobody}, tr : {"none", "open"},
     token : Nat, snap : [Keys -> Nat], got : [Keys -> Nat],
     read : SUBSET Keys, written : SUBSET Keys, dirty : SUBSET (Keys \cup {ActorKey})]

NewInv ==
    [pc |-> "new", actor |-> Nobody, server |-> Nobody, callee |-> Nobody, tr |-> "none",
     token |-> 0, snap |-> Zero, got |-> Zero, read |-> {}, written |-> {}, dirty |-> {}]

Ended(i) == inv[i].pc \in {"ok", "failed", "unknown"}

\* An invocation that is over; of the rest only the properties speak.
End(i, answer) ==
    [NewInv EXCEPT !.pc = answer, !.actor = inv[i].actor, !.written = inv[i].written]

\* Transact and BeginTransaction of localKV wait for its mutex.
StoreFree == backend = "fdb" \/ mutex = Nobody

\* The mutex of an activatedActor is held while its operation runs.
ActorFree(a, s) ==
    \A j \in Invocations :
        inv[j].pc \in {"running", "calling"} => inv[j].actor # a \/ inv[j].server # s

\* What other open transactions see of a commit that wrote keys of actor a.
Dirtied(a, keys) ==
    [j \in Invocations |->
        IF inv[j].tr = "open" /\ inv[j].actor = a
        THEN [inv[j] EXCEPT !.dirty = @ \cup keys] ELSE inv[j]]

-----------------------------------------------------------------------------
Init ==
    /\ backend \in Backends
    /\ store = [a \in Actors |-> Zero]
    /\ mutex = Nobody
    /\ clone = store
    /\ activation \in [Actors -> Servers \X {1}]
    /\ version = [s \in Servers |-> 1]
    /\ serverState = [s \in Servers |-> 1]
    /\ inv = [i \in Invocations |-> NewInv]

\* A variant: the new activation is stored without a version.
ReactivateNoVersion(a, s) ==
    /\ StoreFree
    /\ s # activation[a][1]
    /\ activation' = [activation EXCEPT ![a] = <<s, 0>>]
    /\ inv' = Dirtied(a, {ActorKey})
    /\ UNCHANGED <<backend, storeVars, version, serverState>>

\* EnsureActivation finds the server of the actor dead and picks another one.
Reactivate(a, s) ==
    /\ StoreFree
    /\ s # activation[a][1]
    /\ activation' = [activation EXCEPT ![a] = <<s, version[s]>>]
    /\ inv' = Dirtied(a, {ActorKey})
    /\ UNCHANGED <<backend, storeVars, version, serverState>>

\* The registry's half of a heartbeat after an expiry.
BumpVersion(s) ==
    /\ StoreFree
    /\ version[s] < MaxVersion
    /\ version' = [version EXCEPT ![s] = @ + 1]
    /\ UNCHANGED <<backend, storeVars, activation, serverState, inv>>

\* The environment's half: setServerState with the answer.
SetServerState(s) ==
    /\ serverState[s] # version[s]
    /\ serverState' = [serverState EXCEPT ![s] = version[s]]
    /\ UNCHANGED <<backend, storeVars, activation, version, inv>>

-----------------------------------------------------------------------------
\* A caller outside of the system invokes an actor.
Invoke(i, a) ==
    /\ inv[i].pc = "new"
    /\ inv' = [inv EXCEPT ![i] = [NewInv EXCEPT !.pc = "stamp", !.actor = a]]
    /\ UNCHANGED <<backend, storeVars, registryVars>>

\* GetVersionStamp and EnsureActivation on behalf of the caller: transactions
\* of their own, which lead to the server of the activation.
Route(i) ==
    /\ inv[i].pc = "stamp"
    /\ StoreFree
    /\ inv' = [inv EXCEPT ![i].pc = "enter", ![i].server = activation[inv[i].actor][1]]
    /\ UNCHANGED <<backend, storeVars, registryVars>>

\* activatedActor.invoke gets the actor's mutex and calls hostCapabilities.Transact.
Enter(i) ==
    /\ inv[i].pc = "enter"
    /\ ActorFree(inv[i].actor, inv[i].server)
    /\ inv' = [inv EXCEPT ![i].pc = "running"]
    /\ UNCHANGED <<backend, storeVars, registryVars>>

\* The fencing check: the activation the transaction reads is the token.
Fenced(i) == activation[inv[i].actor] = <<inv[i].server, serverState[inv[i].server]>>

\* A variant: a transaction that is refused is not canceled.
BeginRefusedStillOpen(i) ==
    /\ mutex' = IF backend = "local" THEN i ELSE mutex
    /\ clone' = IF backend = "local" THEN store ELSE clone
    /\ inv' = [inv EXCEPT ![i] = End(i, "failed")]
    /\ UNCHANGED <<backend, store, registryVars>>

\* BeginTransaction returns an error and cancels what it began; the Once keeps
\* the error, so that neither the operation nor Commit can succeed any more.
BeginRefused(i) ==
    /\ inv' = [inv EXCEPT ![i] = End(i, "failed")]
    /\ UNCHANGED <<backend, storeVars, registryVars>>

\* The first Get opens the transaction: maybeInitTr, then kvTransaction.Get.
BeginTransaction(i, k) ==
    LET current == store[inv[i].actor] IN
    /\ inv[i].pc = "running" /\ inv[i].tr = "none"
    /\ StoreFree
    /\ \/ ~Fenced(i) /\ BeginRefused(i)
       \/ /\ Fenced(i)
          /\ mutex' = IF backend = "local" THEN i ELSE mutex
          /\ clone' = IF backend = "local" THEN store ELSE clone
          /\ inv' = [inv EXCEPT ![i].tr = "open",
                                ![i].token = serverState[inv[i].server],
                                ![i].snap = current,
                                ![i].read = {k},
                                ![i].got[k] = current[k]]
          /\ UNCHANGED <<backend, store, registryVars>>

\* kvTransaction.Get: localKV reads in place, FoundationDB the snapshot.
Get(i, k) ==
    /\ inv[i].pc = "running" /\ inv[i].tr = "open"
    /\ k \notin inv[i].read
    /\ inv' = [inv EXCEPT ![i].read = @ \cup {k},
                          ![i].got[k] = IF backend = "local" THEN store[inv[i].actor][k]
                                        ELSE inv[i].snap[k]]
    /\ UNCHANGED <<backend, storeVars, registryVars>>

\* kvTransaction.Put: localKV writes in place, FoundationDB buffers.
Put(i, k) ==
    /\ inv[i].pc = "running" /\ inv[i].tr = "open"
    /\ k \in inv[i].read \ inv[i].written
    /\ inv' = [inv EXCEPT ![i].written = @ \cup {k}]
    /\ store' = IF backend = "local"
                THEN [store EXCEPT ![inv[i].actor][k] = inv[i].got[k] + 1] ELSE store
    /\ UNCHANGED <<backend, mutex, clone, registryVars>>

\* The operation invokes another actor and waits for the answer.
Call(i, j, a) ==
    /\ inv[i].pc = "running" /\ inv[i].callee = Nobody
    /\ <<inv[i].actor, a>> \in Calls
    /\ inv[i].tr = "open" => backend \in OpenTrCalls
    /\ inv[j].pc = "new"
    /\ inv' = [inv EXCEPT ![i].pc = "calling", ![i].callee = j,
                          ![j] = [NewInv EXCEPT !.pc = "stamp", !.actor = a]]
    /\ UNCHANGED <<backend, storeVars, registryVars>>

CallReturns(i) ==
    /\ inv[i].pc = "calling"
    /\ Ended(inv[i].callee)
    /\ inv' = [inv EXCEPT ![i].pc = "running"]
    /\ UNCHANGED <<backend, storeVars, registryVars>>

-----------------------------------------------------------------------------
\* An operation returns without an error when it has written every key or none.
MayReturn(i) == inv[i].pc = "running" /\ inv[i].written \in {{}, Keys}

\* Commit without a transaction, or of one that only read.
CommitNothing(i) ==
    /\ MayReturn(i)
    /\ inv[i].written = {}
    /\ inv' = [inv EXCEPT ![i] = End(i, "ok")]
    /\ mutex' = IF mutex = i THEN Nobody ELSE mutex
    /\ UNCHANGED <<backend, store, clone, registryVars>>

\* A variant: Commit restores the clone, as Cancel does.
CommitLocalRestores(i) ==
    /\ backend = "local"
    /\ MayReturn(i)
    /\ inv[i].written # {}
    /\ mutex' = Nobody
    /\ inv' = [inv EXCEPT ![i] = End(i, "ok")]
    /\ store' = clone
    /\ UNCHANGED <<backend, clone, registryVars>>

\* localKV.Commit: what was written in place stays.
CommitLocal(i) ==
    /\ backend = "local"
    /\ MayReturn(i)
    /\ inv[i].written # {}
    /\ mutex' = Nobody
    /\ inv' = [inv EXCEPT ![i] = End(i, "ok")]
    /\ clone' = store
    /\ UNCHANGED <<backend, store, registryVars>>

\* A variant: the actor's record is read without a conflict range, as a
\* snapshot read would.
ConflictsInKeys(i) == inv[i].dirty \cap inv[i].read # {}

\* FoundationDB: something the transaction read, the actor's record included,
\* has been written since its snapshot.
Conflicts(i) == inv[i].dirty \cap (inv[i].read \cup {ActorKey}) # {}

\* fdbTransaction.Commit applies the buffered writes; the answer may be lost
\* (commit_unknown_result), which the caller sees as an error.
CommitFDB(i, answer) ==
    LET a == inv[i].actor IN
    /\ backend = "fdb"
    /\ MayReturn(i)
    /\ inv[i].written # {}
    /\ ~Conflicts(i)
    /\ store' = [store EXCEPT ![a] = [k \in Keys |-> inv[i].got[k] + 1]]
    /\ inv' = [Dirtied(a, Keys) EXCEPT ![i] = End(i, answer)]
    /\ UNCHANGED <<backend, mutex, clone, registryVars>>

CommitRefused(i) ==
    /\ backend = "fdb"
    /\ MayReturn(i)
    /\ inv[i].written # {}
    /\ Conflicts(i)
    /\ inv' = [inv EXCEPT ![i] = End(i, "failed")]
    /\ UNCHANGED <<backend, storeVars, registryVars>>

\* A variant: localKV.Cancel forgets the clone without going back to it.
CancelKeepsWrites(i) ==
    /\ inv[i].pc = "running"
    /\ inv' = [inv EXCEPT ![i] = End(i, "failed")]
    /\ mutex' = IF mutex = i THEN Nobody ELSE mutex
    /\ UNCHANGED <<backend, store, clone, registryVars>>

\* The operation returns an error: Cancel, which for localKV restores the clone.
Cancel(i) ==
    /\ inv[i].pc = "running"
    /\ inv' = [inv EXCEPT ![i] = End(i, "failed")]
    /\ mutex' = IF mutex = i THEN Nobody ELSE mutex
    /\ store' = IF mutex = i THEN clone ELSE store
    /\ UNCHANGED <<backend, clone, registryVars>>

-----------------------------------------------------------------------------
\* Steps that wait for a mutex, and the others.
Waits(i) == Route(i) \/ Enter(i) \/ \E k \in Keys : BeginTransaction(i, k)

Returns(i) ==
    \/ CommitNothing(i) \/ CommitLocal(i) \/ CommitRefused(i) \/ Cancel(i)
    \/ \E answer \in {"ok", "unknown"} : CommitFDB(i, answer)

Next ==
    \/ \E a \in Actors, s \in Servers : Reactivate(a, s)
    \/ \E s \in Servers : BumpVersion(s) \/ SetServerState(s)
    \/ \E i \in Invocations :
        \/ \E a \in Actors : Invoke(i, a)
        \/ Waits(i) \/ CallReturns(i) \/ Returns(i)
        \/ \E k \in Keys : Get(i, k) \/ Put(i, k)
        \/ \E j \in Invocations, a \in Actors : Call(i, j, a)

Spec == Init /\ [][Next]_vars

-----------------------------------------------------------------------------
\* The variables have the types of the Go structures they stand for.
KVTypeOK ==
    /\ backend \in Backends
    /\ store \in [Actors -> [Keys -> Nat]] /\ clone \in [Actors -> [Keys -> Nat]]
    /\ mutex \in Invocations \cup {Nobody}
    /\ activation \in [Actors -> Token]
    /\ version \in [Servers -> 1..MaxVersion]
    /\ serverState \in [Servers -> 1..MaxVersion]
    /\ inv \in [Invocations -> InvState]

\* What a transaction that begins now would find: the writes localKV has made
\* in place for an open transaction do not count yet.
Committed == IF mutex = Nobody THEN store ELSE clone

Storage == INSTANCE ActorStorage WITH store <- Committed

\* On either store, invocations change an actor's storage whole, one after the
\* other, each starting from what the one before it left
\* (kv_registry.go:431: "actor KV storage behaves in a linearizable manner").
StorageIsAtomic == Storage!Spec

\* Storage only changes by the commit of an invocation at the server and version
\* of the actor's activation at that moment, the fencing token of
\* kv_registry.go:431, however long ago the token was checked.
OnlyTheOwnerCommits ==
    [][\A a \in Actors :
        Committed'[a] # Committed[a] =>
            \E i \in Invocations :
                /\ ~Ended(i) /\ Ended(i)' /\ inv[i].actor = a
                /\ activation[a] = <<inv[i].server, inv[i].token>>]_vars

Increments(a, answer) ==
    Cardinality({i \in Invocations :
        inv[i].actor = a /\ inv[i].pc = answer /\ inv[i].written = Keys})

\* Every increment that was acknowledged is in the store
\* (hostCapabilities.Transact, host_capabilities.go:52): none is overwritten by
\* an invocation that had read the store before it.
AcknowledgedIsStored ==
    \A a \in Actors, k \in Keys : Increments(a, "ok") <= Committed[a][k]

\* The invocations i waits for: the holder of localKV's mutex, those that hold
\* the mutex of its actor, the invocation it made itself.
BlockedBy(i) ==
    CASE inv[i].pc = "stamp" -> IF StoreFree THEN {} ELSE {mutex}
      [] inv[i].pc = "enter" ->
            {j \in Invocations : /\ inv[j].pc \in {"running", "calling"}
                                 /\ inv[j].actor = inv[i].actor
                                 /\ inv[j].server = inv[i].server}
      [] inv[i].pc = "running" ->
            IF inv[i].tr = "none" /\ ~StoreFree THEN {mutex} ELSE {}
      [] inv[i].pc = "calling" -> {inv[i].callee} \ {j \in Invocations : Ended(j)}
      [] OTHER -> {}

\* No invocations wait for one another in a circle, nor for one that is over:
\* localKV's mutex (local_kv.go:33) and the actors' (activations.go:459) are
\* always released, provided actors do not call each other in a circle nor, on
\* localKV, with a transaction open.
NoCircularWait ==
    /\ \A S \in SUBSET Invocations : S # {} => \E i \in S : BlockedBy(i) \cap S = {}
    /\ \A i \in Invocations : \A j \in BlockedBy(i) : ~Ended(j)

=============================================================================
