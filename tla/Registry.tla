------------------------------ MODULE Registry ------------------------------
(***************************************************************************)
(* The registry of virtual/registry/kv_registry.go: registered modules,    *)
(* heartbeating servers and actors with their current activation, kept in  *)
(* a transactional key-value store.                                        *)
(*                                                                         *)
(* Every registry operation is one store transaction.  A transaction reads *)
(* at a versionstamp and commits at the store's next version.  localKV     *)
(* runs transactions one at a time under a mutex, so it reads at the       *)
(* newest version (MaxLag = 0).  FoundationDB is optimistic: the read      *)
(* version may trail the commit by MaxLag versions, provided no key that   *)
(* was read has been written in between.  Operations that return an error  *)
(* leave the store as it was and are not steps of this module.             *)
(***************************************************************************)
EXTENDS Integers, FiniteSets

CONSTANTS
    Servers,          \* server IDs
    Actors,           \* actor IDs of one namespace
    Modules,          \* module IDs of that namespace
    NoServer,         \* the empty server ID of a zero activation
    TTL,              \* HeartbeatTTL, in versions
    MaxLag,           \* how far a read version may trail its commit
    MaxClock,         \* bound: versions the store hands out
    MaxGeneration,    \* bound: IncGeneration calls
    MaxLoad           \* bound: NumActivatedActors a heartbeat reports

ASSUME RegistryAssumption ==
    /\ NoServer \notin Servers
    /\ TTL \in Nat \ {0}
    /\ MaxLag \in Nat
    /\ MaxClock \in Nat
    /\ MaxGeneration \in Nat
    /\ MaxLoad \in Nat

VARIABLES
    clock,            \* the store's newest version
    modules,          \* module ID -> what getModulePartKey(.., 0) holds
    servers,          \* server ID -> serverState, version 0 when absent
    actors,           \* actor key -> registeredActor, gen 0 when absent
    taken             \* history: the version each server had when an actor
                      \* was last taken from it, 0 when it never was

vars == <<clock, modules, servers, actors, taken>>

-----------------------------------------------------------------------------
\* getActorKey: an actor is identified by its ID and its module.
ActorKeys == Actors \X Modules

ModuleOf(k) == k[2]

\* What RegisterModule stores: nothing yet, WASM bytes, or the empty bytes of
\* a module written in Go (AllowEmptyModuleBytes).
ModuleState == {"absent", "wasm", "go"}

\* serverState; wrote is the version that committed it.
ServerState == [version : Nat, last : Nat, load : Nat, wrote : Nat]

\* registeredActor with its activation (server, version); epoch counts the
\* activations of the actor and is kept for the properties only.
ActorState == [gen : Nat, server : Servers \cup {NoServer}, version : Nat,
               epoch : Nat, wrote : Nat]

\* types.ActorReference: where an actor runs, and which generation of it.
Reference == [key : ActorKeys, server : Servers, version : Nat, gen : Nat,
              epoch : Nat]

NoServerState == [version |-> 0, last |-> 0, load |-> 0, wrote |-> 0]

NoActorState ==
    [gen |-> 0, server |-> NoServer, version |-> 0, epoch |-> 0, wrote |-> 0]

-----------------------------------------------------------------------------
\* The read versions an attempt of a transaction may run at.
ReadVersions == {v \in (clock - MaxLag)..clock : v >= 1}

\* Commit of a transaction that wrote something.
CommitVersion == clock + 1
Commit == clock < MaxClock /\ clock' = CommitVersion

\* versionSince(vs, LastHeartbeatedAt) < HeartbeatTTL
Alive(s, vs) == servers[s].version > 0 /\ vs - servers[s].last < TTL

\* Nothing EnsureActivation read has been written since version vs.
ReadsCurrent(k, vs) ==
    /\ actors[k].wrote <= vs
    /\ \A s \in Servers : servers[s].wrote <= vs

\* The candidates sort.Slice may put first: the least loaded live servers.
LeastLoaded(vs) ==
    {s \in Servers :
        /\ Alive(s, vs)
        /\ \A t \in Servers : Alive(t, vs) => servers[s].load <= servers[t].load}

\* createActor: the record of an actor nobody has activated.
CreatedActor == [NoActorState EXCEPT !.gen = 1]

\* getActor, or the actor EnsureActivation creates on the fly.
RegisteredActor(k) == IF actors[k].gen = 0 THEN CreatedActor ELSE actors[k]

-----------------------------------------------------------------------------
Init ==
    /\ clock = 1
    /\ modules = [m \in Modules |-> "absent"]
    /\ servers = [s \in Servers |-> NoServerState]
    /\ actors = [k \in ActorKeys |-> NoActorState]
    /\ taken = [k \in ActorKeys |-> [s \in Servers |-> 0]]

\* Versions grow with time, not only with commits.
Tick ==
    /\ clock < MaxClock
    /\ clock' = clock + 1
    /\ UNCHANGED <<modules, servers, actors, taken>>

\* A module that exists is never written again.
RegisterModule(m, kind) ==
    /\ modules[m] = "absent"
    /\ Commit
    /\ modules' = [modules EXCEPT ![m] = kind]
    /\ UNCHANGED <<servers, actors, taken>>

CreateActor(k) ==
    /\ actors[k].gen = 0
    /\ modules[ModuleOf(k)] # "absent"
    /\ Commit
    /\ actors' = [actors EXCEPT ![k] = [CreatedActor EXCEPT !.wrote = CommitVersion]]
    /\ UNCHANGED <<modules, servers, taken>>

IncGeneration(k) ==
    /\ actors[k].gen \in 1..(MaxGeneration - 1)
    /\ Commit
    /\ actors' = [actors EXCEPT ![k] = [actors[k] EXCEPT !.gen = @ + 1, !.wrote = CommitVersion]]
    /\ UNCHANGED <<modules, servers, taken>>

\* A variant: the version is not bumped after an expiry.
VersionNeverBumped(s, vs) ==
    IF servers[s].version = 0 THEN 1 ELSE servers[s].version

\* The ServerVersion a heartbeat read at vs gives the server.
NextServerVersion(s, vs) ==
    IF servers[s].version = 0 THEN 1
    ELSE IF vs - servers[s].last >= TTL THEN servers[s].version + 1
    ELSE servers[s].version

\* The HeartbeatResult of a heartbeat that reads at vs: the stamp in it is
\* asked for again, after the one that was stored.
HeartbeatResult(s, vs, again) ==
    [vs |-> again, version |-> NextServerVersion(s, vs)]

\* A variant: the end of the lease is stored in place of its beginning.
HeartbeatStoresExpiry(s, load, vs) ==
    /\ servers[s].wrote <= vs
    /\ Commit
    /\ servers' = [servers EXCEPT
                     ![s] = [version |-> NextServerVersion(s, vs), last |-> vs + TTL,
                             load |-> load, wrote |-> CommitVersion]]
    /\ UNCHANGED <<modules, actors, taken>>

\* A variant: a new server is stored as if it had just expired.
HeartbeatBackdated(s, load, vs) ==
    /\ servers[s].wrote <= vs
    /\ Commit
    /\ servers' = [servers EXCEPT
                     ![s] = [version |-> NextServerVersion(s, vs), last |-> vs - TTL,
                             load |-> load, wrote |-> CommitVersion]]
    /\ UNCHANGED <<modules, actors, taken>>

Heartbeat(s, load, vs) ==
    /\ vs \in ReadVersions
    /\ servers[s].wrote <= vs
    /\ Commit
    /\ servers' = [servers EXCEPT
                     ![s] = [version |-> NextServerVersion(s, vs), last |-> vs,
                             load |-> load, wrote |-> CommitVersion]]
    /\ UNCHANGED <<modules, actors, taken>>

\* NewActorReference, with the version of the server that will be asked.
MakeReference(k, s, epoch) ==
    [key |-> k, server |-> s, version |-> servers[s].version,
     gen |-> RegisteredActor(k).gen, epoch |-> epoch]

\* activationExists && serverExists && timeSinceLastHeartbeat < HeartbeatTTL
ActivationAlive(ra, vs) == ra.server # NoServer /\ Alive(ra.server, vs)

\* The branch of EnsureActivation that keeps a live activation.
KeptReference(k, vs, ref) ==
    /\ ActivationAlive(RegisteredActor(k), vs)
    /\ ref = MakeReference(k, actors[k].server, actors[k].epoch)

\* A variant: the version is that of the server the actor had before.
NewActivationPrevVersion(k, vs, ref) ==
    LET ra == RegisteredActor(k)
        prev == IF ra.server = NoServer THEN NoServerState ELSE servers[ra.server] IN
    /\ ~ActivationAlive(ra, vs)
    /\ \E s \in LeastLoaded(vs) :
         /\ ref = MakeReference(k, s, ra.epoch + 1)
         /\ actors' = [actors EXCEPT
                         ![k] = [gen |-> ra.gen, server |-> s, version |-> prev.version,
                                 epoch |-> ra.epoch + 1, wrote |-> CommitVersion]]
    /\ Commit
    /\ UNCHANGED <<modules, servers, taken>>

\* The branch that activates the actor on a live server.
NewActivation(k, vs, ref) ==
    LET ra == RegisteredActor(k) IN
    /\ ~ActivationAlive(ra, vs)
    /\ \E s \in LeastLoaded(vs) :
         /\ ref = MakeReference(k, s, ra.epoch + 1)
         /\ actors' = [actors EXCEPT
                         ![k] = [gen |-> ra.gen, server |-> s,
                                 version |-> servers[s].version,
                                 epoch |-> ra.epoch + 1, wrote |-> CommitVersion]]
    /\ Commit
    /\ taken' = IF ra.server = NoServer THEN taken
                ELSE [taken EXCEPT ![k][ra.server] = servers[ra.server].version]
    /\ UNCHANGED <<modules, servers>>

\* The references EnsureActivation may return for the actor as it is now.
References(k) ==
    {MakeReference(k, s, RegisteredActor(k).epoch + e) : s \in Servers, e \in {0, 1}}

EnsureActivation(k, ref) ==
    /\ actors[k].gen > 0 \/ modules[ModuleOf(k)] # "absent"
    /\ \E vs \in ReadVersions :
        /\ ReadsCurrent(k, vs)
        /\ \/ KeptReference(k, vs, ref) /\ UNCHANGED vars
           \/ NewActivation(k, vs, ref)

\* BeginTransaction: the fencing token <serverID, serverVersion> must be the
\* actor's current activation.
MayBeginTransaction(k, s, version) ==
    /\ actors[k].gen > 0
    /\ actors[k].server = s
    /\ actors[k].version = version

-----------------------------------------------------------------------------
Next ==
    \/ Tick
    \/ \E m \in Modules, kind \in {"wasm", "go"} : RegisterModule(m, kind)
    \/ \E k \in ActorKeys : CreateActor(k) \/ IncGeneration(k)
    \/ \E s \in Servers, load \in 0..MaxLoad, vs \in ReadVersions :
            Heartbeat(s, load, vs)
    \/ \E k \in ActorKeys : \E ref \in References(k) : EnsureActivation(k, ref)

Spec == Init /\ [][Next]_vars

-----------------------------------------------------------------------------
\* The state has its Go types; a server or an actor that exists has a
\* positive version or generation.
TypeOK ==
    /\ clock \in Nat \ {0}
    /\ modules \in [Modules -> ModuleState]
    /\ servers \in [Servers -> ServerState]
    /\ actors \in [ActorKeys -> ActorState]
    /\ taken \in [ActorKeys -> [Servers -> Nat]]

\* versionSince (kv_registry.go:616) never panics: no server has heartbeated
\* at a stamp a later transaction could find in its future.
StampsDoNotGoBack ==
    \A s \in Servers : servers[s].last <= servers[s].wrote /\ servers[s].wrote <= clock

\* An activation (kv_registry.go:352) names a server the registry knows, at a
\* version that server has had.
ActivationsAreRegistered ==
    \A k \in ActorKeys :
        actors[k].server # NoServer =>
            /\ actors[k].version > 0
            /\ actors[k].version <= servers[actors[k].server].version

\* Once EnsureActivation has taken an actor from a server that missed its
\* heartbeats, that server is never again alive under the version it had:
\* the first heartbeat it gets through bumps its ServerVersion
\* (kv_registry.go:488), so what it was told before can no longer pass the
\* version checks.
TakenOverStaysDead ==
    \A k \in ActorKeys, s \in Servers :
        taken[k][s] # 0 /\ servers[s].version = taken[k][s] => ~Alive(s, clock)

\* The reference EnsureActivation returns for an activation it keeps passes
\* the fencing check of BeginTransaction.  kv_registry.go:314 argues for it when
\* the version is taken from the server's record and not from the activation.
ReferenceIsTheActivation ==
    \A k \in ActorKeys : \A ref \in References(k) :
        KeptReference(k, clock, ref) => MayBeginTransaction(k, ref.server, ref.version)

=============================================================================
