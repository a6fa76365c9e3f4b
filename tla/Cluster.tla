------------------------------- MODULE Cluster -------------------------------
(***************************************************************************)
(* Environments (virtual/environment.go) that share the registry: their    *)
(* heartbeats, their activation caches, and the path of an invocation from *)
(* InvokeActorStream on the caller's environment to the actor in the       *)
(* memory of the environment that runs it.                                 *)
(*                                                                         *)
(* An actor is the counter of the README: every invocation increments it   *)
(* and returns the new value; a fresh instance starts at 0.  Inside one    *)
(* environment activations.invoke is one step here; module Activations     *)
(* takes it apart.                                                         *)
(***************************************************************************)
EXTENDS Registry

CONSTANTS
    Clients,          \* callers, each with one invocation outstanding
    Home,             \* client -> the environments it calls through
    Drift,            \* how much a stamp asked for twice in one transaction may
                      \* grow: 0 in FoundationDB, positive in localKV
    Faults,           \* which of "crash", "lose" (a heartbeat's answer),
                      \* "collect" (an idle actor), "expire" (a cache entry)
                      \* and "fail" (an invocation) may happen
    MaxFaults,        \* bound: faults in one behaviour
    MaxInvocations    \* bound: invocations started, all clients together

ASSUME ClusterAssumption ==
    /\ Home \in [Clients -> SUBSET Servers]
    /\ Drift \in {0, 1}
    /\ Faults \subseteq {"crash", "lose", "collect", "expire", "fail"}
    /\ MaxFaults \in Nat /\ MaxInvocations \in Nat

VARIABLES
    env,              \* server -> heartbeatState of its environment
    answer,           \* server -> HeartbeatResult under way to it
    batch,            \* server -> stamp read by versionStampBatcher's call, or 0
    cache,            \* server -> activationCache, by actor ID
    mem,              \* server -> actors in memory: generation and count
    inv,              \* client -> its invocation
    begun,            \* number of invocations begun
    faults,           \* number of faults so far
    lastSeen,         \* history: actor key -> the last two values returned
    newest            \* history: actor key -> latest epoch that has answered

envVars == <<env, answer, batch, cache, mem>>
clientVars == <<inv, begun, lastSeen, newest>>
allVars == <<vars, envVars, clientVars, faults>>

-----------------------------------------------------------------------------
NoResult == [vs |-> 0, version |-> 0]
NoInstance == [gen |-> 0, count |-> 0]
NoReference ==
    [key |-> <<NoServer, NoServer>>, server |-> NoServer, version |-> 0, gen |-> 0, epoch |-> 0]

\* One invocation: the environment it went to, the actor, the stamp it was
\* given, the reference it uses, and (history) the latest epoch that had
\* answered for the actor when it began and whether a GetVersionStamp call was
\* outstanding at that moment.
Idle ==
    [pc |-> "idle", via |-> NoServer, key |-> <<NoServer, NoServer>>, vs |-> 0,
     ref |-> NoReference, floor |-> 0, joined |-> FALSE]

\* The activation cache's key: the module is not part of it.
CacheKey(k) == k[1]

Fault(f) == f \in Faults /\ faults < MaxFaults /\ faults' = faults + 1

Return(c) == inv' = [inv EXCEPT ![c] = Idle]

\* numActivatedActors
NumActivated(s) == Cardinality({k \in ActorKeys : mem[s][k].gen > 0})

-----------------------------------------------------------------------------
InitCluster ==
    /\ clock = 1
    /\ modules = [m \in Modules |-> "go"]
    /\ servers = [s \in Servers |-> NoServerState]
    /\ actors = [k \in ActorKeys |-> NoActorState]
    /\ taken = [k \in ActorKeys |-> [s \in Servers |-> 0]]
    /\ env = [s \in Servers |-> NoResult]
    /\ answer = [s \in Servers |-> NoResult]
    /\ batch = [s \in Servers |-> 0]
    /\ cache = [s \in Servers |-> [a \in Actors |-> NoReference]]
    /\ mem = [s \in Servers |-> [k \in ActorKeys |-> NoInstance]]
    /\ inv = [c \in Clients |-> Idle]
    /\ begun = 0
    /\ faults = 0
    /\ lastSeen = [k \in ActorKeys |-> [before |-> 0, now |-> 0]]
    /\ newest = [k \in ActorKeys |-> 0]

\* An environment that is up and has installed at least one heartbeat.
Up(s) == env[s].version > 0

\* A variant: the environment trusts the time at which the answer was sent.
SendHeartbeatLate(s) ==
    /\ answer[s] = NoResult
    /\ \E vs \in ReadVersions :
        /\ Heartbeat(s, NumActivated(s), vs)
        /\ answer' = [answer EXCEPT ![s] = HeartbeatResult(s, vs, CommitVersion)]
    /\ UNCHANGED <<faults, env, batch, cache, mem, clientVars>>

\* heartbeat(): the registry commits it; the answer travels back.  It is also
\* the first thing NewEnvironment does.
SendHeartbeat(s) ==
    /\ answer[s] = NoResult
    /\ \E vs \in ReadVersions, d \in 0..Drift :
        /\ Heartbeat(s, NumActivated(s), vs)
        /\ answer' = [answer EXCEPT ![s] = HeartbeatResult(s, vs, vs + d)]
    /\ UNCHANGED <<faults, env, batch, cache, mem, clientVars>>

\* The result is installed in heartbeatState.
InstallHeartbeat(s) ==
    /\ answer[s] # NoResult
    /\ env' = [env EXCEPT ![s] = answer[s]]
    /\ answer' = [answer EXCEPT ![s] = NoResult]
    /\ UNCHANGED <<faults, vars, batch, cache, mem, clientVars>>

\* The call times out after the registry committed it.
LoseHeartbeat(s) ==
    /\ Fault("lose")
    /\ answer[s] # NoResult
    /\ answer' = [answer EXCEPT ![s] = NoResult]
    /\ UNCHANGED <<vars, env, batch, cache, mem, clientVars>>

\* What becomes of an invocation when the process of s dies: one that s runs
\* is gone, and so is one whose caller is on s, unless its request has left s.
AfterCrash(s, i) ==
    IF i.pc = "admitted" /\ i.ref.server = s THEN Idle
    ELSE IF i.via # s THEN i
    ELSE IF i.pc \in {"deliver", "admitted"} THEN [i EXCEPT !.via = NoServer]
    ELSE Idle

\* The process dies; its memory, its caches and its callers die with it.
\* SendHeartbeat starts it again under the same server ID.
Crash(s) ==
    /\ Fault("crash")
    /\ Up(s)
    /\ env' = [env EXCEPT ![s] = NoResult]
    /\ answer' = [answer EXCEPT ![s] = NoResult]
    /\ batch' = [batch EXCEPT ![s] = 0]
    /\ cache' = [cache EXCEPT ![s] = [a \in Actors |-> NoReference]]
    /\ mem' = [mem EXCEPT ![s] = [k \in ActorKeys |-> NoInstance]]
    /\ inv' = [c \in Clients |-> AfterCrash(s, inv[c])]
    /\ UNCHANGED <<vars, begun, lastSeen, newest>>

\* The actor has been idle for GCActorsAfterDurationWithNoInvocations.
CollectActor(s, k) ==
    /\ Fault("collect")
    /\ mem[s][k] # NoInstance
    /\ mem' = [mem EXCEPT ![s][k] = NoInstance]
    /\ UNCHANGED <<vars, env, answer, batch, cache, clientVars>>

\* ActivationCacheTTL passes, or ristretto drops the entry.
ExpireCache(s, a) ==
    /\ Fault("expire")
    /\ cache[s][a] # NoReference
    /\ cache' = [cache EXCEPT ![s][a] = NoReference]
    /\ UNCHANGED <<vars, env, answer, batch, mem, clientVars>>

-----------------------------------------------------------------------------
\* InvokeActor(Stream) is called on environment s and asks for a versionstamp.
BeginInvocation(c, s, k) ==
    /\ inv[c].pc = "idle"
    /\ begun < MaxInvocations
    /\ begun' = begun + 1
    /\ Up(s)
    /\ inv' = [inv EXCEPT ![c] = [pc |-> "stamp", via |-> s, key |-> k, vs |-> 0,
                                  ref |-> NoReference,
                                  floor |-> newest[k], joined |-> batch[s] # 0]]
    /\ UNCHANGED <<faults, vars, envVars, lastSeen, newest>>

Stamping(s) == {c \in Clients : inv[c].pc = "stamp" /\ inv[c].via = s}

\* GetVersionStamp: one call of the process's singleflight.Group reads a stamp.
ReadStamp(s) ==
    /\ batch[s] = 0
    /\ Stamping(s) # {}
    /\ batch' = [batch EXCEPT ![s] = clock]
    /\ UNCHANGED <<faults, vars, env, answer, cache, mem, clientVars>>

\* Everyone who has called GetVersionStamp by the time it returns shares it.
ShareStamp(s) ==
    /\ batch[s] # 0
    /\ inv' = [c \in Clients |->
                 IF c \in Stamping(s)
                 THEN [inv[c] EXCEPT !.pc = "lookup", !.vs = batch[s]] ELSE inv[c]]
    /\ batch' = [batch EXCEPT ![s] = 0]
    /\ UNCHANGED <<faults, vars, env, answer, cache, mem, begun, lastSeen, newest>>

\* A variant: what the cache returns is used without a look at "ok".
CacheHitUnchecked(c) ==
    /\ inv[c].pc = "lookup"
    /\ inv' = [inv EXCEPT ![c].pc = "deliver",
                          ![c].ref = cache[inv[c].via][CacheKey(inv[c].key)]]
    /\ UNCHANGED <<faults, vars, envVars, begun, lastSeen, newest>>

CacheHit(c) ==
    LET ref == cache[inv[c].via][CacheKey(inv[c].key)] IN
    /\ inv[c].pc = "lookup"
    /\ ref.server # NoServer
    /\ inv' = [inv EXCEPT ![c].pc = "deliver", ![c].ref = ref]
    /\ UNCHANGED <<faults, vars, envVars, begun, lastSeen, newest>>

\* EnsureActivation, and later the cache, which may by then hold an entry
\* that another invocation has put there.
CacheMiss(c) ==
    LET k == inv[c].key IN
    /\ inv[c].pc = "lookup"
    /\ cache[inv[c].via][CacheKey(k)].server = NoServer
    /\ \E ref \in References(k) :
        /\ EnsureActivation(k, ref)
        /\ inv' = [inv EXCEPT ![c].pc = "fill", ![c].ref = ref]
    /\ UNCHANGED <<faults, envVars, begun, lastSeen, newest>>

FillCache(c) ==
    /\ inv[c].pc = "fill"
    /\ cache' = [cache EXCEPT ![inv[c].via][CacheKey(inv[c].key)] = inv[c].ref]
    /\ inv' = [inv EXCEPT ![c].pc = "deliver"]
    /\ UNCHANGED <<faults, vars, env, answer, batch, mem, begun, lastSeen, newest>>

\* A variant: the lease is taken to last one version longer.
AdmitsOneLater(s, vs, ref) ==
    Up(s) /\ env[s].vs + TTL + 1 >= vs /\ env[s].version = ref.version

\* A variant: the stamp is not looked at.
AdmitsAnyStamp(s, vs, ref) == Up(s) /\ env[s].version = ref.version

\* The checks of InvokeActorDirectStream on the environment s that is asked.
Admits(s, vs, ref) ==
    /\ Up(s)
    /\ env[s].vs + TTL >= vs
    /\ env[s].version = ref.version

Admit(c) ==
    /\ inv[c].pc = "deliver"
    /\ Admits(inv[c].ref.server, inv[c].vs, inv[c].ref)
    /\ inv' = [inv EXCEPT ![c].pc = "admitted"]
    /\ UNCHANGED <<faults, vars, envVars, begun, lastSeen, newest>>

\* No live server, a check that fails, a request lost on its way.
Fail(c) ==
    /\ Fault("fail")
    /\ inv[c].pc \in {"lookup", "deliver"}
    /\ Return(c)
    /\ UNCHANGED <<vars, envVars, begun, lastSeen, newest>>

\* The instance activations.invoke runs the request on: the one in memory
\* unless there is none or its generation is too low.
InstanceFor(s, ref) ==
    IF mem[s][ref.key].gen >= ref.gen THEN mem[s][ref.key]
    ELSE [gen |-> ref.gen, count |-> 0]

\* activations.invoke, and the answer, which does not reach a caller that is
\* gone or has given up.
Execute(c) ==
    LET ref == inv[c].ref
        s == ref.server
        result == InstanceFor(s, ref).count + 1 IN
    /\ inv[c].pc = "admitted"
    /\ mem' = [mem EXCEPT ![s][ref.key] = [InstanceFor(s, ref) EXCEPT !.count = result]]
    /\ \/ /\ inv[c].via # NoServer
          /\ lastSeen' = [lastSeen EXCEPT ![inv[c].key] = [before |-> @.now, now |-> result]]
          /\ newest' = [newest EXCEPT ![inv[c].key] = IF ref.epoch > @ THEN ref.epoch ELSE @]
          /\ UNCHANGED faults
       \/ /\ Fault("fail") \/ (inv[c].via = NoServer /\ UNCHANGED faults)
          /\ UNCHANGED <<lastSeen, newest>>
    /\ Return(c)
    /\ UNCHANGED <<vars, env, answer, batch, cache, begun>>

-----------------------------------------------------------------------------
RegistryStep ==
    /\ \/ Tick
       \/ \E k \in ActorKeys : IncGeneration(k)
    /\ UNCHANGED <<envVars, clientVars, faults>>

EnvStep(s) ==
    \/ SendHeartbeat(s) \/ InstallHeartbeat(s) \/ LoseHeartbeat(s)
    \/ Crash(s) \/ ReadStamp(s) \/ ShareStamp(s)
    \/ \E k \in ActorKeys : CollectActor(s, k)
    \/ \E a \in Actors : ExpireCache(s, a)

ClientStep(c) ==
    \/ \E s \in Home[c], k \in ActorKeys : BeginInvocation(c, s, k)
    \/ CacheHit(c) \/ CacheMiss(c) \/ FillCache(c) \/ Admit(c) \/ Fail(c) \/ Execute(c)

ClusterNext ==
    \/ RegistryStep
    \/ \E s \in Servers : EnvStep(s)
    \/ \E c \in Clients : ClientStep(c)

ClusterSpec == InitCluster /\ [][ClusterNext]_allVars

-----------------------------------------------------------------------------
InvocationState ==
    [pc : {"idle", "stamp", "lookup", "fill", "deliver", "admitted"},
     via : Servers \cup {NoServer}, key : ActorKeys \cup {<<NoServer, NoServer>>},
     vs : Nat, ref : Reference \cup {NoReference}, floor : Nat, joined : BOOLEAN]

\* The state of the environments and of the callers has its Go types, and a
\* request that is sent carries a stamp and an address.
ClusterTypeOK ==
    /\ TypeOK
    /\ env \in [Servers -> [vs : Nat, version : Nat]]
    /\ answer \in [Servers -> [vs : Nat, version : Nat]]
    /\ batch \in [Servers -> Nat]
    /\ cache \in [Servers -> [Actors -> Reference \cup {NoReference}]]
    /\ mem \in [Servers -> [ActorKeys -> [gen : Nat, count : Nat]]]
    /\ inv \in [Clients -> InvocationState]
    /\ \A c \in Clients : inv[c].pc \in {"fill", "deliver", "admitted"} =>
            inv[c].vs > 0 /\ inv[c].ref.server # NoServer
    /\ begun \in Nat /\ faults \in Nat
    /\ lastSeen \in [ActorKeys -> [before : Nat, now : Nat]]
    /\ newest \in [ActorKeys -> Nat]

\* What an environment believes of its own lease (environment.go:550) never
\* runs ahead of the registry: under the version the registry has for it, it
\* has not heartbeated later than the registry knows.
LeaseTrailsRegistry ==
    \A s \in Servers : \A r \in {env[s], answer[s]} :
        /\ r.version <= servers[s].version
        /\ r.version = servers[s].version => r.vs <= servers[s].last

\* Every reference to actor k somebody could still use.
ReferencesTo(k) ==
    {r \in {cache[s][a] : s \in Servers, a \in Actors} \cup {inv[c].ref : c \in Clients} :
        r.key = k /\ r.server # NoServer}

\* Of all the references to an actor that are cached or in use, those that an
\* environment would serve if the invocation took its stamp now
\* (environment.go:458 and 467) lead to one and the same environment: the
\* single live activation of README.md:45.
SingleServingEnvironment ==
    \A k \in ActorKeys : \A r1, r2 \in ReferencesTo(k) :
        Admits(r1.server, clock, r1) /\ Admits(r2.server, clock, r2)
            => r1.server = r2.server

\* The activation that admits an invocation is no older than any that had
\* answered when it began.
ServedByNoOldOwner(c) == inv[c].pc = "admitted" => inv[c].ref.epoch >= inv[c].floor

\* Once an invocation served by an activation has been answered, an
\* invocation that begins later, and reads a stamp of its own, is never admitted
\* by an environment that had the actor before: the checks of
\* environment.go:458 and 467 on the stamp and the server version are there for
\* this.
FreshStampFindsTheOwner == \A c \in Clients : ~inv[c].joined => ServedByNoOldOwner(c)

\* The same for every invocation: kv_registry.go:384 says of the stamps that
\* concurrent callers share "This has the same effect as an extremely short TTL
\* cache, but with none of the correctness issues."
OldOwnerRejects == \A c \in Clients : ServedByNoOldOwner(c)

\* README.md:11: a caller that increments the counter actor in a loop sees the
\* previous value plus one, or the first value of a fresh instance (an answer
\* that is lost may leave a gap).
CounterStartsAgainOrGrows ==
    \A k \in ActorKeys : lastSeen[k].now > 1 => lastSeen[k].now > lastSeen[k].before

=============================================================================
