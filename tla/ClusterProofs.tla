--------------------------- MODULE ClusterProofs ---------------------------
(***************************************************************************)
(* Proofs about modules Registry and Cluster, for any servers, actors,     *)
(* callers, faults, TTL and bounds.                                        *)
(***************************************************************************)
EXTENDS Cluster, FiniteSetTheorems, TLAPS

-----------------------------------------------------------------------------
(* The registry on its own.                                                *)

\* Next without the bound on the number of actors a heartbeat reports: the
\* proofs do not need it, and environments that share the registry report as
\* many as they have in memory.
AnyNext ==
    \/ Tick
    \/ \E m \in Modules, kind \in {"wasm", "go"} : RegisterModule(m, kind)
    \/ \E k \in ActorKeys : CreateActor(k) \/ IncGeneration(k)
    \/ \E s \in Servers, load \in Nat, vs \in ReadVersions : Heartbeat(s, load, vs)
    \/ \E k \in ActorKeys : \E ref \in References(k) : EnsureActivation(k, ref)

\* The bound only takes steps away.
LEMMA NextIsAny == [Next]_vars => [AnyNext]_vars
<1>1. 0..MaxLoad \subseteq Nat
  BY RegistryAssumption
<1> QED
  BY <1>1, Zenon DEF Next, AnyNext

\* The read versions of a transaction are versions of the store.
LEMMA ReadVersionsType ==
    ASSUME TypeOK, NEW vs \in ReadVersions
    PROVE  vs \in Nat /\ vs >= 1 /\ vs <= clock
  BY RegistryAssumption DEF TypeOK, ReadVersions

\* The record EnsureActivation works on, stored or created on the fly, is a
\* registeredActor with a positive generation.
LEMMA RegisteredActorType ==
    ASSUME TypeOK, NEW k \in ActorKeys
    PROVE  /\ RegisteredActor(k) \in ActorState
           /\ RegisteredActor(k).server # NoServer => RegisteredActor(k) = actors[k]
  BY Zenon DEF TypeOK, RegisteredActor, CreatedActor, NoActorState, ActorState

\* Every registry operation of kv_registry.go leaves records of the stored
\* types behind.
LEMMA TypeStep == TypeOK /\ [AnyNext]_vars => TypeOK'
<1> SUFFICES ASSUME TypeOK, [AnyNext]_vars PROVE TypeOK'
  BY Zenon
<1>1. CASE Tick
  BY <1>1 DEF Tick, TypeOK
<1>2. ASSUME NEW m \in Modules, NEW kind \in {"wasm", "go"}, RegisterModule(m, kind)
      PROVE  TypeOK'
  BY <1>2 DEF RegisterModule, TypeOK, Commit, CommitVersion, ModuleState
<1>3. ASSUME NEW k \in ActorKeys, CreateActor(k)
      PROVE  TypeOK'
  <2>1. clock + 1 \in Nat \ {0} /\ clock' = clock + 1
    BY <1>3 DEF CreateActor, TypeOK, Commit, CommitVersion
  <2>2. [CreatedActor EXCEPT !.wrote = clock + 1] \in ActorState
    BY <2>1, Zenon DEF ActorState, CreatedActor, NoActorState
  <2> QED
    BY <1>3, <2>1, <2>2, Zenon DEF CreateActor, TypeOK, CommitVersion
<1>4. ASSUME NEW k \in ActorKeys, IncGeneration(k)
      PROVE  TypeOK'
  <2>1. clock + 1 \in Nat \ {0} /\ clock' = clock + 1
    BY <1>4 DEF IncGeneration, TypeOK, Commit, CommitVersion
  <2>2. actors[k] \in ActorState /\ actors[k].gen + 1 \in Nat /\ clock + 1 \in Nat
    BY <2>1 DEF TypeOK, ActorState
  <2>3. [actors[k] EXCEPT !.gen = @ + 1, !.wrote = clock + 1] \in ActorState
    BY <2>2, Zenon DEF ActorState
  <2> QED
    BY <1>4, <2>1, <2>3, Zenon DEF IncGeneration, TypeOK, CommitVersion
<1>5. ASSUME NEW s \in Servers, NEW load \in Nat, NEW vs \in ReadVersions,
             Heartbeat(s, load, vs)
      PROVE  TypeOK'
  <2>1. NextServerVersion(s, vs) \in Nat
    BY RegistryAssumption DEF NextServerVersion, TypeOK, ServerState
  <2>2. vs \in Nat
    BY ReadVersionsType, Zenon
  <2> QED
    BY <1>5, <2>1, <2>2 DEF Heartbeat, TypeOK, Commit, CommitVersion, ServerState
<1>6. ASSUME NEW k \in ActorKeys, NEW ref \in References(k), EnsureActivation(k, ref)
      PROVE  TypeOK'
  <2>1. CASE UNCHANGED vars
    BY <2>1, Zenon DEF TypeOK, vars
  <2>2. ASSUME NEW vs \in ReadVersions, NewActivation(k, vs, ref)
        PROVE  TypeOK'
    <3> DEFINE ra == RegisteredActor(k)
    <3>1. ra \in ActorState
      BY RegisteredActorType, Zenon
    <3>2. /\ clock' \in Nat \ {0}
          /\ modules' \in [Modules -> ModuleState]
          /\ servers' \in [Servers -> ServerState]
      BY <2>2 DEF NewActivation, Commit, CommitVersion, TypeOK
    <3>3. PICK s \in Servers :
            actors' = [actors EXCEPT
                         ![k] = [gen |-> ra.gen, server |-> s,
                                 version |-> servers[s].version,
                                 epoch |-> ra.epoch + 1, wrote |-> clock + 1]]
      BY <2>2, Zenon DEF NewActivation, LeastLoaded, CommitVersion
    <3>4. actors' \in [ActorKeys -> ActorState]
      BY <3>1, <3>3 DEF TypeOK, ActorState, ServerState
    <3>5. taken' \in [ActorKeys -> [Servers -> Nat]]
      BY <2>2, <3>1, Zenon DEF NewActivation, TypeOK, ActorState, ServerState
    <3> QED
      BY <3>2, <3>4, <3>5, Zenon DEF TypeOK
  <2> QED
    BY <1>6, <2>1, <2>2, Zenon DEF EnsureActivation
<1>7. CASE UNCHANGED vars
  BY <1>7, Zenon DEF TypeOK, vars
<1> QED
  BY <1>1, <1>2, <1>3, <1>4, <1>5, <1>6, <1>7, Zenon DEF AnyNext

\* Type correctness of the registry's state under every operation of
\* kv_registry.go.
THEOREM TypeCorrect == Spec => []TypeOK
<1>1. Init => TypeOK
  BY DEF Init, TypeOK, ModuleState, ServerState, ActorState, NoServerState, NoActorState
<1> QED
  BY <1>1, TypeStep, NextIsAny, PTL DEF Spec

-----------------------------------------------------------------------------
\* A heartbeat (kv_registry.go:488) never lowers a server's version, and a
\* server that has heartbeated has a positive one.
LEMMA NextServerVersionGrows ==
    ASSUME TypeOK, NEW s \in Servers, NEW vs \in Nat
    PROVE  /\ NextServerVersion(s, vs) \in Nat \ {0}
           /\ NextServerVersion(s, vs) >= servers[s].version
  BY RegistryAssumption DEF NextServerVersion, TypeOK, ServerState

\* The strengthening that makes both registry invariants inductive.
RegistryInv == TypeOK /\ StampsDoNotGoBack /\ ActivationsAreRegistered

\* Every registry operation preserves RegistryInv.
LEMMA RegistryInvStep == RegistryInv /\ [AnyNext]_vars => RegistryInv'
<1> SUFFICES ASSUME RegistryInv, [AnyNext]_vars PROVE RegistryInv'
  BY Zenon
<1>0. TypeOK /\ TypeOK'
  BY TypeStep, Zenon DEF RegistryInv
<1>1. CASE Tick
  BY <1>0, <1>1 DEF RegistryInv, Tick, StampsDoNotGoBack, ActivationsAreRegistered,
                    TypeOK, ServerState
<1>2. ASSUME NEW m \in Modules, NEW kind \in {"wasm", "go"}, RegisterModule(m, kind)
      PROVE  RegistryInv'
  BY <1>0, <1>2 DEF RegistryInv, RegisterModule, Commit, CommitVersion, StampsDoNotGoBack,
                    ActivationsAreRegistered, TypeOK, ServerState
<1>3. ASSUME NEW k \in ActorKeys, CreateActor(k)
      PROVE  RegistryInv'
  <2>1. StampsDoNotGoBack'
    BY <1>0, <1>3 DEF RegistryInv, CreateActor, Commit, CommitVersion, StampsDoNotGoBack,
                      TypeOK, ServerState
  <2>2. [CreatedActor EXCEPT !.wrote = CommitVersion].server = NoServer
    BY Zenon DEF CreatedActor, NoActorState
  <2>3. ActivationsAreRegistered'
    BY <1>0, <1>3, <2>2, Zenon DEF RegistryInv, CreateActor, ActivationsAreRegistered, TypeOK
  <2> QED
    BY <1>0, <2>1, <2>3, Zenon DEF RegistryInv
<1>4. ASSUME NEW k \in ActorKeys, IncGeneration(k)
      PROVE  RegistryInv'
  <2>1. StampsDoNotGoBack'
    BY <1>0, <1>4 DEF RegistryInv, IncGeneration, Commit, CommitVersion, StampsDoNotGoBack,
                      TypeOK, ServerState
  <2> DEFINE r == [actors[k] EXCEPT !.gen = @ + 1, !.wrote = CommitVersion]
  <2>2. actors[k] \in ActorState
    BY <1>0, Zenon DEF TypeOK
  <2>3. r.server = actors[k].server /\ r.version = actors[k].version
    BY <2>2, Zenon DEF ActorState
  <2>4. \A j \in ActorKeys : /\ actors'[j].server = actors[j].server
                             /\ actors'[j].version = actors[j].version
    <3> HIDE DEF r
    <3>1. actors' = [actors EXCEPT ![k] = r]
      BY <1>4, Zenon DEF IncGeneration, r
    <3> QED
      BY <1>0, <2>3, <3>1, Zenon DEF TypeOK
  <2>5. ActivationsAreRegistered'
    BY <1>4, <2>4, Zenon DEF RegistryInv, IncGeneration, ActivationsAreRegistered
  <2> QED
    BY <1>0, <2>1, <2>5, Zenon DEF RegistryInv
<1>5. ASSUME NEW s \in Servers, NEW load \in Nat, NEW vs \in ReadVersions,
             Heartbeat(s, load, vs)
      PROVE  RegistryInv'
  <2>1. vs \in Nat /\ vs <= clock /\ clock \in Nat /\ clock' = clock + 1
    BY <1>0, <1>5, ReadVersionsType, Zenon DEF Heartbeat, Commit, CommitVersion, TypeOK
  <2>2. /\ NextServerVersion(s, vs) \in Nat \ {0}
        /\ NextServerVersion(s, vs) >= servers[s].version
    BY <1>0, <2>1, NextServerVersionGrows, Zenon
  <2>3. servers' = [servers EXCEPT ![s] = [version |-> NextServerVersion(s, vs), last |-> vs,
                                          load |-> load, wrote |-> clock + 1]]
    BY <1>5, Zenon DEF Heartbeat, CommitVersion
  <2>4. StampsDoNotGoBack'
    BY <1>0, <2>1, <2>3 DEF RegistryInv, StampsDoNotGoBack, TypeOK, ServerState
  <2>5. \A t \in Servers : servers'[t].version >= servers[t].version
    BY <1>0, <2>2, <2>3 DEF TypeOK, ServerState
  <2>6. ActivationsAreRegistered'
    BY <1>0, <1>5, <2>5 DEF RegistryInv, Heartbeat, ActivationsAreRegistered, TypeOK,
                            ActorState, ServerState
  <2> QED
    BY <1>0, <2>4, <2>6, Zenon DEF RegistryInv
<1>6. ASSUME NEW k \in ActorKeys, NEW ref \in References(k), EnsureActivation(k, ref)
      PROVE  RegistryInv'
  <2>1. CASE UNCHANGED vars
    BY <1>0, <2>1, Zenon DEF RegistryInv, StampsDoNotGoBack, ActivationsAreRegistered, vars
  <2>2. ASSUME NEW vs \in ReadVersions, NewActivation(k, vs, ref)
        PROVE  RegistryInv'
    <3>1. StampsDoNotGoBack'
      BY <1>0, <2>2 DEF RegistryInv, NewActivation, Commit, CommitVersion,
                        StampsDoNotGoBack, TypeOK, ServerState
    <3>2. PICK s \in Servers :
            /\ servers[s].version > 0
            /\ actors' = [actors EXCEPT
                            ![k] = [gen |-> RegisteredActor(k).gen, server |-> s,
                                    version |-> servers[s].version,
                                    epoch |-> RegisteredActor(k).epoch + 1,
                                    wrote |-> CommitVersion]]
      BY <2>2, Zenon DEF NewActivation, LeastLoaded, Alive
    <3>3. ActivationsAreRegistered'
      BY <1>0, <2>2, <3>2 DEF RegistryInv, NewActivation, ActivationsAreRegistered,
                              TypeOK, ServerState
    <3> QED
      BY <1>0, <3>1, <3>3, Zenon DEF RegistryInv
  <2> QED
    BY <1>6, <2>1, <2>2, Zenon DEF EnsureActivation
<1>7. CASE UNCHANGED vars
  BY <1>0, <1>7, Zenon DEF RegistryInv, StampsDoNotGoBack, ActivationsAreRegistered, vars
<1> QED
  BY <1>1, <1>2, <1>3, <1>4, <1>5, <1>6, <1>7, Zenon DEF AnyNext

\* RegistryInv holds initially: nobody has heartbeated and no actor exists.
LEMMA RegistryInvInit == Init => RegistryInv
  BY DEF Init, RegistryInv, TypeOK, StampsDoNotGoBack, ActivationsAreRegistered, ModuleState,
         ServerState, ActorState, NoServerState, NoActorState

\* versionSince (kv_registry.go:616) never panics, whatever the lag of read
\* versions.
THEOREM StampsSound == Spec => []StampsDoNotGoBack
<1>1. RegistryInv => StampsDoNotGoBack
  BY Zenon DEF RegistryInv
<1> QED
  BY <1>1, RegistryInvInit, RegistryInvStep, NextIsAny, PTL DEF Spec

\* An activation names a registered server, at a version the server has had
\* (kv_registry.go:352), whatever the lag of read versions.
THEOREM ActivationsSound == Spec => []ActivationsAreRegistered
<1>1. RegistryInv => ActivationsAreRegistered
  BY Zenon DEF RegistryInv
<1> QED
  BY <1>1, RegistryInvInit, RegistryInvStep, NextIsAny, PTL DEF Spec

-----------------------------------------------------------------------------
\* TakenOverStaysDead is not inductive alone: the version a server had when an
\* actor was taken from it must not lie in the server's future.
TakenInv ==
    /\ RegistryInv
    /\ TakenOverStaysDead
    /\ \A k \in ActorKeys, s \in Servers : taken[k][s] <= servers[s].version

\* A store without lag runs every transaction at its newest version.
LEMMA ReadsAtClock ==
    ASSUME TypeOK, MaxLag = 0, NEW vs \in ReadVersions
    PROVE  vs = clock
  BY DEF TypeOK, ReadVersions

\* A server that is not alive does not become alive by the passing of time.
LEMMA DeadStaysDead ==
    ASSUME TypeOK, NEW s \in Servers, ~Alive(s, clock)
    PROVE  ~Alive(s, clock + 1)
  BY RegistryAssumption DEF TypeOK, Alive, ServerState

\* Steps that touch neither the servers nor the history preserve TakenInv.
LEMMA TakenUntouched ==
    ASSUME TakenInv, RegistryInv', UNCHANGED <<servers, taken>>,
           clock' = clock \/ clock' = clock + 1
    PROVE  TakenInv'
<1>1. \A s \in Servers : ~Alive(s, clock) => ~Alive(s, clock')
  BY DeadStaysDead, Zenon DEF TakenInv, RegistryInv
<1>2. \A s \in Servers : Alive(s, clock)' <=> Alive(s, clock')
  BY Zenon DEF Alive
<1> QED
  BY <1>1, <1>2, Zenon DEF TakenInv, TakenOverStaysDead

\* Without lag every registry operation preserves TakenInv: Heartbeat
\* (kv_registry.go:488) bumps the version of a server that was found dead, and
\* EnsureActivation (kv_registry.go:311) takes actors from dead servers only.
LEMMA TakenInvStep ==
    ASSUME MaxLag = 0
    PROVE  TakenInv /\ [AnyNext]_vars => TakenInv'
<1> SUFFICES ASSUME TakenInv, [AnyNext]_vars PROVE TakenInv'
  BY Zenon
<1>0. TypeOK /\ RegistryInv'
  BY RegistryInvStep, Zenon DEF TakenInv, RegistryInv
<1>1. CASE Tick
  BY <1>0, <1>1, TakenUntouched, Zenon DEF Tick
<1>2. ASSUME NEW m \in Modules, NEW kind \in {"wasm", "go"}, RegisterModule(m, kind)
      PROVE  TakenInv'
  BY <1>0, <1>2, TakenUntouched, Zenon DEF RegisterModule, Commit, CommitVersion
<1>3. ASSUME NEW k \in ActorKeys, CreateActor(k)
      PROVE  TakenInv'
  BY <1>0, <1>3, TakenUntouched, Zenon DEF CreateActor, Commit, CommitVersion
<1>4. ASSUME NEW k \in ActorKeys, IncGeneration(k)
      PROVE  TakenInv'
  BY <1>0, <1>4, TakenUntouched, Zenon DEF IncGeneration, Commit, CommitVersion
<1>5. ASSUME NEW s \in Servers, NEW load \in Nat, NEW vs \in ReadVersions,
             Heartbeat(s, load, vs)
      PROVE  TakenInv'
  <2>1. vs = clock /\ clock \in Nat /\ clock' = clock + 1 /\ taken' = taken
    BY <1>0, <1>5, ReadsAtClock, Zenon DEF Heartbeat, Commit, CommitVersion, TypeOK
  <2>2. servers' = [servers EXCEPT ![s] = [version |-> NextServerVersion(s, clock), last |-> clock,
                                          load |-> load, wrote |-> clock + 1]]
    BY <1>5, <2>1, Zenon DEF Heartbeat, CommitVersion
  <2>3. ASSUME NEW k \in ActorKeys, NEW t \in Servers
        PROVE  /\ taken'[k][t] <= servers'[t].version
               /\ taken'[k][t] # 0 /\ servers'[t].version = taken'[k][t]
                      => ~Alive(t, clock)'
    <3>0. taken[k][t] \in Nat /\ taken[k][t] <= servers[t].version
      BY <1>0, Zenon DEF TakenInv, TypeOK
    <3>1. CASE t = s
      <4>1. servers'[s].version = NextServerVersion(s, clock)
        BY <1>0, <2>2, Zenon DEF TypeOK
      <4>2. /\ NextServerVersion(s, clock) \in Nat
            /\ NextServerVersion(s, clock) >= servers[s].version
        BY <1>0, <2>1, NextServerVersionGrows, Zenon
      <4>3. taken[k][s] # 0 => NextServerVersion(s, clock) > taken[k][s]
        <5>1. CASE servers[s].version = taken[k][s]
          BY <1>0, <5>1, RegistryAssumption
             DEF TakenInv, TakenOverStaysDead, Alive, NextServerVersion, TypeOK, ServerState
        <5>2. CASE servers[s].version # taken[k][s]
          <6>1. /\ taken[k][s] \in Nat /\ servers[s].version \in Nat
                /\ taken[k][s] <= servers[s].version
            BY <1>0, <3>0, <3>1, Zenon DEF TypeOK, ServerState
          <6> QED
            BY <4>2, <5>2, <6>1
        <5> QED
          BY <5>1, <5>2, Zenon
      <4> QED
        BY <1>0, <2>1, <3>0, <3>1, <4>1, <4>2, <4>3 DEF TypeOK, ServerState
    <3>2. CASE t # s
      <4>1. servers'[t] = servers[t]
        BY <1>0, <2>2, <3>2, Zenon DEF TypeOK
      <4>2. Alive(t, clock)' <=> Alive(t, clock + 1)
        BY <2>1, <4>1, Zenon DEF Alive
      <4> QED
        BY <1>0, <2>1, <3>0, <4>1, <4>2, DeadStaysDead, Zenon DEF TakenInv, TakenOverStaysDead
    <3> QED
      BY <3>1, <3>2, Zenon
  <2> QED
    BY <1>0, <2>3, Zenon DEF TakenInv, TakenOverStaysDead
<1>6. ASSUME NEW k \in ActorKeys, NEW ref \in References(k), EnsureActivation(k, ref)
      PROVE  TakenInv'
  <2>1. CASE UNCHANGED vars
    BY <1>0, <2>1, TakenUntouched, Zenon DEF vars
  <2>2. ASSUME NEW vs \in ReadVersions, NewActivation(k, vs, ref)
        PROVE  TakenInv'
    <3> DEFINE ra == RegisteredActor(k)
    <3>1. /\ vs = clock /\ clock \in Nat /\ clock' = clock + 1
          /\ servers' = servers
      BY <1>0, <2>2, ReadsAtClock, Zenon DEF NewActivation, Commit, CommitVersion, TypeOK
    <3>2. CASE ra.server = NoServer
      BY <1>0, <2>2, <3>1, <3>2, TakenUntouched, Zenon DEF NewActivation
    <3>3. CASE ra.server # NoServer
      <4>1. ra.server \in Servers
        BY <1>0, <3>3, RegisteredActorType, Zenon DEF ActorState
      <4>2. ~Alive(ra.server, clock)
        BY <2>2, <3>1, <3>3, Zenon DEF NewActivation, ActivationAlive
      <4>3. taken' = [taken EXCEPT ![k][ra.server] = servers[ra.server].version]
        BY <2>2, <3>3, Zenon DEF NewActivation
      <4>4. ASSUME NEW j \in ActorKeys, NEW t \in Servers
            PROVE  /\ taken'[j][t] <= servers'[t].version
                   /\ taken'[j][t] # 0 /\ servers'[t].version = taken'[j][t]
                          => ~Alive(t, clock)'
        <5>1. Alive(t, clock)' <=> Alive(t, clock + 1)
          BY <3>1, Zenon DEF Alive
        <5>2. CASE j = k /\ t = ra.server
          <6>1. taken'[j][t] = servers[t].version
            BY <1>0, <4>1, <4>3, <5>2, Zenon DEF TypeOK
          <6> QED
            BY <1>0, <3>1, <4>1, <4>2, <5>1, <5>2, <6>1, DeadStaysDead DEF TypeOK, ServerState
        <5>3. CASE ~(j = k /\ t = ra.server)
          <6>1. taken'[j][t] = taken[j][t]
            BY <1>0, <4>1, <4>3, <5>3, Zenon DEF TypeOK
          <6> QED
            BY <1>0, <3>1, <5>1, <6>1, DeadStaysDead, Zenon DEF TakenInv, TakenOverStaysDead
        <5> QED
          BY <5>2, <5>3, Zenon
      <4> QED
        BY <1>0, <4>4, Zenon DEF TakenInv, TakenOverStaysDead
    <3> QED
      BY <3>2, <3>3, Zenon
  <2> QED
    BY <1>6, <2>1, <2>2, Zenon DEF EnsureActivation
<1>7. CASE UNCHANGED vars
  BY <1>0, <1>7, TakenUntouched, Zenon DEF vars
<1> QED
  BY <1>1, <1>2, <1>3, <1>4, <1>5, <1>6, <1>7, Zenon DEF AnyNext

\* In a store without lag, as localKV is, a server an actor was taken from is
\* never again alive under the version it had: any number of servers, actors
\* and heartbeats, any TTL.
THEOREM TakenOverSound == ASSUME MaxLag = 0 PROVE Spec => []TakenOverStaysDead
<1>1. Init => TakenInv
  <2>1. Init => RegistryInv
    BY RegistryInvInit, Zenon
  <2>2. Init => /\ TakenOverStaysDead
                /\ \A k \in ActorKeys, s \in Servers : taken[k][s] <= servers[s].version
    BY DEF Init, TakenOverStaysDead, NoServerState
  <2> QED
    BY <2>1, <2>2, Zenon DEF TakenInv
<1>2. TakenInv /\ [AnyNext]_vars => TakenInv'
  BY TakenInvStep, Zenon
<1>3. TakenInv => TakenOverStaysDead
  BY Zenon DEF TakenInv
<1> QED
  BY <1>1, <1>2, <1>3, NextIsAny, PTL DEF Spec

-----------------------------------------------------------------------------
(* Environments that share it, and their callers.                          *)

\* What an invocation has in hand at each point, and what is in the caches.
CallShape(c) ==
    /\ inv[c].pc # "idle" => inv[c].key \in ActorKeys
    /\ inv[c].pc \in {"stamp", "lookup", "fill"} => inv[c].via \in Servers
    /\ inv[c].pc \in {"lookup", "fill", "deliver", "admitted"} => inv[c].vs > 0
    /\ inv[c].pc \in {"fill", "deliver", "admitted"} =>
         /\ inv[c].ref.server # NoServer
         /\ CacheKey(inv[c].ref.key) = CacheKey(inv[c].key)

CacheShape(s, a) == cache[s][a].server # NoServer => CacheKey(cache[s][a].key) = a

\* An environment has finitely many actors in memory.
Activated(s) == {k \in ActorKeys : mem[s][k].gen > 0}

ShapeInv ==
    /\ ClusterTypeOK
    /\ \A c \in Clients : CallShape(c)
    /\ \A s \in Servers, a \in Actors : CacheShape(s, a)
    /\ \A s \in Servers : IsFiniteSet(Activated(s))

\* A heartbeat's result x, installed in s or under way to it, is no newer than
\* what the registry has stored, give or take the drift of a stamp; once the
\* registry has given s a higher version, the lease of x is over.
LeaseOK(s, x) ==
    /\ x.version <= servers[s].version
    /\ x.version = servers[s].version => x.vs <= servers[s].last + Drift
    /\ 0 < x.version /\ x.version < servers[s].version => x.vs + TTL < clock + Drift

LeaseInv == \A s \in Servers : LeaseOK(s, env[s]) /\ LeaseOK(s, answer[s])

\* The server of r has missed its heartbeats, under the version r is for, long
\* enough to be given a higher one as soon as it heartbeats again.
Outlived(r) ==
    servers[r.server].version = r.version => servers[r.server].last + TTL < clock

\* A reference is to the current activation of its actor, or it is outlived.
RefOK(r) ==
    r.server # NoServer =>
        /\ r.version > 0 /\ r.version <= servers[r.server].version
        /\ r.epoch <= actors[r.key].epoch
        /\ r.epoch = actors[r.key].epoch => r.server = actors[r.key].server
        /\ r.epoch < actors[r.key].epoch => Outlived(r)

\* Every reference that is cached or in use.
AllReferences ==
    {cache[s][a] : s \in Servers, a \in Actors} \cup {inv[c].ref : c \in Clients}
    \cup {NoReference}

\* An actor that does not exist has never been activated.
Unborn == \A k \in ActorKeys :
    actors[k].gen = 0 => actors[k].epoch = 0 /\ actors[k].server = NoServer

RefInv ==
    /\ Unborn
    /\ \A r \in AllReferences : RefOK(r)

\* No result that its server has or may still get lets it serve r at stamp vs.
Dead(r, vs) ==
    \A x \in {env[r.server], answer[r.server]} :
        x.version = r.version => x.vs + TTL < vs + Drift

\* The stamp of an invocation: its own, or the one it is about to share.
StampOf(c) == IF inv[c].pc = "stamp" THEN batch[inv[c].via] ELSE inv[c].vs

\* r is to an activation of c's actor older than one that had answered when c
\* began, and no server would take it for c.
StaleIsDead(c, r) ==
    r.server # NoServer /\ r.key = inv[c].key /\ r.epoch < inv[c].floor => Dead(r, StampOf(c))

\* What an invocation that reads its own stamp relies on.
FreshOK(c) ==
    /\ inv[c].pc # "idle" => inv[c].floor <= actors[inv[c].key].epoch
    /\ inv[c].pc # "idle" /\ ~inv[c].joined /\ StampOf(c) # 0 =>
         \A r \in AllReferences : StaleIsDead(c, r)

FreshInv ==
    /\ \A k \in ActorKeys : newest[k] <= actors[k].epoch
    /\ \A c \in Clients : FreshOK(c)

-----------------------------------------------------------------------------
\* What EnsureActivation returns is a reference to the actor it was asked for.
LEMMA ReferenceFields ==
    ASSUME TypeOK, NEW k \in ActorKeys, NEW ref \in References(k)
    PROVE  ref \in Reference /\ ref.key = k /\ ref.server # NoServer
<1>1. PICK s \in Servers, e \in {0, 1} :
        ref = MakeReference(k, s, RegisteredActor(k).epoch + e)
  BY DEF References
<1>2. /\ RegisteredActor(k).gen \in Nat /\ RegisteredActor(k).epoch + e \in Nat
      /\ servers[s].version \in Nat
  BY <1>1, RegisteredActorType DEF ActorState, TypeOK, ServerState
<1> QED
  BY <1>1, <1>2, RegistryAssumption, Zenon DEF MakeReference, Reference

\* Records of invocations, cached references and results are typed.
LEMMA ClusterFields ==
    ASSUME ClusterTypeOK
    PROVE  /\ \A c \in Clients : inv[c] \in InvocationState
           /\ \A s \in Servers, a \in Actors : cache[s][a] \in Reference \cup {NoReference}
           /\ \A s \in Servers, k \in ActorKeys : mem[s][k] \in [gen : Nat, count : Nat]
           /\ \A s \in Servers : env[s] \in [vs : Nat, version : Nat]
           /\ \A s \in Servers : answer[s] \in [vs : Nat, version : Nat]
  BY Zenon DEF ClusterTypeOK

\* A reference to some server is not the zero reference.
LEMMA RealReference ==
    ASSUME NEW r \in Reference \cup {NoReference}, r.server # NoServer
    PROVE  r \in Reference /\ r.key \in ActorKeys /\ r.server \in Servers
           /\ r.version \in Nat /\ r.gen \in Nat /\ r.epoch \in Nat
<1>1. r # NoReference
  BY DEF NoReference
<1> QED
  BY <1>1, Zenon DEF Reference

\* The registry operations that environments call.
ServiceNext ==
    \/ Tick
    \/ \E k \in ActorKeys : IncGeneration(k)
    \/ \E s \in Servers, load \in Nat, vs \in ReadVersions : Heartbeat(s, load, vs)
    \/ \E k \in ActorKeys : \E ref \in References(k) : EnsureActivation(k, ref)

\* Every step of the cluster is one of them or leaves the registry alone.
LEMMA RegistrySteps ==
    ASSUME ShapeInv, [ClusterNext]_allVars
    PROVE  [ServiceNext]_vars /\ [AnyNext]_vars
<1>1. ASSUME RegistryStep PROVE [ServiceNext]_vars
  BY <1>1, Zenon DEF RegistryStep, ServiceNext
<1>2. ASSUME NEW s \in Servers, EnvStep(s) PROVE [ServiceNext]_vars
  <2>1. CASE SendHeartbeat(s)
    <3>1. NumActivated(s) \in Nat
      BY FS_CardinalityType, Zenon DEF NumActivated, ShapeInv, Activated
    <3> QED
      BY <2>1, <3>1, Zenon DEF SendHeartbeat, ServiceNext
  <2>2. CASE ~SendHeartbeat(s)
    BY <1>2, <2>2, Zenon DEF EnvStep, InstallHeartbeat, LoseHeartbeat, Crash, ReadStamp, ShareStamp,
                      CollectActor, ExpireCache
  <2> QED
    BY <2>1, <2>2, Zenon
<1>3. ASSUME NEW c \in Clients, ClientStep(c) PROVE [ServiceNext]_vars
  <2>1. CASE CacheMiss(c)
    <3>1. inv[c].key \in ActorKeys
      BY <2>1, Zenon DEF CacheMiss, ShapeInv, CallShape
    <3> QED
      BY <2>1, <3>1, Zenon DEF CacheMiss, ServiceNext
  <2>2. CASE ~CacheMiss(c)
    BY <1>3, <2>2, Zenon DEF ClientStep, BeginInvocation, CacheHit, FillCache, Admit, Fail, Execute
  <2> QED
    BY <2>1, <2>2, Zenon
<1>4. ASSUME UNCHANGED allVars PROVE [ServiceNext]_vars
  BY <1>4, Zenon DEF allVars
<1>5. [ServiceNext]_vars
  BY <1>1, <1>2, <1>3, <1>4, Zenon DEF ClusterNext
<1> QED
  BY <1>5, Zenon DEF ServiceNext, AnyNext

\* A step of one invocation that leaves the environments alone.
LEMMA CallStep ==
    ASSUME ShapeInv, TypeOK', NEW c \in Clients, UNCHANGED envVars,
           inv' \in [Clients -> InvocationState], \A d \in Clients : d # c => inv'[d] = inv[d],
           CallShape(c)',
           begun' \in Nat, faults' \in Nat, UNCHANGED <<lastSeen, newest>>
    PROVE  ShapeInv'
<1>1. ASSUME NEW d \in Clients PROVE CallShape(d)'
  BY Zenon DEF ShapeInv, CallShape
<1>2. ClusterTypeOK'
  BY <1>1, Zenon DEF ShapeInv, ClusterTypeOK, CallShape, envVars
<1>3. \A s \in Servers, a \in Actors : CacheShape(s, a)'
  BY Zenon DEF ShapeInv, CacheShape, envVars
<1>4. \A s \in Servers : IsFiniteSet(Activated(s))'
  BY Zenon DEF ShapeInv, Activated, envVars
<1> QED
  BY <1>1, <1>2, <1>3, <1>4, Zenon DEF ShapeInv

\* A step of one environment that leaves the invocations alone.
LEMMA EnvironmentStep ==
    ASSUME ShapeInv, TypeOK', NEW s \in Servers, UNCHANGED clientVars, faults' \in Nat,
           env' \in [Servers -> [vs : Nat, version : Nat]],
           answer' \in [Servers -> [vs : Nat, version : Nat]],
           batch' \in [Servers -> Nat],
           cache' \in [Servers -> [Actors -> Reference \cup {NoReference}]],
           mem' \in [Servers -> [ActorKeys -> [gen : Nat, count : Nat]]],
           \A t \in Servers, a \in Actors : cache'[t][a] \in {cache[t][a], NoReference},
           \A t \in Servers : Activated(t)' \subseteq Activated(t)
    PROVE  ShapeInv'
<1>1. \A c \in Clients : CallShape(c)'
  BY Zenon DEF ShapeInv, CallShape, clientVars
<1>2. ClusterTypeOK'
  BY Zenon DEF ShapeInv, ClusterTypeOK, clientVars
<1>3. \A t \in Servers, a \in Actors : CacheShape(t, a)'
  <2>1. NoReference.server = NoServer
    BY Zenon DEF NoReference
  <2> QED
    BY <2>1, Zenon DEF ShapeInv, CacheShape
<1>4. \A t \in Servers : IsFiniteSet(Activated(t)')
  BY FS_Subset, Zenon DEF ShapeInv
<1> QED
  BY <1>1, <1>2, <1>3, <1>4, Zenon DEF ShapeInv

\* An idle invocation.
LEMMA IdleFields == Idle \in InvocationState /\ Idle.pc = "idle" /\ Idle.ref = NoReference
  BY Zenon DEF Idle, InvocationState

\* Steps of the environments other than ShareStamp and Crash.
LEMMA ShapeEnv ==
    ASSUME ShapeInv, TypeOK', NEW s \in Servers,
           \/ SendHeartbeat(s) \/ InstallHeartbeat(s) \/ LoseHeartbeat(s) \/ ReadStamp(s)
           \/ \E k \in ActorKeys : CollectActor(s, k)
           \/ \E a \in Actors : ExpireCache(s, a)
    PROVE  ShapeInv'
<1> USE DEF Activated
<1>1. /\ ClusterTypeOK /\ TypeOK /\ NoResult \in [vs : Nat, version : Nat]
      /\ NoInstance \in [gen : Nat, count : Nat] /\ NoInstance.gen = 0
  BY Zenon DEF ShapeInv, ClusterTypeOK, NoResult, NoInstance
<1>2. CASE SendHeartbeat(s)
  <2>1. PICK vs \in ReadVersions, d \in 0..Drift :
          answer' = [answer EXCEPT ![s] = HeartbeatResult(s, vs, vs + d)]
    BY <1>2, Zenon DEF SendHeartbeat
  <2>2. HeartbeatResult(s, vs, vs + d) \in [vs : Nat, version : Nat]
    <3>1. vs \in Nat /\ vs + d \in Nat
      BY <1>1, <2>1, ReadVersionsType, ClusterAssumption
    <3>2. NextServerVersion(s, vs) \in Nat
      BY <1>1, <3>1, NextServerVersionGrows, Zenon
    <3> QED
      BY <3>1, <3>2, Zenon DEF HeartbeatResult
  <2>3. answer' \in [Servers -> [vs : Nat, version : Nat]]
    BY <1>1, <2>1, <2>2, Zenon DEF ClusterTypeOK
  <2>4. UNCHANGED <<faults, env, batch, cache, mem, clientVars>>
    BY <1>2, Zenon DEF SendHeartbeat
  <2> QED
    BY <1>1, <2>3, <2>4, EnvironmentStep, Zenon DEF ClusterTypeOK
<1>3. CASE InstallHeartbeat(s)
  <2>1. /\ env' \in [Servers -> [vs : Nat, version : Nat]]
        /\ answer' \in [Servers -> [vs : Nat, version : Nat]]
        /\ UNCHANGED <<faults, batch, cache, mem, clientVars>>
    BY <1>1, <1>3, Zenon DEF InstallHeartbeat, ClusterTypeOK
  <2> QED
    BY <1>1, <2>1, EnvironmentStep, Zenon DEF ClusterTypeOK
<1>4. CASE LoseHeartbeat(s)
  <2>1. /\ answer' \in [Servers -> [vs : Nat, version : Nat]] /\ faults' \in Nat
        /\ UNCHANGED <<env, batch, cache, mem, clientVars>>
    BY <1>1, <1>4 DEF LoseHeartbeat, Fault, ClusterTypeOK
  <2> QED
    BY <1>1, <2>1, EnvironmentStep, Zenon DEF ClusterTypeOK
<1>5. CASE ReadStamp(s)
  <2>1. /\ batch' \in [Servers -> Nat]
        /\ UNCHANGED <<faults, env, answer, cache, mem, clientVars>>
    BY <1>1, <1>5, Zenon DEF ReadStamp, ClusterTypeOK, TypeOK
  <2> QED
    BY <1>1, <2>1, EnvironmentStep, Zenon DEF ClusterTypeOK
<1>6. ASSUME NEW k \in ActorKeys, CollectActor(s, k) PROVE ShapeInv'
  <2>1. /\ mem' \in [Servers -> [ActorKeys -> [gen : Nat, count : Nat]]]
        /\ \A t \in Servers, j \in ActorKeys : mem'[t][j] \in {mem[t][j], NoInstance}
    BY <1>1, <1>6, Zenon DEF CollectActor, ClusterTypeOK
  <2>2. faults' \in Nat /\ UNCHANGED <<env, answer, batch, cache, clientVars>>
    BY <1>1, <1>6 DEF CollectActor, Fault, ClusterTypeOK
  <2>3. \A t \in Servers : Activated(t)' \subseteq Activated(t)
    BY <1>1, <2>1
  <2> QED
    BY <1>1, <2>1, <2>2, <2>3, EnvironmentStep, Zenon DEF ClusterTypeOK
<1>7. ASSUME NEW a \in Actors, ExpireCache(s, a) PROVE ShapeInv'
  <2>1. /\ cache' \in [Servers -> [Actors -> Reference \cup {NoReference}]]
        /\ \A t \in Servers, b \in Actors : cache'[t][b] \in {cache[t][b], NoReference}
    BY <1>1, <1>7, Zenon DEF ExpireCache, ClusterTypeOK
  <2>2. faults' \in Nat /\ UNCHANGED <<env, answer, batch, mem, clientVars>>
    BY <1>1, <1>7 DEF ExpireCache, Fault, ClusterTypeOK
  <2> QED
    BY <1>1, <2>1, <2>2, EnvironmentStep, Zenon DEF ClusterTypeOK
<1> QED
  BY <1>2, <1>3, <1>4, <1>5, <1>6, <1>7, Zenon

\* What the crash of s leaves of an invocation.
LEMMA CrashFields ==
    ASSUME ShapeInv, NEW s \in Servers, Crash(s), NEW c \in Clients
    PROVE  /\ inv'[c] \in InvocationState
           /\ \/ inv'[c] = Idle
              \/ /\ inv'[c].pc = inv[c].pc /\ inv'[c].key = inv[c].key
                 /\ inv'[c].vs = inv[c].vs /\ inv'[c].ref = inv[c].ref
                 /\ inv'[c].floor = inv[c].floor /\ inv'[c].joined = inv[c].joined
                 /\ \/ inv'[c].via = inv[c].via /\ inv[c].via # s
                    \/ inv[c].pc \in {"deliver", "admitted"}
<1>1. inv[c] \in InvocationState /\ inv'[c] = AfterCrash(s, inv[c])
  BY ClusterFields, Zenon DEF ShapeInv, Crash
<1>2. CASE inv'[c] = Idle
  BY <1>2, IdleFields, Zenon
<1>3. CASE inv'[c] = inv[c] /\ inv[c].via # s
  BY <1>1, <1>3, Zenon
<1>4. CASE inv'[c] = [inv[c] EXCEPT !.via = NoServer] /\ inv[c].pc \in {"deliver", "admitted"}
  <2>1. [inv[c] EXCEPT !.via = NoServer] \in InvocationState
    BY <1>1, Zenon DEF InvocationState
  <2>2. /\ inv'[c].pc = inv[c].pc /\ inv'[c].key = inv[c].key
        /\ inv'[c].vs = inv[c].vs /\ inv'[c].ref = inv[c].ref
        /\ inv'[c].floor = inv[c].floor /\ inv'[c].joined = inv[c].joined
    BY <1>1, <1>4, Zenon DEF InvocationState
  <2> QED
    BY <1>4, <2>1, <2>2, Zenon
<1> QED
  BY <1>1, <1>2, <1>3, <1>4, Zenon DEF AfterCrash

\* What the return of GetVersionStamp on s does to an invocation.
LEMMA ShareFields ==
    ASSUME ShapeInv, NEW s \in Servers, ShareStamp(s), NEW c \in Clients
    PROVE  /\ inv'[c] \in InvocationState
           /\ \/ inv'[c] = inv[c] /\ ~(inv[c].pc = "stamp" /\ inv[c].via = s)
              \/ /\ inv[c].pc = "stamp" /\ inv[c].via = s
                 /\ inv'[c].pc = "lookup" /\ inv'[c].vs = batch[s]
                 /\ inv'[c].key = inv[c].key /\ inv'[c].ref = inv[c].ref
                 /\ inv'[c].via = inv[c].via
                 /\ inv'[c].floor = inv[c].floor /\ inv'[c].joined = inv[c].joined
<1>1. inv[c] \in InvocationState /\ batch[s] \in Nat
  BY ClusterFields, Zenon DEF ShapeInv, ClusterTypeOK
<1>2. CASE c \notin Stamping(s)
  BY <1>1, <1>2, Zenon DEF ShareStamp, Stamping
<1>3. CASE c \in Stamping(s)
  <2>1. inv'[c] = [inv[c] EXCEPT !.pc = "lookup", !.vs = batch[s]]
    BY <1>3, Zenon DEF ShareStamp
  <2>2. [inv[c] EXCEPT !.pc = "lookup", !.vs = batch[s]] \in InvocationState
    BY <1>1, Zenon DEF InvocationState
  <2>3. /\ inv'[c].pc = "lookup" /\ inv'[c].vs = batch[s]
        /\ inv'[c].key = inv[c].key /\ inv'[c].ref = inv[c].ref
        /\ inv'[c].via = inv[c].via
        /\ inv'[c].floor = inv[c].floor /\ inv'[c].joined = inv[c].joined
    BY <1>1, <2>1, Zenon DEF InvocationState
  <2> QED
    BY <1>3, <2>1, <2>2, <2>3, Zenon DEF Stamping
<1> QED
  BY <1>2, <1>3, Zenon

\* The stamp that was read is given to everyone who waits for it.
LEMMA ShapeShare ==
    ASSUME ShapeInv, TypeOK', NEW s \in Servers, ShareStamp(s)
    PROVE  ShapeInv'
<1>1. /\ batch[s] # 0 /\ batch[s] \in Nat /\ batch' \in [Servers -> Nat]
      /\ UNCHANGED <<faults, env, answer, cache, mem, begun, lastSeen, newest>>
  BY Zenon DEF ShapeInv, ClusterTypeOK, ShareStamp
<1>2. inv' \in [Clients -> InvocationState]
  <2>1. inv' = [c \in Clients |-> inv'[c]]
    BY Zenon DEF ShareStamp
  <2> QED
    BY <2>1, ShareFields, Zenon
<1>3. ASSUME NEW c \in Clients PROVE CallShape(c)'
  BY <1>1, ShareFields, SMTT(30) DEF ShapeInv, CallShape
<1>4. ClusterTypeOK'
  BY <1>1, <1>2, <1>3, Zenon DEF ShapeInv, ClusterTypeOK, CallShape
<1> QED
  BY <1>1, <1>3, <1>4, Zenon DEF ShapeInv, CacheShape, Activated

\* The process of s dies.
LEMMA ShapeCrash ==
    ASSUME ShapeInv, TypeOK', NEW s \in Servers, Crash(s)
    PROVE  ShapeInv'
<1>1. /\ ClusterTypeOK /\ TypeOK /\ NoResult \in [vs : Nat, version : Nat]
      /\ NoInstance \in [gen : Nat, count : Nat] /\ NoInstance.gen = 0
      /\ NoReference.server = NoServer
  BY Zenon DEF ShapeInv, ClusterTypeOK, NoResult, NoInstance, NoReference
<1>2. /\ env' \in [Servers -> [vs : Nat, version : Nat]]
      /\ answer' \in [Servers -> [vs : Nat, version : Nat]]
      /\ batch' \in [Servers -> Nat]
      /\ cache' \in [Servers -> [Actors -> Reference \cup {NoReference}]]
      /\ mem' \in [Servers -> [ActorKeys -> [gen : Nat, count : Nat]]]
      /\ faults' \in Nat /\ UNCHANGED <<begun, lastSeen, newest>>
  BY <1>1 DEF Crash, Fault, ClusterTypeOK
<1>3. /\ \A t \in Servers, a \in Actors : cache'[t][a] \in {cache[t][a], NoReference}
      /\ \A t \in Servers, k \in ActorKeys : mem'[t][k] \in {mem[t][k], NoInstance}
  BY <1>1, Zenon DEF Crash, ClusterTypeOK
<1>4. inv' \in [Clients -> InvocationState]
  <2>1. inv' = [c \in Clients |-> inv'[c]]
    BY Zenon DEF Crash
  <2> QED
    BY <2>1, CrashFields, Zenon
<1>5. ASSUME NEW c \in Clients PROVE CallShape(c)'
  BY CrashFields, IdleFields, Zenon DEF ShapeInv, CallShape
<1>6. ClusterTypeOK'
  BY <1>1, <1>2, <1>4, <1>5, Zenon DEF ClusterTypeOK, CallShape
<1>7. \A t \in Servers, a \in Actors : CacheShape(t, a)'
  BY <1>1, <1>3, Zenon DEF ShapeInv, CacheShape
<1>8. ASSUME NEW t \in Servers PROVE IsFiniteSet(Activated(t)')
  <2>1. Activated(t)' \subseteq Activated(t)
    BY <1>1, <1>3 DEF Activated
  <2> QED
    BY <2>1, FS_Subset, Zenon DEF ShapeInv
<1> QED
  BY <1>5, <1>6, <1>7, <1>8, Zenon DEF ShapeInv

\* An invocation moves on, with a reference.
LEMMA ReferFields ==
    ASSUME ClusterTypeOK, NEW c \in Clients, NEW label \in {"fill", "deliver"},
           NEW ref \in Reference, inv' = [inv EXCEPT ![c].pc = label, ![c].ref = ref]
    PROVE  /\ inv' \in [Clients -> InvocationState]
           /\ \A d \in Clients : d # c => inv'[d] = inv[d]
           /\ inv'[c].pc = label /\ inv'[c].ref = ref /\ inv'[c].key = inv[c].key
           /\ inv'[c].via = inv[c].via /\ inv'[c].vs = inv[c].vs
           /\ inv'[c].floor = inv[c].floor /\ inv'[c].joined = inv[c].joined
<1>1. inv[c] \in InvocationState
  BY ClusterFields, Zenon
<1>2. inv' = [inv EXCEPT ![c] = [inv[c] EXCEPT !.pc = label, !.ref = ref]]
  BY Zenon DEF ClusterTypeOK
<1>3. [inv[c] EXCEPT !.pc = label, !.ref = ref] \in InvocationState
  BY <1>1, Zenon DEF InvocationState
<1>4. \A r \in {[inv[c] EXCEPT !.pc = label, !.ref = ref]} :
        /\ r.pc = label /\ r.ref = ref /\ r.key = inv[c].key
        /\ r.via = inv[c].via /\ r.vs = inv[c].vs
        /\ r.floor = inv[c].floor /\ r.joined = inv[c].joined
  BY <1>1, Zenon DEF InvocationState
<1> QED
  BY <1>2, <1>3, <1>4, Zenon DEF ClusterTypeOK

\* An invocation moves on with what it has.
LEMMA MoveFields ==
    ASSUME ClusterTypeOK, NEW c \in Clients, NEW label \in {"deliver", "admitted"},
           inv' = [inv EXCEPT ![c].pc = label]
    PROVE  /\ inv' \in [Clients -> InvocationState]
           /\ \A d \in Clients : d # c => inv'[d] = inv[d]
           /\ inv'[c].pc = label /\ inv'[c].ref = inv[c].ref /\ inv'[c].key = inv[c].key
           /\ inv'[c].via = inv[c].via /\ inv'[c].vs = inv[c].vs
           /\ inv'[c].floor = inv[c].floor /\ inv'[c].joined = inv[c].joined
<1>1. inv[c] \in InvocationState
  BY ClusterFields, Zenon
<1>2. inv' = [inv EXCEPT ![c] = [inv[c] EXCEPT !.pc = label]]
  BY Zenon DEF ClusterTypeOK
<1>3. [inv[c] EXCEPT !.pc = label] \in InvocationState
  BY <1>1, Zenon DEF InvocationState
<1>4. \A r \in {[inv[c] EXCEPT !.pc = label]} :
        /\ r.pc = label /\ r.ref = inv[c].ref /\ r.key = inv[c].key
        /\ r.via = inv[c].via /\ r.vs = inv[c].vs
        /\ r.floor = inv[c].floor /\ r.joined = inv[c].joined
  BY <1>1, Zenon DEF InvocationState
<1> QED
  BY <1>2, <1>3, <1>4, Zenon DEF ClusterTypeOK

\* An invocation returns.
LEMMA IdleAgain ==
    ASSUME ClusterTypeOK, NEW c \in Clients, Return(c)
    PROVE  /\ inv' \in [Clients -> InvocationState]
           /\ \A d \in Clients : d # c => inv'[d] = inv[d]
           /\ inv'[c] = Idle /\ CallShape(c)'
<1>1. /\ inv' \in [Clients -> InvocationState]
      /\ \A d \in Clients : d # c => inv'[d] = inv[d]
      /\ inv'[c] = Idle
  BY IdleFields, Zenon DEF Return, ClusterTypeOK
<1> QED
  BY <1>1, IdleFields, Zenon DEF CallShape

\* An invocation begins.
LEMMA BeginFields ==
    ASSUME ClusterTypeOK, NEW c \in Clients, NEW s \in Servers, NEW k \in ActorKeys,
           BeginInvocation(c, s, k)
    PROVE  /\ inv' \in [Clients -> InvocationState]
           /\ \A d \in Clients : d # c => inv'[d] = inv[d]
           /\ inv'[c].pc = "stamp" /\ inv'[c].via = s /\ inv'[c].key = k
           /\ inv'[c].ref = NoReference /\ inv'[c].floor = newest[k]
           /\ inv'[c].joined = (batch[s] # 0)
<1>1. PICK i : i = [pc |-> "stamp", via |-> s, key |-> k, vs |-> 0, ref |-> NoReference,
                    floor |-> newest[k], joined |-> batch[s] # 0]
  BY Zenon
<1>2. newest[k] \in Nat
  BY Zenon DEF ClusterTypeOK
<1>3. /\ i \in InvocationState
      /\ i.pc = "stamp" /\ i.via = s /\ i.key = k /\ i.ref = NoReference
      /\ i.floor = newest[k] /\ i.joined = (batch[s] # 0)
  BY <1>1, <1>2, Zenon DEF InvocationState
<1>4. inv' = [inv EXCEPT ![c] = i]
  BY <1>1, Zenon DEF BeginInvocation
<1> QED
  BY <1>3, <1>4, Zenon DEF ClusterTypeOK

\* What a request that was admitted does to the memory of its server.
LEMMA ExecuteFields ==
    ASSUME ShapeInv, NEW c \in Clients, Execute(c)
    PROVE  /\ inv[c].ref.server \in Servers /\ inv[c].ref.key \in ActorKeys
           /\ inv[c].ref.epoch \in Nat /\ inv[c].key \in ActorKeys
           /\ mem' \in [Servers -> [ActorKeys -> [gen : Nat, count : Nat]]]
           /\ \A s \in Servers, k \in ActorKeys :
                k # inv[c].ref.key => mem'[s][k] = mem[s][k]
           /\ lastSeen' \in [ActorKeys -> [before : Nat, now : Nat]]
           /\ newest' \in [ActorKeys -> Nat]
           /\ \A k \in ActorKeys : newest'[k] \in {newest[k], inv[c].ref.epoch}
           /\ \A k \in ActorKeys : k # inv[c].key => newest'[k] = newest[k]
<1> DEFINE ref == inv[c].ref
           s == ref.server
<1>1. ClusterTypeOK /\ inv[c] \in InvocationState /\ CallShape(c)
  BY ClusterFields, Zenon DEF ShapeInv
<1>2. inv[c].key \in ActorKeys /\ ref.server # NoServer /\ ref \in Reference \cup {NoReference}
  BY <1>1, Zenon DEF Execute, CallShape, InvocationState
<1>3. s \in Servers /\ ref.key \in ActorKeys /\ ref.gen \in Nat /\ ref.epoch \in Nat
  BY <1>2, RealReference, Zenon
<1>4. PICK i : i = InstanceFor(s, ref)
  BY Zenon
<1>5. i \in [gen : Nat, count : Nat]
  BY <1>1, <1>3, <1>4, ClusterFields, Zenon DEF InstanceFor
<1>6. i.count + 1 \in Nat /\ [i EXCEPT !.count = i.count + 1] \in [gen : Nat, count : Nat]
  BY <1>5
<1>7. mem' = [mem EXCEPT ![s][ref.key] = [i EXCEPT !.count = i.count + 1]]
  BY <1>4, Zenon DEF Execute
<1> HIDE DEF ref, s
<1>8. /\ mem' \in [Servers -> [ActorKeys -> [gen : Nat, count : Nat]]]
      /\ \A t \in Servers, k \in ActorKeys : k # ref.key => mem'[t][k] = mem[t][k]
  BY <1>1, <1>3, <1>6, <1>7, Zenon DEF ClusterTypeOK
<1>9. lastSeen' \in [ActorKeys -> [before : Nat, now : Nat]]
  <2>1. \/ UNCHANGED lastSeen
        \/ lastSeen' = [lastSeen EXCEPT ![inv[c].key] = [before |-> @.now, now |-> i.count + 1]]
    BY <1>4, Zenon DEF Execute, ref, s
  <2> QED
    BY <1>1, <1>2, <1>6, <2>1, SMTT(30) DEF ClusterTypeOK
<1>10. \/ UNCHANGED newest
       \/ newest' = [newest EXCEPT ![inv[c].key] = IF ref.epoch > @ THEN ref.epoch ELSE @]
  BY Zenon DEF Execute, ref
<1>11. /\ newest' \in [ActorKeys -> Nat]
       /\ \A k \in ActorKeys : newest'[k] \in {newest[k], ref.epoch}
       /\ \A k \in ActorKeys : k # inv[c].key => newest'[k] = newest[k]
  BY <1>1, <1>2, <1>3, <1>10, Zenon DEF ClusterTypeOK
<1> QED
  BY <1>2, <1>3, <1>8, <1>9, <1>11, Zenon DEF ref, s

\* The steps of an invocation.
LEMMA ShapeClient ==
    ASSUME ShapeInv, TypeOK', NEW c \in Clients, ClientStep(c)
    PROVE  ShapeInv'
<1>1. /\ ClusterTypeOK /\ TypeOK /\ CallShape(c) /\ inv[c] \in InvocationState
      /\ begun \in Nat /\ faults \in Nat
  BY ClusterFields, Zenon DEF ShapeInv, ClusterTypeOK
<1>2. ASSUME NEW s \in Home[c], NEW k \in ActorKeys, BeginInvocation(c, s, k)
      PROVE  ShapeInv'
  <2>1. s \in Servers
    BY ClusterAssumption, Zenon
  <2>2. /\ inv' \in [Clients -> InvocationState]
        /\ \A d \in Clients : d # c => inv'[d] = inv[d]
        /\ inv'[c].pc = "stamp" /\ inv'[c].via = s /\ inv'[c].key = k
    BY <1>1, <1>2, <2>1, BeginFields, Zenon
  <2>3. CallShape(c)'
    BY <2>1, <2>2, Zenon DEF CallShape
  <2>4. begun' \in Nat /\ UNCHANGED <<envVars, faults, lastSeen, newest>>
    BY <1>1, <1>2, SMTT(30) DEF BeginInvocation
  <2> QED
    BY <1>1, <2>2, <2>3, <2>4, CallStep, Zenon
<1>3. CASE CacheHit(c)
  <2>1. PICK ref : ref = cache[inv[c].via][CacheKey(inv[c].key)]
    BY Zenon
  <2>2. inv[c].pc = "lookup" /\ inv[c].key \in ActorKeys /\ inv[c].via \in Servers /\ inv[c].vs > 0
    BY <1>1, <1>3, Zenon DEF CacheHit, CallShape
  <2>3. CacheKey(inv[c].key) \in Actors
    BY <2>2, Zenon DEF CacheKey, ActorKeys
  <2>4. ref \in Reference \cup {NoReference} /\ ref.server # NoServer
    BY <1>1, <1>3, <2>1, <2>2, <2>3, ClusterFields, Zenon DEF CacheHit
  <2>5. ref \in Reference /\ CacheKey(ref.key) = CacheKey(inv[c].key)
    BY <2>1, <2>2, <2>3, <2>4, RealReference, Zenon DEF ShapeInv, CacheShape
  <2>6. /\ inv' = [inv EXCEPT ![c].pc = "deliver", ![c].ref = ref]
        /\ UNCHANGED <<envVars, faults, begun, lastSeen, newest>>
    BY <1>3, <2>1, Zenon DEF CacheHit
  <2>7. /\ inv' \in [Clients -> InvocationState]
        /\ \A d \in Clients : d # c => inv'[d] = inv[d]
        /\ inv'[c].pc = "deliver" /\ inv'[c].ref = ref /\ inv'[c].key = inv[c].key
        /\ inv'[c].vs = inv[c].vs
    BY <1>1, <2>5, <2>6, ReferFields, ZenonT(30)
  <2>8. CallShape(c)'
    BY <2>2, <2>4, <2>5, <2>7, Zenon DEF CallShape
  <2> QED
    BY <1>1, <2>6, <2>7, <2>8, CallStep, Zenon
<1>4. CASE CacheMiss(c)
  <2>1. inv[c].pc = "lookup" /\ inv[c].key \in ActorKeys /\ inv[c].via \in Servers /\ inv[c].vs > 0
    BY <1>1, <1>4, Zenon DEF CacheMiss, CallShape
  <2>2. PICK ref \in References(inv[c].key) : inv' = [inv EXCEPT ![c].pc = "fill", ![c].ref = ref]
    BY <1>4, Zenon DEF CacheMiss
  <2>3. ref \in Reference /\ ref.key = inv[c].key /\ ref.server # NoServer
    BY <1>1, <2>1, ReferenceFields, Zenon
  <2>4. UNCHANGED <<envVars, faults, begun, lastSeen, newest>>
    BY <1>4, Zenon DEF CacheMiss
  <2>5. /\ inv' \in [Clients -> InvocationState]
        /\ \A d \in Clients : d # c => inv'[d] = inv[d]
        /\ inv'[c].pc = "fill" /\ inv'[c].ref = ref /\ inv'[c].key = inv[c].key
        /\ inv'[c].via = inv[c].via /\ inv'[c].vs = inv[c].vs
    BY <1>1, <2>2, <2>3, ReferFields, ZenonT(30)
  <2>6. CallShape(c)'
    BY <2>1, <2>3, <2>5, Zenon DEF CallShape
  <2> QED
    BY <1>1, <2>4, <2>5, <2>6, CallStep, Zenon
<1>5. CASE FillCache(c)
  <2>1. /\ inv[c].pc = "fill" /\ inv[c].key \in ActorKeys /\ inv[c].via \in Servers
        /\ inv[c].vs > 0 /\ inv[c].ref.server # NoServer
        /\ CacheKey(inv[c].ref.key) = CacheKey(inv[c].key)
        /\ inv[c].ref \in Reference \cup {NoReference}
    BY <1>1, <1>5, Zenon DEF FillCache, CallShape, InvocationState
  <2>2. CacheKey(inv[c].key) \in Actors
    BY <2>1, Zenon DEF CacheKey, ActorKeys
  <2>3. /\ inv' = [inv EXCEPT ![c].pc = "deliver"]
        /\ UNCHANGED <<env, answer, batch, mem, faults, begun, lastSeen, newest>>
    BY <1>5, Zenon DEF FillCache
  <2>4. /\ inv' \in [Clients -> InvocationState]
        /\ \A d \in Clients : d # c => inv'[d] = inv[d]
        /\ inv'[c].pc = "deliver" /\ inv'[c].ref = inv[c].ref /\ inv'[c].key = inv[c].key
        /\ inv'[c].vs = inv[c].vs
    BY <1>1, <2>3, MoveFields, Zenon
  <2>5. ASSUME NEW d \in Clients PROVE CallShape(d)'
    BY <2>1, <2>4, Zenon DEF ShapeInv, CallShape
  <2>6. /\ cache' \in [Servers -> [Actors -> Reference \cup {NoReference}]]
        /\ \A t \in Servers, a \in Actors :
             \/ cache'[t][a] = cache[t][a]
             \/ cache'[t][a] = inv[c].ref /\ a = CacheKey(inv[c].key)
    BY <1>1, <1>5, <2>1, <2>2, Zenon DEF FillCache, ClusterTypeOK
  <2>7. \A t \in Servers, a \in Actors : CacheShape(t, a)'
    BY <2>1, <2>6, SMTT(30) DEF ShapeInv, CacheShape
  <2>8. ClusterTypeOK'
    BY <1>1, <2>3, <2>4, <2>5, <2>6, Zenon DEF ClusterTypeOK, CallShape
  <2> QED
    BY <2>3, <2>5, <2>7, <2>8, Zenon DEF ShapeInv, Activated
<1>6. CASE Admit(c)
  <2>1. /\ inv[c].pc = "deliver" /\ inv' = [inv EXCEPT ![c].pc = "admitted"]
        /\ UNCHANGED <<envVars, faults, begun, lastSeen, newest>>
    BY <1>6, Zenon DEF Admit
  <2>2. /\ inv' \in [Clients -> InvocationState]
        /\ \A d \in Clients : d # c => inv'[d] = inv[d]
        /\ inv'[c].pc = "admitted" /\ inv'[c].ref = inv[c].ref /\ inv'[c].key = inv[c].key
        /\ inv'[c].vs = inv[c].vs
    BY <1>1, <2>1, MoveFields, Zenon
  <2>3. CallShape(c)'
    BY <1>1, <2>1, <2>2, Zenon DEF CallShape
  <2> QED
    BY <1>1, <2>1, <2>2, <2>3, CallStep, Zenon
<1>7. CASE Fail(c)
  <2>1. faults' \in Nat /\ Return(c) /\ UNCHANGED <<envVars, begun, lastSeen, newest>>
    BY <1>1, <1>7 DEF Fail, Fault
  <2> QED
    BY <1>1, <2>1, IdleAgain, CallStep, Zenon
<1>8. CASE Execute(c)
  <2>1. /\ faults' \in Nat /\ Return(c) /\ UNCHANGED <<env, answer, batch, cache, begun>>
    BY <1>1, <1>8 DEF Execute, Fault
  <2>2. /\ inv' \in [Clients -> InvocationState]
        /\ \A d \in Clients : d # c => inv'[d] = inv[d] /\ CallShape(c)'
    BY <1>1, <2>1, IdleAgain, Zenon
  <2>3. ASSUME NEW d \in Clients PROVE CallShape(d)'
    BY <1>1, <2>1, IdleAgain, Zenon DEF ShapeInv, CallShape
  <2>4. ClusterTypeOK'
    BY <1>1, <1>8, <2>1, <2>2, <2>3, ExecuteFields, Zenon DEF ClusterTypeOK, CallShape
  <2>5. ASSUME NEW s \in Servers PROVE IsFiniteSet(Activated(s)')
    <3>1. Activated(s)' \subseteq Activated(s) \cup {inv[c].ref.key}
      BY <1>8, ExecuteFields, Zenon DEF Activated
    <3>2. IsFiniteSet(Activated(s) \cup {inv[c].ref.key})
      BY FS_AddElement, Zenon DEF ShapeInv
    <3> QED
      BY <3>1, <3>2, FS_Subset, Zenon
  <2> QED
    BY <2>1, <2>3, <2>4, <2>5, Zenon DEF ShapeInv, CacheShape
<1> QED
  BY <1>2, <1>3, <1>4, <1>5, <1>6, <1>7, <1>8, Zenon DEF ClientStep

\* Initially nothing is registered, nothing is cached and nobody calls.
LEMMA ShapeInit == InitCluster => ShapeInv
<1> SUFFICES ASSUME InitCluster PROVE ShapeInv
  BY Zenon
<1>1. TypeOK
  BY DEF InitCluster, TypeOK, ModuleState, ServerState, ActorState, NoServerState, NoActorState
<1>2. \A c \in Clients : inv[c] = Idle
  BY Zenon DEF InitCluster
<1>3. ClusterTypeOK
  BY <1>1, <1>2, IdleFields, Zenon DEF InitCluster, ClusterTypeOK, NoResult, NoInstance
<1>4. \A c \in Clients : CallShape(c)
  BY <1>2, IdleFields, Zenon DEF CallShape
<1>5. \A s \in Servers, a \in Actors : CacheShape(s, a)
  BY Zenon DEF InitCluster, CacheShape, NoReference
<1>6. ASSUME NEW s \in Servers PROVE IsFiniteSet(Activated(s))
  <2>1. Activated(s) = {}
    BY DEF InitCluster, Activated, NoInstance
  <2> QED
    BY <2>1, FS_EmptySet, Zenon
<1> QED
  BY <1>3, <1>4, <1>5, <1>6, Zenon DEF ShapeInv

\* Every step of the cluster keeps the shape of its state.
LEMMA ShapeStep == ShapeInv /\ [ClusterNext]_allVars => ShapeInv'
<1> SUFFICES ASSUME ShapeInv, [ClusterNext]_allVars PROVE ShapeInv'
  BY Zenon
<1>1. TypeOK'
  BY RegistrySteps, TypeStep, Zenon DEF ShapeInv, ClusterTypeOK
<1>2. CASE UNCHANGED <<envVars, clientVars, faults>>
  BY <1>1, <1>2, Zenon
     DEF ShapeInv, ClusterTypeOK, CallShape, CacheShape, Activated, envVars, clientVars
<1>3. ASSUME NEW s \in Servers, EnvStep(s) PROVE ShapeInv'
  BY <1>1, <1>3, ShapeEnv, ShapeShare, ShapeCrash, Zenon DEF EnvStep
<1>4. ASSUME NEW c \in Clients, ClientStep(c) PROVE ShapeInv'
  BY <1>1, <1>4, ShapeClient, Zenon
<1> QED
  BY <1>2, <1>3, <1>4, Zenon DEF ClusterNext, RegistryStep, allVars

-----------------------------------------------------------------------------
\* What a step does to the records of the servers: nothing, or one heartbeat,
\* at a stamp no earlier than the server's last one.
HeartbeatOf(s, vs) ==
    /\ vs \in Nat /\ vs <= clock /\ servers[s].wrote <= vs /\ clock' = clock + 1
    /\ servers'[s].version = NextServerVersion(s, vs) /\ servers'[s].last = vs
    /\ \A t \in Servers : t # s => servers'[t] = servers[t]
    /\ UNCHANGED actors

LEMMA ServersMove ==
    ASSUME TypeOK, [AnyNext]_vars
    PROVE  \/ UNCHANGED servers /\ clock' \in {clock, clock + 1}
           \/ \E s \in Servers, vs \in ReadVersions : HeartbeatOf(s, vs)
<1>1. ASSUME NEW s \in Servers, NEW load \in Nat, NEW vs \in ReadVersions,
             Heartbeat(s, load, vs)
      PROVE  HeartbeatOf(s, vs)
  <2>1. vs \in Nat /\ vs <= clock
    BY ReadVersionsType, Zenon
  <2> QED
    BY <1>1, <2>1, Zenon DEF Heartbeat, HeartbeatOf, Commit, CommitVersion, TypeOK
<1> QED
  BY <1>1, Zenon DEF AnyNext, Tick, RegisterModule, CreateActor, IncGeneration, EnsureActivation,
              NewActivation, Commit, CommitVersion, vars

\* A result that was no newer than the registry stays so, and a lease that is
\* over stays over.
LEMMA LeaseMove ==
    ASSUME RegistryInv, [AnyNext]_vars, NEW s \in Servers,
           NEW x \in [vs : Nat, version : Nat], LeaseOK(s, x)
    PROVE  LeaseOK(s, x)'
<1>1. /\ TypeOK /\ TypeOK' /\ TTL \in Nat /\ Drift \in Nat /\ clock \in Nat
      /\ servers[s].version \in Nat /\ servers[s].last \in Nat /\ servers[s].wrote \in Nat
      /\ servers[s].last <= servers[s].wrote
  BY TypeStep, RegistryAssumption, ClusterAssumption
     DEF RegistryInv, TypeOK, ServerState, StampsDoNotGoBack
<1>2. CASE UNCHANGED servers /\ clock' \in {clock, clock + 1}
  BY <1>1, <1>2 DEF LeaseOK
<1>3. ASSUME NEW t \in Servers, NEW vs \in ReadVersions, HeartbeatOf(t, vs)
      PROVE  LeaseOK(s, x)'
  <2>1. CASE t # s
    BY <1>1, <1>3, <2>1 DEF LeaseOK, HeartbeatOf
  <2>2. CASE t = s
    <3>1. /\ vs \in Nat /\ vs <= clock /\ servers[s].last <= vs /\ clock' = clock + 1
          /\ servers'[s].version = NextServerVersion(s, vs) /\ servers'[s].last = vs
      BY <1>1, <1>3, <2>2 DEF HeartbeatOf
    <3> QED
      BY <1>1, <3>1, RegistryAssumption DEF LeaseOK, NextServerVersion
  <2> QED
    BY <2>1, <2>2, Zenon
<1> QED
  BY <1>1, <1>2, <1>3, ServersMove, Zenon

\* The result of a heartbeat that has just been committed.
LEMMA LeaseSent ==
    ASSUME ShapeInv, RegistryInv, NEW s \in Servers, SendHeartbeat(s)
    PROVE  LeaseOK(s, answer[s])'
<1>1. PICK vs \in ReadVersions, d \in 0..Drift :
        /\ Heartbeat(s, NumActivated(s), vs)
        /\ answer' = [answer EXCEPT ![s] = HeartbeatResult(s, vs, vs + d)]
  BY Zenon DEF SendHeartbeat
<1>2. /\ TypeOK /\ Drift \in Nat /\ vs \in Nat /\ d \in Nat /\ d <= Drift
      /\ NextServerVersion(s, vs) \in Nat
  <2>1. TypeOK /\ Drift \in Nat
    BY ClusterAssumption DEF RegistryInv
  <2>2. vs \in Nat
    BY <2>1, ReadVersionsType, Zenon
  <2> QED
    BY <2>1, <2>2, NextServerVersionGrows
<1>3. answer'[s].vs = vs + d /\ answer'[s].version = NextServerVersion(s, vs)
  BY <1>1, Zenon DEF HeartbeatResult, ShapeInv, ClusterTypeOK
<1>4. servers'[s].version = NextServerVersion(s, vs) /\ servers'[s].last = vs
  BY <1>1, <1>2, Zenon DEF Heartbeat, TypeOK
<1> QED
  BY <1>2, <1>3, <1>4 DEF LeaseOK

\* The zero result is behind any server.
LEMMA LeaseOfNone ==
    ASSUME TypeOK, NEW s \in Servers
    PROVE  LeaseOK(s, NoResult)
  BY ClusterAssumption DEF LeaseOK, NoResult, TypeOK, ServerState

\* What a step may do to the results an environment has and waits for.
LEMMA ResultsMove ==
    ASSUME ShapeInv, [ClusterNext]_allVars, NEW s \in Servers
    PROVE  /\ env'[s] \in {env[s], answer[s], NoResult}
           /\ answer'[s] \in {answer[s], NoResult} \/ SendHeartbeat(s)
<1>1. ClusterTypeOK
  BY Zenon DEF ShapeInv
<1>2. CASE UNCHANGED <<env, answer>>
  BY <1>2, Zenon
<1>3. ASSUME NEW t \in Servers, EnvStep(t) PROVE
           /\ env'[s] \in {env[s], answer[s], NoResult}
           /\ answer'[s] \in {answer[s], NoResult} \/ SendHeartbeat(s)
  BY <1>1, <1>3, Zenon DEF EnvStep, SendHeartbeat, InstallHeartbeat, LoseHeartbeat, Crash,
                           ReadStamp, ShareStamp, CollectActor, ExpireCache, ClusterTypeOK
<1> QED
  BY <1>2, <1>3, Zenon DEF ClusterNext, RegistryStep, ClientStep, BeginInvocation, CacheHit,
                           CacheMiss, FillCache, Admit, Fail, Execute, envVars, allVars

\* Whatever is lost, late or restarted, no environment is ahead of the registry.
LEMMA LeaseInvStep ==
    ASSUME ShapeInv, RegistryInv, LeaseInv, [ClusterNext]_allVars
    PROVE  LeaseInv'
<1>1. TypeOK /\ TypeOK' /\ [AnyNext]_vars /\ ClusterTypeOK
  BY RegistrySteps, TypeStep, Zenon DEF ShapeInv, RegistryInv
<1> SUFFICES ASSUME NEW s \in Servers
             PROVE  LeaseOK(s, env[s])' /\ LeaseOK(s, answer[s])'
  BY Zenon DEF LeaseInv
<1>2. PICK x, y, z : x = env[s] /\ y = answer[s] /\ z = NoResult
  BY Zenon
<1>3. \A r \in {x, y, z} : r \in [vs : Nat, version : Nat] /\ LeaseOK(s, r)
  BY <1>1, <1>2, ClusterFields, LeaseOfNone DEF LeaseInv, NoResult
<1>4. LeaseOK(s, x)' /\ LeaseOK(s, y)' /\ LeaseOK(s, z)'
  BY <1>1, <1>3, LeaseMove, Zenon
<1>5. LeaseOK(s, env[s])'
  BY <1>2, <1>4, ResultsMove, Zenon DEF LeaseOK
<1>6. LeaseOK(s, answer[s])'
  <2>1. CASE SendHeartbeat(s)
    BY <2>1, LeaseSent, Zenon
  <2>2. CASE answer'[s] \in {y, z}
    BY <1>4, <2>2, Zenon DEF LeaseOK
  <2> QED
    BY <1>2, <2>1, <2>2, ResultsMove, Zenon
<1> QED
  BY <1>5, <1>6, Zenon

-----------------------------------------------------------------------------
\* EnsureActivation moves actor k from a server that is dead at vs to s.
Moved(k, s, vs) ==
    /\ UNCHANGED servers /\ clock' = clock + 1
    /\ actors'[k].gen # 0
    /\ actors'[k].epoch = actors[k].epoch + 1 /\ actors'[k].server = s
    /\ \A j \in ActorKeys : j # k => actors'[j] = actors[j]
    /\ actors[k].server # NoServer => ~Alive(actors[k].server, vs)

\* What NewActivation does, and the reference it returns.
LEMMA ActivationMoves ==
    ASSUME TypeOK, Unborn, NEW k \in ActorKeys, NEW vs \in ReadVersions, NEW ref,
           NewActivation(k, vs, ref)
    PROVE  \E s \in Servers :
               /\ Moved(k, s, vs) /\ Alive(s, vs)
               /\ ref.key = k /\ ref.server = s /\ ref.version = servers[s].version
               /\ ref.epoch = actors[k].epoch + 1
<1> DEFINE ra == RegisteredActor(k)
<1>1. ra.epoch = actors[k].epoch /\ ra.server = actors[k].server /\ ra.gen # 0
  BY DEF Unborn, RegisteredActor, CreatedActor, NoActorState
<1>2. PICK s \in Servers :
        /\ Alive(s, vs) /\ ref = MakeReference(k, s, ra.epoch + 1)
        /\ actors' = [actors EXCEPT
                        ![k] = [gen |-> ra.gen, server |-> s, version |-> servers[s].version,
                                epoch |-> ra.epoch + 1, wrote |-> CommitVersion]]
  BY Zenon DEF NewActivation, LeastLoaded
<1>3. /\ UNCHANGED servers /\ clock' = clock + 1 /\ ~ActivationAlive(ra, vs)
  BY Zenon DEF NewActivation, Commit, CommitVersion
<1>4. /\ ref.key = k /\ ref.server = s /\ ref.version = servers[s].version
      /\ ref.epoch = ra.epoch + 1
  BY <1>2, Zenon DEF MakeReference
<1> HIDE DEF ra
<1>5. /\ actors'[k].gen = ra.gen /\ actors'[k].epoch = ra.epoch + 1 /\ actors'[k].server = s
      /\ \A j \in ActorKeys : j # k => actors'[j] = actors[j]
  BY <1>2, Zenon DEF TypeOK
<1> QED
  BY <1>1, <1>2, <1>3, <1>4, <1>5, Zenon DEF Moved, ActivationAlive

\* What a step does to the activations: nothing, or it moves one actor.
LEMMA ActorsMove ==
    ASSUME TypeOK, Unborn, [ServiceNext]_vars
    PROVE  \/ \A k \in ActorKeys : /\ actors'[k].epoch = actors[k].epoch
                                   /\ actors'[k].server = actors[k].server
                                   /\ actors'[k].gen = 0 => actors[k].gen = 0
           \/ \E k \in ActorKeys, s \in Servers, vs \in ReadVersions : Moved(k, s, vs)
<1>1. ASSUME NEW k \in ActorKeys, IncGeneration(k), NEW j \in ActorKeys
      PROVE  /\ actors'[j].epoch = actors[j].epoch /\ actors'[j].server = actors[j].server
             /\ actors'[j].gen = 0 => actors[j].gen = 0
  <2>1. PICK r : r = [actors[k] EXCEPT !.gen = @ + 1, !.wrote = CommitVersion]
    BY Zenon
  <2>2. actors[k] \in ActorState /\ actors[k].gen # 0
    BY <1>1 DEF TypeOK, IncGeneration
  <2>3. r.server = actors[k].server /\ r.epoch = actors[k].epoch /\ r.gen # 0
    <3>1. /\ r.server = actors[k].server /\ r.epoch = actors[k].epoch
          /\ r.gen = actors[k].gen + 1
      BY <2>1, <2>2, Zenon DEF ActorState
    <3>2. actors[k].gen \in Nat
      BY <2>2, Zenon DEF ActorState
    <3> QED
      BY <3>1, <3>2, SMTT(30)
  <2>4. actors' = [actors EXCEPT ![k] = r]
    BY <1>1, <2>1, Zenon DEF IncGeneration
  <2>5. CASE j = k
    BY <2>2, <2>3, <2>4, <2>5, Zenon DEF TypeOK
  <2>6. CASE j # k
    BY <2>4, <2>6, Zenon DEF TypeOK
  <2> QED
    BY <2>5, <2>6, Zenon
<1>2. ASSUME NEW k \in ActorKeys, NEW ref \in References(k), EnsureActivation(k, ref)
      PROVE  UNCHANGED actors \/ \E s \in Servers, vs \in ReadVersions : Moved(k, s, vs)
  BY <1>2, ActivationMoves, Zenon DEF EnsureActivation, vars
<1>3. CASE UNCHANGED actors
  BY <1>3, Zenon
<1> QED
  BY <1>1, <1>2, <1>3, Zenon DEF ServiceNext, Tick, Heartbeat, vars

\* A store without lag: references stay current or outlived, since a server
\* that has been dead is given a higher version before it lives again.
LEMMA RefMove ==
    ASSUME MaxLag = 0, RegistryInv, RefInv, [ServiceNext]_vars, [AnyNext]_vars,
           NEW r \in Reference \cup {NoReference}, RefOK(r)
    PROVE  RefOK(r)'
<1> SUFFICES ASSUME r.server # NoServer PROVE RefOK(r)'
  BY Zenon DEF RefOK
<1>1. r.key \in ActorKeys /\ r.server \in Servers /\ r.version \in Nat /\ r.epoch \in Nat
  BY RealReference, Zenon
<1>2. /\ TypeOK /\ TypeOK' /\ Unborn /\ TTL \in Nat /\ TTL > 0 /\ clock \in Nat
      /\ servers[r.server].version \in Nat /\ servers[r.server].last \in Nat
      /\ actors[r.key].epoch \in Nat
  BY <1>1, TypeStep, RegistryAssumption DEF RegistryInv, RefInv, TypeOK, ServerState, ActorState
<1>3. /\ r.version > 0 /\ r.version <= servers[r.server].version
      /\ r.epoch <= actors[r.key].epoch
      /\ r.epoch = actors[r.key].epoch => r.server = actors[r.key].server
      /\ r.epoch < actors[r.key].epoch => Outlived(r)
  BY Zenon DEF RefOK
<1>4. /\ servers'[r.server].version \in Nat
      /\ servers'[r.server].version >= servers[r.server].version
      /\ Outlived(r) => Outlived(r)'
  <2>1. CASE UNCHANGED servers /\ clock' \in {clock, clock + 1}
    BY <1>2, <2>1 DEF Outlived
  <2>2. ASSUME NEW t \in Servers, NEW vs \in ReadVersions, HeartbeatOf(t, vs)
        PROVE  /\ servers'[r.server].version \in Nat
               /\ servers'[r.server].version >= servers[r.server].version
               /\ Outlived(r) => Outlived(r)'
    <3>1. CASE t # r.server
      BY <1>1, <1>2, <2>2, <3>1 DEF HeartbeatOf, Outlived
    <3>2. CASE t = r.server
      <4>1. /\ vs = clock /\ clock' = clock + 1 /\ servers'[r.server].last = clock
            /\ servers'[r.server].version = NextServerVersion(r.server, clock)
        BY <1>2, <2>2, <3>2, ReadsAtClock, Zenon DEF HeartbeatOf
      <4> QED
        BY <1>1, <1>2, <1>3, <4>1, SMTT(30) DEF NextServerVersion, Outlived
    <3> QED
      BY <3>1, <3>2, Zenon
  <2> QED
    BY <1>2, <2>1, <2>2, ServersMove, Zenon
<1>5. CASE \A k \in ActorKeys : /\ actors'[k].epoch = actors[k].epoch
                               /\ actors'[k].server = actors[k].server
  BY <1>1, <1>2, <1>3, <1>4, <1>5, SMTT(30) DEF RefOK
<1>6. ASSUME NEW k \in ActorKeys, NEW s \in Servers, NEW vs \in ReadVersions, Moved(k, s, vs)
      PROVE  RefOK(r)'
  <2>1. CASE r.key # k
    BY <1>1, <1>2, <1>3, <1>4, <1>6, <2>1, Zenon DEF RefOK, Moved
  <2>2. CASE r.key = k
    <3>1. actors'[r.key].epoch = actors[r.key].epoch + 1
      BY <1>6, <2>2, Zenon DEF Moved
    <3>2. CASE r.epoch < actors[r.key].epoch
      BY <1>1, <1>2, <1>3, <1>4, <3>1, <3>2, SMTT(30) DEF RefOK
    <3>3. CASE r.epoch = actors[r.key].epoch
      <4>1. vs = clock /\ UNCHANGED servers /\ clock' = clock + 1 /\ ~Alive(r.server, vs)
        BY <1>2, <1>3, <1>6, <2>2, <3>3, ReadsAtClock, Zenon DEF Moved
      <4>2. Outlived(r)'
        BY <1>1, <1>2, <1>3, <4>1, SMTT(30) DEF Alive, Outlived
      <4> QED
        BY <1>1, <1>2, <1>3, <1>4, <3>1, <3>3, <4>2, SMTT(30) DEF RefOK
    <3> QED
      BY <1>1, <1>2, <1>3, <3>2, <3>3
  <2> QED
    BY <2>1, <2>2, Zenon
<1> QED
  BY <1>2, <1>5, <1>6, ActorsMove, Zenon

\* The reference EnsureActivation returns is to the activation that is current.
LEMMA RefNew ==
    ASSUME TypeOK, Unborn, NEW k \in ActorKeys, NEW ref \in References(k),
           EnsureActivation(k, ref)
    PROVE  RefOK(ref)' /\ ref.epoch = actors'[k].epoch /\ ref.epoch >= actors[k].epoch
<1>1. ref \in Reference /\ ref.key = k /\ ref.server # NoServer
  BY ReferenceFields, Zenon
<1>2. actors[k].epoch \in Nat
  BY Zenon DEF TypeOK, ActorState
<1>3. PICK vs \in ReadVersions : \/ KeptReference(k, vs, ref) /\ UNCHANGED vars
                                 \/ NewActivation(k, vs, ref)
  BY Zenon DEF EnsureActivation
<1>4. CASE KeptReference(k, vs, ref) /\ UNCHANGED vars
  <2>1. /\ ref.server = actors[k].server /\ ref.epoch = actors[k].epoch
        /\ ref.version = servers[ref.server].version
    BY <1>4, Zenon DEF KeptReference, MakeReference
  <2>2. RegisteredActor(k).server = actors[k].server
    BY Zenon DEF Unborn, RegisteredActor, CreatedActor, NoActorState
  <2>3. servers[ref.server].version > 0
    BY <1>4, <2>1, <2>2, Zenon DEF KeptReference, ActivationAlive, Alive
  <2>4. ref.server \in Servers
    BY <1>1, Zenon DEF Reference
  <2>5. servers[ref.server].version \in Nat
    BY <2>4, Zenon DEF TypeOK, ServerState
  <2> QED
    BY <1>1, <1>2, <1>4, <2>1, <2>3, <2>5, SMTT(30) DEF RefOK, vars
<1>5. CASE NewActivation(k, vs, ref)
  <2>1. PICK s \in Servers :
           /\ Moved(k, s, vs) /\ Alive(s, vs)
           /\ ref.key = k /\ ref.server = s /\ ref.version = servers[s].version
           /\ ref.epoch = actors[k].epoch + 1
    BY <1>5, ActivationMoves
  <2>2. servers[s].version \in Nat /\ servers[s].version > 0
    BY <2>1, Zenon DEF TypeOK, ServerState, Alive
  <2> QED
    BY <1>2, <2>1, <2>2, SMTT(30) DEF RefOK, Moved
<1> QED
  BY <1>3, <1>4, <1>5, Zenon

\* Where a step gets the references that are cached or in use after it: they
\* were there before, or EnsureActivation has just returned one of them.
LEMMA RefsMove ==
    ASSUME ShapeInv, [ClusterNext]_allVars
    PROVE  \/ AllReferences' \subseteq AllReferences
           \/ \E k \in ActorKeys : \E ref \in References(k) :
                /\ EnsureActivation(k, ref)
                /\ AllReferences' \subseteq AllReferences \cup {ref}
<1>1. ClusterTypeOK
  BY Zenon DEF ShapeInv
<1>2. ASSUME NEW ref,
             \A s \in Servers, a \in Actors : cache'[s][a] \in AllReferences \cup {ref},
             \A c \in Clients : inv'[c].ref \in AllReferences \cup {ref}
      PROVE  AllReferences' \subseteq AllReferences \cup {ref}
  BY <1>2, SMTT(30) DEF AllReferences
<1>3. /\ \A s \in Servers, a \in Actors : cache[s][a] \in AllReferences
      /\ \A c \in Clients : inv[c].ref \in AllReferences
      /\ NoReference \in AllReferences /\ Idle.ref = NoReference
  BY IdleFields DEF AllReferences
<1>4. ASSUME UNCHANGED <<cache, inv>> PROVE AllReferences' \subseteq AllReferences
  BY <1>4 DEF AllReferences
<1>5. ASSUME NEW s \in Servers, EnvStep(s) PROVE AllReferences' \subseteq AllReferences
  <2>1. CASE Crash(s)
    <3>1. \A t \in Servers, a \in Actors : cache'[t][a] \in {cache[t][a], NoReference}
      BY <1>1, <2>1, Zenon DEF Crash, ClusterTypeOK
    <3>2. \A c \in Clients : inv'[c].ref \in {inv[c].ref, NoReference}
      BY <1>3, <2>1, CrashFields, Zenon
    <3> QED
      BY <1>2, <1>3, <3>1, <3>2, Zenon
  <2>2. CASE ShareStamp(s)
    <3>1. \A c \in Clients : inv'[c].ref = inv[c].ref
      BY <2>2, ShareFields, Zenon
    <3> QED
      BY <1>2, <1>3, <2>2, <3>1, Zenon DEF ShareStamp
  <2>3. ASSUME NEW b \in Actors, ExpireCache(s, b) PROVE AllReferences' \subseteq AllReferences
    <3>1. \A t \in Servers, a \in Actors : cache'[t][a] \in {cache[t][a], NoReference}
      BY <1>1, <2>3, Zenon DEF ExpireCache, ClusterTypeOK
    <3>2. \A t \in Servers, a \in Actors : cache'[t][a] \in AllReferences \cup {NoReference}
      BY <1>3, <3>1, Zenon
    <3>3. \A c \in Clients : inv'[c].ref \in AllReferences \cup {NoReference}
      BY <1>3, <2>3, Zenon DEF ExpireCache, clientVars
    <3>4. AllReferences' \subseteq AllReferences \cup {NoReference}
      BY <1>2, <3>2, <3>3, Zenon
    <3> QED
      BY <1>3, <3>4, Zenon
  <2> QED
    BY <1>4, <1>5, <2>1, <2>2, <2>3, Zenon
       DEF EnvStep, SendHeartbeat, InstallHeartbeat, LoseHeartbeat,
                                        ReadStamp, CollectActor, clientVars
<1>6. ASSUME NEW c \in Clients, ClientStep(c)
      PROVE  \/ AllReferences' \subseteq AllReferences
             \/ \E k \in ActorKeys : \E ref \in References(k) :
                  EnsureActivation(k, ref) /\ AllReferences' \subseteq AllReferences \cup {ref}
  <2>1. CallShape(c) /\ inv[c] \in InvocationState
    BY ClusterFields, Zenon DEF ShapeInv
  <2>2. ASSUME NEW s \in Home[c], NEW k \in ActorKeys, BeginInvocation(c, s, k)
        PROVE  AllReferences' \subseteq AllReferences
    <3>1. \A d \in Clients : inv'[d].ref \in {inv[d].ref, NoReference}
      BY <1>1, <2>2, BeginFields, ClusterAssumption, Zenon
    <3> QED
      BY <1>2, <1>3, <2>2, <3>1, Zenon DEF BeginInvocation, envVars
  <2>3. ASSUME CacheHit(c) PROVE AllReferences' \subseteq AllReferences
    <3>1. inv[c].key \in ActorKeys /\ inv[c].via \in Servers
      BY <2>1, <2>3, Zenon DEF CacheHit, CallShape
    <3>2. CacheKey(inv[c].key) \in Actors
      BY <3>1, Zenon DEF CacheKey, ActorKeys
    <3>3. PICK ref : ref = cache[inv[c].via][CacheKey(inv[c].key)]
      BY Zenon
    <3>4. ref \in AllReferences /\ ref \in Reference
      BY <1>1, <1>3, <2>3, <3>1, <3>2, <3>3, ClusterFields, RealReference, Zenon DEF CacheHit
    <3>5. \A d \in Clients : inv'[d].ref \in {inv[d].ref, ref}
      BY <1>1, <2>3, <3>3, <3>4, ReferFields, ZenonT(30) DEF CacheHit
    <3> QED
      BY <1>2, <1>3, <2>3, <3>4, <3>5, Zenon DEF CacheHit, envVars
  <2>4. CASE CacheMiss(c)
    <3>1. inv[c].key \in ActorKeys
      BY <2>1, <2>4, Zenon DEF CacheMiss, CallShape
    <3>2. PICK ref \in References(inv[c].key) :
            /\ EnsureActivation(inv[c].key, ref)
            /\ inv' = [inv EXCEPT ![c].pc = "fill", ![c].ref = ref]
      BY <2>4, Zenon DEF CacheMiss
    <3>3. ref \in Reference
      BY <1>1, <3>1, ReferenceFields, Zenon DEF ClusterTypeOK
    <3>4. \A d \in Clients : inv'[d].ref \in {inv[d].ref, ref}
      BY <1>1, <3>2, <3>3, ReferFields, Zenon
    <3>5. AllReferences' \subseteq AllReferences \cup {ref}
      BY <1>2, <1>3, <2>4, <3>4, Zenon DEF CacheMiss, envVars
    <3> QED
      BY <3>1, <3>2, <3>5, Zenon
  <2>5. ASSUME FillCache(c) PROVE AllReferences' \subseteq AllReferences
    <3>1. inv[c].key \in ActorKeys /\ inv[c].via \in Servers
      BY <2>1, <2>5, Zenon DEF FillCache, CallShape
    <3>2. CacheKey(inv[c].key) \in Actors
      BY <3>1, Zenon DEF CacheKey, ActorKeys
    <3>3. \A t \in Servers, a \in Actors : cache'[t][a] \in {cache[t][a], inv[c].ref}
      BY <1>1, <2>5, <3>1, <3>2, Zenon DEF FillCache, ClusterTypeOK
    <3>4. \A d \in Clients : inv'[d].ref = inv[d].ref
      BY <1>1, <2>5, MoveFields, Zenon DEF FillCache
    <3>5. \A t \in Servers, a \in Actors : cache'[t][a] \in AllReferences \cup {NoReference}
      BY <1>3, <3>3, Zenon
    <3>6. \A d \in Clients : inv'[d].ref \in AllReferences \cup {NoReference}
      BY <1>3, <3>4, Zenon
    <3>7. AllReferences' \subseteq AllReferences \cup {NoReference}
      BY <1>2, <3>5, <3>6, Zenon
    <3> QED
      BY <1>3, <3>7, Zenon
  <2>6. ASSUME Admit(c) PROVE AllReferences' \subseteq AllReferences
    <3>1. \A d \in Clients : inv'[d].ref = inv[d].ref
      BY <1>1, <2>6, MoveFields, Zenon DEF Admit
    <3> QED
      BY <1>2, <1>3, <2>6, <3>1, Zenon DEF Admit, envVars
  <2>7. ASSUME Fail(c) \/ Execute(c) PROVE AllReferences' \subseteq AllReferences
    <3>1. Return(c) /\ UNCHANGED cache
      BY <2>7, Zenon DEF Fail, Execute, envVars
    <3>2. \A d \in Clients : inv'[d].ref \in {inv[d].ref, NoReference}
      BY <1>1, <1>3, <3>1, IdleAgain, Zenon
    <3> QED
      BY <1>2, <1>3, <3>1, <3>2, Zenon
  <2> QED
    BY <1>6, <2>2, <2>3, <2>4, <2>5, <2>6, <2>7, Zenon DEF ClientStep
<1> QED
  BY <1>4, <1>5, <1>6, Zenon DEF ClusterNext, RegistryStep, envVars, clientVars, allVars

\* Everything cached or in use is typed.
LEMMA RefsType ==
    ASSUME ClusterTypeOK
    PROVE  AllReferences \subseteq Reference \cup {NoReference}
  BY DEF AllReferences, ClusterTypeOK, InvocationState

\* References stay current or outlived.
LEMMA RefInvStep ==
    ASSUME MaxLag = 0, ShapeInv, RegistryInv, RefInv, [ClusterNext]_allVars
    PROVE  RefInv'
<1>1. ClusterTypeOK /\ TypeOK /\ [ServiceNext]_vars /\ [AnyNext]_vars /\ Unborn
  BY RegistrySteps, Zenon DEF ShapeInv, RegistryInv, RefInv
<1>2. Unborn'
  BY <1>1, ActorsMove, Zenon DEF Unborn, Moved
<1>3. ASSUME NEW r \in AllReferences PROVE RefOK(r)'
  BY <1>1, <1>3, RefsType, RefMove, Zenon DEF RefInv
<1>4. ASSUME NEW k \in ActorKeys, NEW ref \in References(k), EnsureActivation(k, ref)
      PROVE  RefOK(ref)'
  BY <1>1, <1>4, RefNew, Zenon
<1>5. \A r \in AllReferences' : RefOK(r)'
  BY <1>3, <1>4, RefsMove, Zenon
<1> QED
  BY <1>2, <1>5, Zenon DEF RefInv

\* A reference to an activation that is no longer current is served by nobody
\* at a stamp taken now.
LEMMA DeadNow ==
    ASSUME ShapeInv, RegistryInv, LeaseInv, NEW r \in Reference \cup {NoReference}, RefOK(r),
           r.server # NoServer, r.epoch < actors[r.key].epoch
    PROVE  Dead(r, clock)
<1>1. r.server \in Servers /\ r.version \in Nat
  BY RealReference, Zenon
<1>2. /\ TypeOK /\ TTL \in Nat /\ Drift \in Nat /\ clock \in Nat
      /\ servers[r.server].version \in Nat /\ servers[r.server].last \in Nat
  BY <1>1, RegistryAssumption, ClusterAssumption DEF RegistryInv, TypeOK, ServerState
<1> SUFFICES ASSUME NEW x \in {env[r.server], answer[r.server]}, x.version = r.version
             PROVE  x.vs + TTL < clock + Drift
  BY Zenon DEF Dead
<1>3. LeaseOK(r.server, x) /\ x.vs \in Nat
  BY <1>1, ClusterFields, Zenon DEF LeaseInv, ShapeInv
<1>4. r.version > 0 /\ r.version <= servers[r.server].version /\ Outlived(r)
  BY Zenon DEF RefOK
<1> QED
  BY <1>1, <1>2, <1>3, <1>4 DEF LeaseOK, Outlived

-----------------------------------------------------------------------------
\* Of the references to an actor, those served at stamp vs are to one server.
ServesAlone(vs) ==
    \A k \in ActorKeys : \A r1, r2 \in ReferencesTo(k) :
        Admits(r1.server, vs, r1) /\ Admits(r2.server, vs, r2) => r1.server = r2.server

\* LeaseInv, with what it needs, and RefInv on top of it.
ServiceInv == ShapeInv /\ RegistryInv /\ LeaseInv

\* Nothing has happened yet.
LEMMA ServiceInit == InitCluster => ServiceInv /\ RefInv
<1> SUFFICES ASSUME InitCluster PROVE ServiceInv /\ RefInv
  BY Zenon
<1>1. ShapeInv /\ TypeOK
  BY ShapeInit, Zenon DEF ShapeInv, ClusterTypeOK
<1>2. RegistryInv
  BY <1>1, SMTT(30) DEF InitCluster, RegistryInv, StampsDoNotGoBack, ActivationsAreRegistered,
              NoServerState, NoActorState
<1>3. LeaseInv
  <2>1. \A s \in Servers : env[s] = NoResult /\ answer[s] = NoResult
    BY Zenon DEF InitCluster
  <2> QED
    BY <1>1, <2>1, LeaseOfNone, Zenon DEF LeaseInv
<1>4. RefInv
  <2>1. Unborn
    BY Zenon DEF InitCluster, Unborn, NoActorState
  <2>2. AllReferences \subseteq {NoReference}
    BY IdleFields DEF InitCluster, AllReferences
  <2> QED
    BY <2>1, <2>2 DEF RefInv, RefOK, NoReference
<1> QED
  BY <1>1, <1>2, <1>3, <1>4, Zenon DEF ServiceInv

\* Every step keeps the leases behind the registry, whatever the lag.
LEMMA ServiceStep == ServiceInv /\ [ClusterNext]_allVars => ServiceInv'
  BY ShapeStep, RegistrySteps, RegistryInvStep, LeaseInvStep, Zenon DEF ServiceInv

\* The state of environments and callers has its types, and a request that is
\* sent carries a stamp and an address (environment.go:385), for any constants.
THEOREM ClusterTypeCorrect == ClusterSpec => []ClusterTypeOK
<1>1. ShapeInv => ClusterTypeOK
  BY Zenon DEF ShapeInv
<1> QED
  BY <1>1, ShapeInit, ShapeStep, PTL DEF ClusterSpec

\* In a store that gives a transaction one stamp however often it asks, as
\* FoundationDB does, an environment never believes in a later heartbeat
\* (environment.go:550) than the registry knows of, whatever the lag of reads,
\* the answers lost and the crashes.
THEOREM LeaseSound == ASSUME Drift = 0 PROVE ClusterSpec => []LeaseTrailsRegistry
<1>1. ServiceInv => LeaseTrailsRegistry
  <2> SUFFICES ASSUME ServiceInv, NEW s \in Servers, NEW r \in {env[s], answer[s]}
               PROVE  /\ r.version <= servers[s].version
                      /\ r.version = servers[s].version => r.vs <= servers[s].last
    BY Zenon DEF LeaseTrailsRegistry
  <2>1. LeaseOK(s, r) /\ servers[s].last \in Nat
    BY Zenon DEF ServiceInv, LeaseInv, RegistryInv, TypeOK, ServerState
  <2> QED
    BY <2>1 DEF LeaseOK
<1> QED
  BY <1>1, ServiceInit, ServiceStep, PTL DEF ClusterSpec

\* A reference that is served at clock + Drift is to the current activation.
LEMMA ServedIsCurrent ==
    ASSUME ServiceInv, RefInv, NEW k \in ActorKeys, NEW r \in ReferencesTo(k),
           Admits(r.server, clock + Drift, r)
    PROVE  r.server = actors[k].server
<1>1. r \in AllReferences /\ r.key = k /\ r.server # NoServer
  BY DEF ReferencesTo, AllReferences
<1>2. r \in Reference \cup {NoReference} /\ RefOK(r)
  BY <1>1, RefsType, Zenon DEF RefInv, ServiceInv, ShapeInv
<1>3. r.server \in Servers /\ r.epoch \in Nat
  BY <1>1, <1>2, RealReference, Zenon
<1>4. /\ actors[k].epoch \in Nat /\ clock \in Nat /\ Drift \in Nat /\ TTL \in Nat
      /\ env[r.server].vs \in Nat
  BY <1>3, RegistryAssumption, ClusterAssumption, ClusterFields, SMTT(30)
     DEF ServiceInv, ShapeInv, RegistryInv, TypeOK, ActorState
<1>5. ~(r.epoch < actors[k].epoch)
  <2>1. ASSUME r.epoch < actors[k].epoch PROVE Dead(r, clock)
    BY <1>1, <1>2, <2>1, DeadNow, Zenon DEF ServiceInv
  <2> QED
    BY <1>4, <2>1 DEF Dead, Admits
<1> QED
  BY <1>1, <1>2, <1>3, <1>4, <1>5 DEF RefOK

\* In a store without lag, once the drift of stamps has passed, the references
\* to an actor that environments would serve lead to a single environment:
\* localKV, whose stamps drift, included.
THEOREM ServedOnceDriftIsOver ==
    ASSUME MaxLag = 0 PROVE ClusterSpec => []ServesAlone(clock + Drift)
<1>1. ServiceInv /\ RefInv => ServesAlone(clock + Drift)
  BY ServedIsCurrent, Zenon DEF ServesAlone
<1>2. ServiceInv /\ RefInv /\ [ClusterNext]_allVars => ServiceInv' /\ RefInv'
  BY ServiceStep, RefInvStep, Zenon DEF ServiceInv
<1> QED
  BY <1>1, <1>2, ServiceInit, PTL DEF ClusterSpec

\* The single live activation of README.md:45 across environments, with no lag
\* and no drift: an invocation that takes its stamp now
\* (environment.go:458 and 467) is served by one environment at most.
THEOREM OneServingEnvironment ==
    ASSUME MaxLag = 0, Drift = 0 PROVE ClusterSpec => []SingleServingEnvironment
<1>1. ServiceInv /\ RefInv => SingleServingEnvironment
  <2>1. ServiceInv => clock + Drift = clock
    BY DEF ServiceInv, RegistryInv, TypeOK
  <2> QED
    BY <2>1, ServedIsCurrent, Zenon DEF SingleServingEnvironment
<1>2. ServiceInv /\ RefInv /\ [ClusterNext]_allVars => ServiceInv' /\ RefInv'
  BY ServiceStep, RefInvStep, Zenon DEF ServiceInv
<1> QED
  BY <1>1, <1>2, ServiceInit, PTL DEF ClusterSpec

-----------------------------------------------------------------------------
\* A reference that nobody serves at vs, and whose actor has moved on, stays so:
\* its server comes back under a higher version.
LEMMA DeadStays ==
    ASSUME MaxLag = 0, ServiceInv, NEW r \in Reference \cup {NoReference}, RefOK(r),
           r.server # NoServer, r.epoch < actors[r.key].epoch, [ClusterNext]_allVars,
           NEW vs, Dead(r, vs)
    PROVE  Dead(r, vs)'
<1>1. r.server \in Servers /\ r.version \in Nat
  BY RealReference, Zenon
<1>2. r.version > 0 /\ r.version <= servers[r.server].version /\ Outlived(r)
  BY Zenon DEF RefOK
<1>3. NoResult.version # r.version
  BY <1>1, <1>2, SMTT(30) DEF NoResult
<1>4. ASSUME SendHeartbeat(r.server) PROVE answer'[r.server].version # r.version
  <2>1. PICK v \in ReadVersions, d \in 0..Drift :
          answer' = [answer EXCEPT ![r.server] = HeartbeatResult(r.server, v, v + d)]
    BY <1>4, Zenon DEF SendHeartbeat
  <2>2. answer'[r.server].version = NextServerVersion(r.server, v)
    BY <1>1, <2>1, Zenon DEF HeartbeatResult, ServiceInv, ShapeInv, ClusterTypeOK
  <2>3. /\ TypeOK /\ TTL \in Nat /\ clock \in Nat
        /\ servers[r.server].version \in Nat /\ servers[r.server].last \in Nat
    BY <1>1, RegistryAssumption, Zenon DEF ServiceInv, RegistryInv, TypeOK, ServerState
  <2>4. v = clock
    BY <2>3, ReadsAtClock, Zenon
  <2> QED
    BY <1>1, <1>2, <2>2, <2>3, <2>4, SMTT(30) DEF NextServerVersion, Outlived
<1>5. \A x \in {env'[r.server], answer'[r.server]} :
        x \in {env[r.server], answer[r.server]} \/ x.version # r.version
  BY <1>1, <1>3, <1>4, ResultsMove, Zenon DEF ServiceInv
<1> QED
  BY <1>5, Zenon DEF Dead

\* The epochs of activations only grow.
LEMMA EpochsGrow ==
    ASSUME ServiceInv, RefInv, [ClusterNext]_allVars, NEW k \in ActorKeys
    PROVE  /\ actors[k].epoch \in Nat /\ actors'[k].epoch \in Nat
           /\ actors[k].epoch <= actors'[k].epoch
<1>1. TypeOK /\ TypeOK' /\ Unborn /\ [ServiceNext]_vars
  BY RegistrySteps, TypeStep, Zenon DEF ServiceInv, RegistryInv, RefInv
<1>2. actors[k].epoch \in Nat /\ actors'[k].epoch \in Nat
  BY <1>1, Zenon DEF TypeOK, ActorState
<1> QED
  BY <1>1, <1>2, ActorsMove, SMTT(30) DEF Moved

\* What a step does to the identity and to the stamp of an invocation: it keeps
\* them, or reads the stamp now, or the invocation ends or begins.
CallKept(c) ==
    /\ inv[c].pc # "idle" /\ inv'[c].key = inv[c].key /\ inv'[c].floor = inv[c].floor
    /\ inv'[c].joined = inv[c].joined
    /\ \/ StampOf(c)' = StampOf(c)
       \/ StampOf(c)' = clock /\ UNCHANGED <<vars, env, answer, cache, inv>>

CallBegun(c) ==
    /\ inv'[c].key \in ActorKeys /\ inv'[c].floor = newest[inv'[c].key]
    /\ inv'[c].joined \/ StampOf(c)' = 0
    /\ UNCHANGED vars

\* Every step keeps an invocation, ends it or begins it.
LEMMA CallMoves ==
    ASSUME ShapeInv, [ClusterNext]_allVars, NEW c \in Clients
    PROVE  inv'[c].pc = "idle" \/ CallKept(c) \/ CallBegun(c)
<1>1. ClusterTypeOK /\ CallShape(c) /\ inv[c] \in InvocationState
  BY ClusterFields, Zenon DEF ShapeInv
<1>2. ASSUME inv'[c] = inv[c], inv[c].pc = "stamp" => batch'[inv[c].via] = batch[inv[c].via]
      PROVE  inv'[c].pc = "idle" \/ CallKept(c)
  BY <1>2 DEF CallKept, StampOf
<1>3. ASSUME inv[c].pc \notin {"idle", "stamp"}, inv'[c].pc # "stamp",
             inv'[c].key = inv[c].key, inv'[c].floor = inv[c].floor,
             inv'[c].joined = inv[c].joined, inv'[c].vs = inv[c].vs
      PROVE  CallKept(c)
  BY <1>3, Zenon DEF CallKept, StampOf
<1>4. ASSUME NEW s \in Servers, EnvStep(s)
      PROVE  inv'[c].pc = "idle" \/ CallKept(c) \/ CallBegun(c)
  <2>1. CASE Crash(s)
    <3>1. \A t \in Servers : t # s => batch'[t] = batch[t]
      BY <1>1, <2>1, Zenon DEF Crash, ClusterTypeOK
    <3>2. CASE inv'[c] = Idle
      BY <3>2, IdleFields, Zenon
    <3>3. CASE inv'[c] # Idle
      <4>1. /\ inv'[c].pc = inv[c].pc /\ inv'[c].key = inv[c].key
            /\ inv'[c].vs = inv[c].vs
            /\ inv'[c].floor = inv[c].floor /\ inv'[c].joined = inv[c].joined
            /\ \/ inv'[c].via = inv[c].via /\ inv[c].via # s
               \/ inv[c].pc \in {"deliver", "admitted"}
        BY <2>1, <3>3, CrashFields, Zenon
      <4>2. inv[c].pc = "stamp" => inv[c].via \in Servers
        BY <1>1, Zenon DEF CallShape
      <4> QED
        BY <3>1, <4>1, <4>2, SMTT(30) DEF CallKept, StampOf
    <3> QED
      BY <3>2, <3>3, Zenon
  <2>2. CASE ShareStamp(s)
    <3>1. \A t \in Servers : t # s => batch'[t] = batch[t]
      BY <1>1, <2>2, Zenon DEF ShareStamp, ClusterTypeOK
    <3>2. CASE inv'[c] = inv[c] /\ ~(inv[c].pc = "stamp" /\ inv[c].via = s)
      BY <1>1, <1>2, <3>1, <3>2, Zenon DEF CallShape
    <3>3. CASE ~(inv'[c] = inv[c] /\ ~(inv[c].pc = "stamp" /\ inv[c].via = s))
      BY <2>2, <3>3, ShareFields, SMTT(30) DEF CallKept, StampOf
    <3> QED
      BY <3>2, <3>3, Zenon
  <2>3. CASE ReadStamp(s)
    <3>1. /\ inv' = inv /\ UNCHANGED <<vars, env, answer, cache>>
          /\ batch' = [batch EXCEPT ![s] = clock]
      BY <2>3, Zenon DEF ReadStamp, clientVars
    <3>2. CASE inv[c].pc = "stamp" /\ inv[c].via = s
      BY <1>1, <3>1, <3>2, Zenon DEF CallKept, StampOf, ClusterTypeOK
    <3>3. CASE ~(inv[c].pc = "stamp" /\ inv[c].via = s)
      BY <1>1, <1>2, <3>1, <3>3, Zenon DEF CallShape, ClusterTypeOK
    <3> QED
      BY <3>2, <3>3, Zenon
  <2>4. ASSUME UNCHANGED <<inv, batch>> PROVE inv'[c].pc = "idle" \/ CallKept(c)
    BY <1>2, <2>4, Zenon
  <2> QED
    BY <1>4, <2>1, <2>2, <2>3, <2>4, Zenon DEF EnvStep, SendHeartbeat, InstallHeartbeat,
                                        LoseHeartbeat, CollectActor, ExpireCache, clientVars
<1>5. ASSUME NEW d \in Clients, ClientStep(d)
      PROVE  inv'[c].pc = "idle" \/ CallKept(c) \/ CallBegun(c)
  <2>1. UNCHANGED batch
    BY <1>5, Zenon DEF ClientStep, BeginInvocation, CacheHit, CacheMiss, FillCache, Admit, Fail,
                Execute, envVars
  <2>2. CASE c # d
    BY <1>1, <1>2, <1>5, <2>1, <2>2, Zenon DEF ClientStep, BeginInvocation, CacheHit, CacheMiss,
                FillCache, Admit, Fail, Execute, Return, ClusterTypeOK
  <2>3. CASE c = d
    <3>1. ASSUME NEW s \in Home[c], NEW k \in ActorKeys, BeginInvocation(c, s, k)
          PROVE  CallBegun(c)
      BY <1>1, <2>1, <3>1, BeginFields, ClusterAssumption, ZenonT(30)
         DEF BeginInvocation, CallBegun, StampOf
    <3>2. ASSUME CacheHit(c) PROVE CallKept(c)
      <4>1. inv[c].key \in ActorKeys /\ inv[c].via \in Servers
        BY <1>1, <3>2, Zenon DEF CacheHit, CallShape
      <4>2. CacheKey(inv[c].key) \in Actors
        BY <4>1, Zenon DEF CacheKey, ActorKeys
      <4>3. PICK ref : ref = cache[inv[c].via][CacheKey(inv[c].key)]
        BY Zenon
      <4>4. ref \in Reference
        BY <1>1, <3>2, <4>1, <4>2, <4>3, ClusterFields, RealReference, Zenon DEF CacheHit
      <4> QED
        BY <1>1, <1>3, <3>2, <4>3, <4>4, ReferFields, Zenon DEF CacheHit
    <3>3. ASSUME CacheMiss(c) PROVE CallKept(c)
      <4>1. inv[c].key \in ActorKeys
        BY <1>1, <3>3, Zenon DEF CacheMiss, CallShape
      <4>2. PICK ref \in References(inv[c].key) :
              inv' = [inv EXCEPT ![c].pc = "fill", ![c].ref = ref]
        BY <3>3, Zenon DEF CacheMiss
      <4>3. ref \in Reference
        BY <1>1, <4>1, ReferenceFields, Zenon DEF ClusterTypeOK
      <4> QED
        BY <1>1, <1>3, <3>3, <4>2, <4>3, ReferFields, Zenon DEF CacheMiss
    <3>4. ASSUME FillCache(c) \/ Admit(c) PROVE CallKept(c)
      BY <1>1, <1>3, <3>4, MoveFields, Zenon DEF FillCache, Admit
    <3>5. ASSUME Fail(c) \/ Execute(c) PROVE inv'[c].pc = "idle"
      BY <1>1, <3>5, IdleAgain, IdleFields, Zenon DEF Fail, Execute
    <3> QED
      BY <1>5, <2>3, <3>1, <3>2, <3>3, <3>4, <3>5, Zenon DEF ClientStep
  <2> QED
    BY <2>2, <2>3, Zenon
<1> QED
  BY <1>2, <1>4, <1>5, Zenon DEF ClusterNext, RegistryStep, envVars, clientVars, allVars

\* An actor ID stands for one actor: the activation cache leaves the module out
\* of its key (environment.go:347).
OneModule == \A m, n \in Modules : m = n

\* An invocation then uses a reference to the actor it is for.
LEMMA OwnReference ==
    ASSUME OneModule, ShapeInv, NEW c \in Clients,
           inv[c].pc \in {"fill", "deliver", "admitted"}
    PROVE  /\ inv[c].ref \in Reference /\ inv[c].ref \in AllReferences
           /\ inv[c].ref.server # NoServer
           /\ inv[c].ref.key = inv[c].key /\ inv[c].key \in ActorKeys
<1>1. CallShape(c) /\ inv[c].ref \in Reference \cup {NoReference}
  BY ClusterFields, Zenon DEF ShapeInv, InvocationState
<1>2. /\ inv[c].key \in ActorKeys /\ inv[c].ref.server # NoServer
      /\ CacheKey(inv[c].ref.key) = CacheKey(inv[c].key)
  BY <1>1, Zenon DEF CallShape
<1>3. inv[c].ref \in Reference /\ inv[c].ref.key \in ActorKeys
  BY <1>1, <1>2, RealReference, Zenon
<1>4. \A j, k \in ActorKeys : CacheKey(j) = CacheKey(k) => j = k
  BY DEF OneModule, ActorKeys, CacheKey
<1> QED
  BY <1>2, <1>3, <1>4, SMTT(30) DEF AllReferences

\* No activation has answered that the registry has not recorded.
LEMMA NewestStep ==
    ASSUME OneModule, ServiceInv, RefInv, FreshInv, [ClusterNext]_allVars, NEW k \in ActorKeys
    PROVE  newest'[k] <= actors'[k].epoch
<1>1. ClusterTypeOK /\ ShapeInv
  BY Zenon DEF ServiceInv, ShapeInv
<1>2. newest[k] \in Nat /\ newest[k] <= actors[k].epoch
  BY <1>1, Zenon DEF ClusterTypeOK, FreshInv
<1>3. ASSUME newest'[k] = newest[k] PROVE newest'[k] <= actors'[k].epoch
  BY <1>2, <1>3, EpochsGrow
<1>4. ASSUME NEW c \in Clients, Execute(c) PROVE newest'[k] <= actors'[k].epoch
  <2>1. /\ inv[c].ref \in Reference /\ inv[c].ref \in AllReferences
        /\ inv[c].ref.server # NoServer
        /\ inv[c].ref.key = inv[c].key /\ inv[c].key \in ActorKeys
    BY <1>1, <1>4, OwnReference, Zenon DEF Execute
  <2>2. inv[c].ref.epoch <= actors[inv[c].key].epoch /\ inv[c].ref.epoch \in Nat
    BY <2>1, RealReference, Zenon DEF RefInv, RefOK
  <2>3. newest'[k] = newest[k] \/ (k = inv[c].key /\ newest'[k] = inv[c].ref.epoch)
    BY <1>1, <1>4, Zenon DEF Execute, ClusterTypeOK
  <2> QED
    BY <1>2, <2>2, <2>3, EpochsGrow
<1>5. ASSUME NEW c \in Clients, ClientStep(c), ~Execute(c) PROVE UNCHANGED newest
  BY <1>5, Zenon DEF ClientStep, BeginInvocation, CacheHit, CacheMiss, FillCache, Admit, Fail
<1>6. ASSUME NEW s \in Servers, EnvStep(s) PROVE UNCHANGED newest
  BY <1>6, Zenon DEF EnvStep, SendHeartbeat, InstallHeartbeat, LoseHeartbeat, Crash, ReadStamp,
              ShareStamp, CollectActor, ExpireCache, clientVars
<1> QED
  BY <1>3, <1>4, <1>5, <1>6, Zenon DEF ClusterNext, RegistryStep, clientVars, allVars

\* Old activations stay out of reach of an invocation that reads its own stamp.
LEMMA FreshStep ==
    ASSUME MaxLag = 0, ServiceInv, RefInv, FreshInv, [ClusterNext]_allVars, NEW c \in Clients
    PROVE  FreshOK(c)'
<1>1. ClusterTypeOK /\ ShapeInv /\ TypeOK /\ Unborn
  BY Zenon DEF ServiceInv, ShapeInv, RegistryInv, RefInv
<1>2. CASE inv'[c].pc = "idle"
  BY <1>2, Zenon DEF FreshOK
<1>3. CASE CallBegun(c)
  BY <1>3, Zenon DEF CallBegun, FreshOK, FreshInv, vars
<1>4. CASE CallKept(c)
  <2>1. /\ inv[c].key \in ActorKeys /\ inv[c].floor \in Nat
        /\ inv[c].floor <= actors[inv[c].key].epoch
    BY <1>1, <1>4, ClusterFields, Zenon DEF CallKept, ShapeInv, CallShape, InvocationState,
                                     FreshInv, FreshOK
  <2>2. /\ actors[inv[c].key].epoch \in Nat /\ actors'[inv[c].key].epoch \in Nat
        /\ inv[c].floor <= actors'[inv[c].key].epoch
    BY <2>1, EpochsGrow, SMTT(30)
  <2>3. inv'[c].floor <= actors'[inv'[c].key].epoch
    BY <1>4, <2>2, Zenon DEF CallKept
  <2>4. ASSUME ~inv'[c].joined, StampOf(c)' # 0, NEW r \in AllReferences',
               r.server # NoServer, r.key = inv'[c].key, r.epoch < inv'[c].floor
        PROVE  Dead(r, StampOf(c))'
    <3>1. r.key = inv[c].key /\ r.epoch < inv[c].floor
      BY <1>4, <2>4, Zenon DEF CallKept
    <3>2. r \in AllReferences
      <4>1. ASSUME NEW k \in ActorKeys, NEW ref \in References(k), EnsureActivation(k, ref),
                   r = ref
            PROVE  FALSE
        <5>1. ref.key = k /\ ref.epoch = actors'[k].epoch
          BY <1>1, <4>1, ReferenceFields, RefNew, Zenon
        <5> QED
          BY <2>1, <2>2, <3>1, <4>1, <5>1
      <4> QED
        BY <1>1, <2>4, <4>1, RefsMove, Zenon
    <3>3. r \in Reference \cup {NoReference} /\ RefOK(r)
      BY <1>1, <3>2, RefsType, Zenon DEF RefInv
    <3>4. r.epoch \in Nat
      BY <2>4, <3>3, RealReference, Zenon
    <3>5. r.epoch < actors[r.key].epoch
      BY <2>1, <2>2, <3>1, <3>4
    <3>6. PICK v : v = StampOf(c)'
      BY Zenon
    <3>7. Dead(r, v)'
      <4>1. CASE StampOf(c)' = StampOf(c)
        <5>1. StaleIsDead(c, r)
          BY <1>4, <2>4, <3>2, <4>1, Zenon DEF CallKept, FreshInv, FreshOK
        <5>2. Dead(r, v)
          BY <2>4, <3>1, <3>6, <4>1, <5>1, Zenon DEF StaleIsDead
        <5> QED
          BY <2>4, <3>3, <3>5, <5>2, DeadStays, Zenon
      <4>2. CASE StampOf(c)' = clock /\ UNCHANGED <<env, answer>>
        <5>1. Dead(r, clock)
          BY <2>4, <3>3, <3>5, DeadNow, Zenon DEF ServiceInv
        <5> QED
          BY <3>6, <4>2, <5>1, Zenon DEF Dead
      <4> QED
        BY <1>4, <4>1, <4>2, Zenon DEF CallKept
    <3> QED
      BY <3>6, <3>7, Zenon DEF Dead
  <2> QED
    BY <2>3, <2>4, Zenon DEF FreshOK, StaleIsDead
<1> QED
  BY <1>1, <1>2, <1>3, <1>4, CallMoves, Zenon

\* An admitted invocation has just passed the checks or was admitted before.
LEMMA AdmittedMoves ==
    ASSUME ShapeInv, [ClusterNext]_allVars, NEW c \in Clients, inv'[c].pc = "admitted"
    PROVE  /\ Admit(c) \/ inv[c].pc = "admitted"
           /\ inv'[c].ref = inv[c].ref /\ inv'[c].floor = inv[c].floor
           /\ inv'[c].joined = inv[c].joined
<1>1. ClusterTypeOK /\ CallShape(c) /\ inv[c] \in InvocationState
  BY ClusterFields, Zenon DEF ShapeInv
<1>2. ASSUME NEW s \in Servers, EnvStep(s)
      PROVE  /\ inv[c].pc = "admitted"
             /\ inv'[c].ref = inv[c].ref /\ inv'[c].floor = inv[c].floor
             /\ inv'[c].joined = inv[c].joined
  <2>1. CASE Crash(s)
    BY <2>1, CrashFields, IdleFields, Zenon
  <2>2. CASE ShareStamp(s)
    BY <2>2, ShareFields, Zenon
  <2>3. CASE UNCHANGED inv
    BY <2>3, Zenon
  <2> QED
    BY <1>2, <2>1, <2>2, <2>3, Zenon DEF EnvStep, SendHeartbeat, InstallHeartbeat, LoseHeartbeat,
                                  ReadStamp, CollectActor, ExpireCache, clientVars
<1>3. ASSUME NEW d \in Clients, ClientStep(d), d # c PROVE inv'[c] = inv[c]
  BY <1>1, <1>3, Zenon DEF ClientStep, BeginInvocation, CacheHit, CacheMiss, FillCache, Admit, Fail,
                    Execute, Return, ClusterTypeOK
<1>4. ASSUME ClientStep(c) PROVE Admit(c)
  <2>1. ASSUME NEW s \in Home[c], NEW k \in ActorKeys, BeginInvocation(c, s, k)
        PROVE  inv'[c].pc # "admitted"
    BY <1>1, <2>1, BeginFields, ClusterAssumption, Zenon
  <2>2. ASSUME NEW x, NEW label \in {"fill", "deliver"}, 
               inv' = [inv EXCEPT ![c].pc = label, ![c].ref = x]
        PROVE  inv'[c].pc # "admitted"
    <3>1. inv'[c] = [inv[c] EXCEPT !.pc = label, !.ref = x]
      BY <1>1, <2>2, Zenon DEF ClusterTypeOK
    <3> QED
      BY <1>1, <3>1, Zenon DEF InvocationState
  <2>3. ASSUME CacheHit(c) \/ CacheMiss(c) PROVE inv'[c].pc # "admitted"
    BY <2>2, <2>3, Zenon DEF CacheHit, CacheMiss
  <2>4. ASSUME FillCache(c) PROVE inv'[c].pc # "admitted"
    BY <1>1, <2>4, MoveFields, Zenon DEF FillCache
  <2>5. ASSUME Fail(c) \/ Execute(c) PROVE inv'[c].pc # "admitted"
    BY <1>1, <2>5, IdleAgain, IdleFields, Zenon DEF Fail, Execute
  <2> QED
    BY <1>4, <2>1, <2>3, <2>4, <2>5, Zenon DEF ClientStep
<1>5. ASSUME Admit(c)
      PROVE  /\ inv'[c].ref = inv[c].ref /\ inv'[c].floor = inv[c].floor
             /\ inv'[c].joined = inv[c].joined
  BY <1>1, <1>5, MoveFields, Zenon DEF Admit
<1> QED
  BY <1>2, <1>3, <1>4, <1>5, Zenon DEF ClusterNext, RegistryStep, clientVars, allVars

\* The checks of InvokeActorDirectStream turn an old activation away.
LEMMA AdmitStep ==
    ASSUME Drift = 0, OneModule, ServiceInv, FreshInv, NEW c \in Clients, Admit(c),
           ~inv[c].joined
    PROVE  inv[c].ref.epoch >= inv[c].floor
<1>1. inv[c].pc = "deliver" /\ Admits(inv[c].ref.server, inv[c].vs, inv[c].ref)
  BY Zenon DEF Admit
<1>2. /\ inv[c].ref \in Reference /\ inv[c].ref \in AllReferences
      /\ inv[c].ref.server # NoServer
      /\ inv[c].ref.key = inv[c].key
  BY <1>1, OwnReference, Zenon DEF ServiceInv
<1>3. /\ inv[c].floor \in Nat /\ inv[c].vs \in Nat /\ inv[c].vs > 0 /\ TTL \in Nat
      /\ inv[c].ref.epoch \in Nat /\ env[inv[c].ref.server].vs \in Nat
  BY <1>1, <1>2, ClusterFields, RealReference, RegistryAssumption, Zenon
     DEF ServiceInv, ShapeInv, CallShape, InvocationState
<1>4. StampOf(c) = inv[c].vs
  BY <1>1, Zenon DEF StampOf
<1>5. StaleIsDead(c, inv[c].ref)
  <2>1. FreshOK(c)
    BY Zenon DEF FreshInv
  <2>2. inv[c].pc = "deliver"
    BY <1>1, Zenon
  <2>3. inv[c].pc # "idle"
    BY <2>2, Zenon
  <2>4. inv[c].vs # 0
    <3>1. inv[c].vs \in Nat /\ inv[c].vs > 0
      BY <1>3, Zenon
    <3> QED
      BY <3>1
  <2>5. StampOf(c) # 0
    BY <1>4, <2>4, Zenon
  <2> QED
    BY <1>2, <2>1, <2>3, <2>5, Zenon DEF FreshOK
<1>6. ASSUME inv[c].ref.epoch < inv[c].floor PROVE FALSE
  <2>1. Dead(inv[c].ref, inv[c].vs)
    BY <1>2, <1>4, <1>5, <1>6, Zenon DEF StaleIsDead
  <2> QED
    BY <1>1, <1>3, <2>1, SMTT(30) DEF Dead, Admits
<1> QED
  BY <1>3, <1>6

\* With no lag, no drift and one module per actor ID, an invocation that begins
\* after another activation has answered, and reads a stamp of its own, is
\* never admitted by an environment that had the actor before
\* (environment.go:458 and 467).
THEOREM OldOwnersAreTurnedAway ==
    ASSUME MaxLag = 0, Drift = 0, OneModule PROVE ClusterSpec => []FreshStampFindsTheOwner
<1> DEFINE Inv == ServiceInv /\ RefInv /\ FreshInv /\ FreshStampFindsTheOwner
<1>1. InitCluster => Inv
  <2> SUFFICES ASSUME InitCluster PROVE Inv
    BY Zenon
  <2>1. \A c \in Clients : inv[c].pc = "idle"
    BY IdleFields, Zenon DEF InitCluster
  <2>2. FreshInv
    BY <2>1, SMTT(30) DEF InitCluster, FreshInv, FreshOK, NoActorState
  <2>3. FreshStampFindsTheOwner
    BY <2>1, Zenon DEF FreshStampFindsTheOwner, ServedByNoOldOwner
  <2> QED
    BY <2>2, <2>3, ServiceInit, Zenon
<1>2. Inv /\ [ClusterNext]_allVars => Inv'
  <2> SUFFICES ASSUME Inv, [ClusterNext]_allVars PROVE Inv'
    BY Zenon
  <2>1. ServiceInv' /\ RefInv'
    BY ServiceStep, RefInvStep, Zenon DEF ServiceInv
  <2>2. FreshInv'
    BY NewestStep, FreshStep, Zenon DEF FreshInv
  <2>3. ASSUME NEW c \in Clients, ~inv'[c].joined, inv'[c].pc = "admitted"
        PROVE  inv'[c].ref.epoch >= inv'[c].floor
    BY <2>3, AdmittedMoves, AdmitStep, Zenon
       DEF ServiceInv, FreshStampFindsTheOwner, ServedByNoOldOwner
  <2> QED
    BY <2>1, <2>2, <2>3, Zenon DEF FreshStampFindsTheOwner, ServedByNoOldOwner
<1>3. Inv => FreshStampFindsTheOwner
  BY Zenon
<1> HIDE DEF Inv
<1> QED
  BY <1>1, <1>2, <1>3, PTL DEF ClusterSpec

=============================================================================
