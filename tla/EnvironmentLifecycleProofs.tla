--------------------- MODULE EnvironmentLifecycleProofs ---------------------
(***************************************************************************)
(* Proofs about module EnvironmentLifecycle, for any environments, servers *)
(* and addresses, and any TTL.                                             *)
(***************************************************************************)
EXTENDS EnvironmentLifecycle, TLAPS

\* Every step of NewEnvironment, of the heartbeat goroutine, of Close and of
\* the debug calls leaves the state well typed, and the router with exactly
\* the environments that are up.
LEMMA TypeStep == TypeOK /\ [Next]_vars => TypeOK'
<1> SUFFICES ASSUME TypeOK, [Next]_vars PROVE TypeOK'
  OBVIOUS
<1> USE LifecycleAssumption
<1>a. NoBeat \in Beats /\ FreshBeat \in Beats
  BY DEF NoBeat, FreshBeat, Beats
<1>1. ASSUME NEW e \in Envs, NewEnvironment(e) PROVE TypeOK'
  BY <1>1 DEF NewEnvironment, flags, TypeOK
<1>2. ASSUME NEW e \in Envs, Commit(e) PROVE TypeOK'
  <2> DEFINE s == ServerOf[e]
             bumped == reg[s].by # NoEnv /\ reg[s].age >= TTL
             After(beat) == [beat EXCEPT !.behind = @ \/ bumped]
  <2>1. /\ reg' = [reg EXCEPT ![s] = [age |-> 0, by |-> e]]
        /\ call' = [d \in Envs |->
              IF d = e THEN [at |-> "answered", beat |-> FreshBeat]
              ELSE IF ServerOf[d] = s THEN [call[d] EXCEPT !.beat = After(@)]
              ELSE call[d]]
        /\ lease' = [d \in Envs |->
              IF ServerOf[d] = s THEN After(lease[d]) ELSE lease[d]]
        /\ UNCHANGED <<phase, loop, paused, frozen, router>>
    BY <1>2, Zenon DEF Commit, flags
  <2>2. ASSUME NEW beat \in Beats PROVE After(beat) \in Beats
    BY Zenon DEF Beats
  <2> HIDE DEF After
  <2>3. lease' \in [Envs -> Beats]
    BY <2>1, <2>2 DEF TypeOK
  <2>4. call' \in [Envs -> [at: {"idle", "sent", "answered"}, beat: Beats]]
    BY <2>1, <2>2, <1>a DEF TypeOK
  <2>5. reg' \in [Servers -> [age: 0 .. TTL, by: Envs \cup {NoEnv}]]
    BY <2>1 DEF TypeOK, Servers
  <2> QED
    BY <2>1, <2>3, <2>4, <2>5 DEF TypeOK
<1>b. Idle \in [at: {"idle", "sent", "answered"}, beat: Beats]
  BY <1>a DEF Idle
<1>3. ASSUME NEW e \in Envs, Install(e) PROVE TypeOK'
  <2>1. lease' \in [Envs -> Beats]
    BY <1>3 DEF Install, TypeOK
  <2>2. call' \in [Envs -> [at: {"idle", "sent", "answered"}, beat: Beats]]
    BY <1>3, <1>b DEF Install, TypeOK
  <2> QED
    BY <1>3, <2>1, <2>2 DEF Install, TypeOK, flags
<1>4. ASSUME NEW e \in Envs, HeartbeatFails(e) PROVE TypeOK'
  BY <1>4, <1>b DEF HeartbeatFails, TypeOK, flags
<1>5. ASSUME NEW e \in Envs, RegisterLocally(e) PROVE TypeOK'
  <2>1. AddressOf[e] \in Addresses
    BY DEF Addresses
  <2>2. CASE router[AddressOf[e]] # NoEnv
    BY <1>5, <2>2 DEF RegisterLocally, TypeOK, flags
  <2>3. CASE router[AddressOf[e]] = NoEnv
    <3>1. /\ phase' = [phase EXCEPT ![e] = "up"]
          /\ router' = [router EXCEPT ![AddressOf[e]] = e]
          /\ loop' = [loop EXCEPT ![e] = "select"]
          /\ UNCHANGED <<call, lease, paused, frozen, reg>>
      BY <1>5, <2>3 DEF RegisterLocally, flags
    <3> QED
      BY <2>1, <2>3, <3>1 DEF TypeOK
  <2> QED
    BY <2>2, <2>3
<1>6. ASSUME NEW e \in Envs, TickerFires(e) PROVE TypeOK'
  <2>1. CASE paused[e] = "paused"
    BY <1>6, <2>1, Zenon DEF TickerFires, TypeOK, flags
  <2>2. CASE paused[e] # "paused"
    BY <1>6, <2>2 DEF TickerFires, TypeOK, flags
  <2> QED
    BY <2>1, <2>2
<1>7. ASSUME NEW e \in Envs, LoopCloses(e) PROVE TypeOK'
  BY <1>7 DEF LoopCloses, TypeOK, flags
<1>8. ASSUME NEW e \in Envs, Close(e) PROVE TypeOK'
  BY <1>8 DEF Close, TypeOK, flags, Addresses
<1>9. ASSUME NEW e \in Envs, CloseReturns(e) PROVE TypeOK'
  BY <1>9 DEF CloseReturns, TypeOK, flags
<1>10. ASSUME NEW e \in Envs, PauseHeartbeat(e) PROVE TypeOK'
  BY <1>10 DEF PauseHeartbeat, TypeOK
<1>11. ASSUME NEW e \in Envs, ResumeHeartbeat(e) PROVE TypeOK'
  BY <1>11 DEF ResumeHeartbeat, TypeOK
<1>12. ASSUME NEW e \in Envs, FreezeHeartbeatState(e) PROVE TypeOK'
  BY <1>12 DEF FreezeHeartbeatState, TypeOK
<1>13. CASE Tick
  <2> DEFINE Older(beat) == [beat EXCEPT !.age = Min2(@ + 1, TTL + 1)]
  <2>1. /\ reg' = [r \in Servers |-> [reg[r] EXCEPT !.age = Min2(@ + 1, TTL)]]
        /\ lease' = [e \in Envs |-> Older(lease[e])]
        /\ call' = [e \in Envs |-> [call[e] EXCEPT !.beat = Older(@)]]
        /\ UNCHANGED <<phase, loop, paused, frozen, router>>
    BY <1>13, Zenon DEF Tick, flags
  <2>2. ASSUME NEW beat \in Beats PROVE Older(beat) \in Beats
    <3>1. Min2(beat.age + 1, TTL + 1) \in 0 .. TTL + 1
      BY DEF Beats, Min2
    <3> QED
      BY <3>1, Zenon DEF Beats
  <2> HIDE DEF Older
  <2>3. lease' \in [Envs -> Beats]
    BY <2>1, <2>2 DEF TypeOK
  <2>4. call' \in [Envs -> [at: {"idle", "sent", "answered"}, beat: Beats]]
    <3>1. \A e \in Envs: [call[e] EXCEPT !.beat = Older(@)]
                            \in [at: {"idle", "sent", "answered"}, beat: Beats]
      BY <2>2 DEF TypeOK
    <3> QED
      BY <2>1, <3>1
  <2>5. reg' \in [Servers -> [age: 0 .. TTL, by: Envs \cup {NoEnv}]]
    BY <2>1 DEF TypeOK, Min2
  <2> QED
    BY <2>1, <2>3, <2>4, <2>5 DEF TypeOK
<1>14. CASE UNCHANGED vars
  BY <1>14 DEF TypeOK, vars
<1> QED
  BY <1>1, <1>2, <1>3, <1>4, <1>5, <1>6, <1>7, <1>8, <1>9, <1>10, <1>11, <1>12, <1>13, <1>14
     DEF Next

\* Type correctness; a local call (environment.go:590) finds in the router
\* exactly the environment that is up at the address.
THEOREM TypeCorrect == Spec => []TypeOK
<1>1. Init => TypeOK
  <2>1. NoBeat \in Beats
    BY LifecycleAssumption DEF NoBeat, Beats
  <2>2. ASSUME Init PROVE \A e \in Envs: phase[e] # "up" /\ router[AddressOf[e]] # e
    BY <2>2, LifecycleAssumption, Zenon DEF Init, Addresses
  <2>3. ASSUME Init PROVE frozen \in [Envs -> BOOLEAN]
    BY <2>3 DEF Init
  <2> QED
    BY <2>1, <2>2, <2>3, LifecycleAssumption DEF Init, TypeOK, Idle
<1> QED
  BY <1>1, TypeStep, PTL DEF Spec

-----------------------------------------------------------------------------
\* A commit makes the registry's record as young as can be, an answer is
\* installed with the age of its commit, and time passes for all alike.
LEMMA LeaseStep == TypeOK /\ LeaseNotAhead /\ [Next]_vars => LeaseNotAhead'
<1> SUFFICES ASSUME TypeOK, LeaseNotAhead, [Next]_vars PROVE LeaseNotAhead'
  OBVIOUS
<1> USE LifecycleAssumption
<1>a. \A e \in Envs: /\ lease[e] \in Beats /\ call[e].beat \in Beats
                     /\ reg[ServerOf[e]].age \in 0 .. TTL
                     /\ lease[e].age >= reg[ServerOf[e]].age
                     /\ call[e].beat.age >= reg[ServerOf[e]].age
  BY DEF TypeOK, Servers, LeaseNotAhead
<1>b. SUFFICES ASSUME NEW d \in Envs
               PROVE  /\ lease'[d].age >= reg'[ServerOf[d]].age
                      /\ call'[d].beat.age >= reg'[ServerOf[d]].age
  BY DEF LeaseNotAhead
<1>1. ASSUME NEW e \in Envs, NewEnvironment(e)
      PROVE  UNCHANGED <<lease, reg>> /\ call'[d].beat = call[d].beat
  BY <1>1 DEF NewEnvironment, TypeOK
<1>2. ASSUME NEW e \in Envs, Commit(e)
      PROVE  /\ lease'[d].age >= reg'[ServerOf[d]].age
             /\ call'[d].beat.age >= reg'[ServerOf[d]].age
  <2>1. reg' = [reg EXCEPT ![ServerOf[e]] = [age |-> 0, by |-> e]]
    BY <1>2 DEF Commit
  <2>2. CASE ServerOf[d] # ServerOf[e]
    <3>1. call'[d] = call[d] /\ lease'[d] = lease[d]
      BY <1>2, <2>2 DEF Commit
    <3>2. reg'[ServerOf[d]] = reg[ServerOf[d]]
      BY <2>1, <2>2 DEF TypeOK, Servers
    <3> QED
      BY <3>1, <3>2, <1>a
  <2>3. CASE ServerOf[d] = ServerOf[e]
    <3>1. reg'[ServerOf[d]].age = 0
      BY <2>1, <2>3 DEF TypeOK, Servers
    <3>2. lease'[d] \in Beats /\ call'[d].beat \in Beats
      BY TypeStep DEF TypeOK
    <3> QED
      BY <3>1, <3>2 DEF Beats
  <2> QED
    BY <2>2, <2>3
<1>3. ASSUME NEW e \in Envs, Install(e)
      PROVE  /\ lease'[d].age >= reg'[ServerOf[d]].age
             /\ call'[d].beat.age >= reg'[ServerOf[d]].age
  <2>1. reg' = reg
    BY <1>3 DEF Install
  <2>2. lease'[d] \in {lease[d], call[d].beat}
    BY <1>3 DEF Install, TypeOK
  <2>3. call'[d].beat = call[d].beat \/ call'[d].beat.age = TTL + 1
    BY <1>3 DEF Install, TypeOK, Idle, NoBeat
  <2> QED
    BY <2>1, <2>2, <2>3, <1>a
<1>4. ASSUME NEW e \in Envs, HeartbeatFails(e)
      PROVE  /\ lease'[d].age >= reg'[ServerOf[d]].age
             /\ call'[d].beat.age >= reg'[ServerOf[d]].age
  <2>1. reg' = reg /\ lease' = lease
    BY <1>4 DEF HeartbeatFails
  <2>2. call'[d].beat = call[d].beat \/ call'[d].beat.age = TTL + 1
    BY <1>4 DEF HeartbeatFails, TypeOK, Idle, NoBeat
  <2> QED
    BY <2>1, <2>2, <1>a
<1>5. ASSUME NEW e \in Envs, TickerFires(e)
      PROVE  UNCHANGED <<lease, reg>> /\ call'[d].beat = call[d].beat
  BY <1>5 DEF TickerFires, TypeOK
<1>6. ASSUME NEW e \in Envs,
             \/ RegisterLocally(e) \/ LoopCloses(e) \/ Close(e) \/ CloseReturns(e)
             \/ PauseHeartbeat(e) \/ ResumeHeartbeat(e) \/ FreezeHeartbeatState(e)
      PROVE  UNCHANGED <<lease, reg, call>>
  BY <1>6 DEF RegisterLocally, LoopCloses, Close, CloseReturns, PauseHeartbeat,
              ResumeHeartbeat, FreezeHeartbeatState
<1>7. CASE Tick
  <2>1. reg'[ServerOf[d]].age = Min2(reg[ServerOf[d]].age + 1, TTL)
    BY <1>7 DEF Tick, TypeOK, Servers
  <2>2. lease'[d].age = Min2(lease[d].age + 1, TTL + 1)
    BY <1>7, <1>a DEF Tick, Beats
  <2>3. call'[d].beat.age = Min2(call[d].beat.age + 1, TTL + 1)
    BY <1>7, <1>a DEF Tick, Beats, TypeOK
  <2> QED
    BY <2>1, <2>2, <2>3, <1>a DEF Min2, Beats
<1>8. CASE UNCHANGED vars
  BY <1>8, <1>a DEF vars
<1> QED
  BY <1>a, <1>1, <1>2, <1>3, <1>4, <1>5, <1>6, <1>7, <1>8 DEF Next

\* An environment's lease never looks younger to it than to the registry
\* (environment.go:551): when the environment still serves, the registry does
\* not yet hand its actors to others on account of time.
THEOREM LeaseSound == Spec => []LeaseNotAhead
<1>1. Init => LeaseNotAhead
  BY LifecycleAssumption DEF Init, LeaseNotAhead, Idle, NoBeat, Servers
<1> QED
  BY <1>1, TypeCorrect, LeaseStep, PTL DEF Spec
=============================================================================
