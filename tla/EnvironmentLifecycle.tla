------------------------ MODULE EnvironmentLifecycle ------------------------
(***************************************************************************)
(* The life of an environment (virtual/environment.go): NewEnvironment,    *)
(* its heartbeat goroutine, the debug calls that pause, resume and freeze  *)
(* it, and Close; several environments of one process, one after another   *)
(* or at the same address, and the process's localEnvironmentsRouter.      *)
(*                                                                         *)
(* Time is relative: of a heartbeat only its age matters, up to the TTL,   *)
(* and of a ServerVersion only whether the registry has moved on since     *)
(* (`behind`).  Behaviours are therefore not bounded in time.              *)
(***************************************************************************)
EXTENDS Integers

CONSTANTS
    Envs,           \* environments (Go objects)
    ServerOf,       \* environment -> its serverID
    AddressOf,      \* environment -> its address
    NoEnv,
    Debugged,       \* environments whose heartbeats a test pauses or freezes
    TTL             \* HeartbeatTTL, which is also heartbeatTimeout

ASSUME LifecycleAssumption ==
    /\ TTL \in Nat \ {0}
    /\ NoEnv \notin Envs /\ Debugged \subseteq Envs

VARIABLES
    phase,          \* environment -> how far NewEnvironment or Close has come
    loop,           \* environment -> its heartbeat goroutine
    call,           \* environment -> its call of registry.Heartbeat
    lease,          \* environment -> heartbeatState.HeartbeatResult
    paused,         \* environment -> heartbeatState.paused, with its history
    frozen,         \* environment -> heartbeatState.frozen
    router,         \* address -> environment
    reg             \* server -> the registry's record of it

vars == <<phase, loop, call, lease, paused, frozen, router, reg>>
flags == <<paused, frozen>>

Servers == {ServerOf[e]: e \in Envs}
Addresses == {AddressOf[e]: e \in Envs}
Min2(a, b) == IF a < b THEN a ELSE b

(* A heartbeat as the environment knows it; of age TTL + 1 when there is none. *)
Beats == [age: 0 .. TTL + 1, behind: BOOLEAN]
NoBeat == [age |-> TTL + 1, behind |-> TRUE]
FreshBeat == [age |-> 0, behind |-> FALSE]

(* A call has nothing, has been sent, or has committed with an answer. *)
Idle == [at |-> "idle", beat |-> NoBeat]

Init ==
    /\ phase = [e \in Envs |-> "none"]
    /\ loop = [e \in Envs |-> "none"]
    /\ call = [e \in Envs |-> Idle]
    /\ lease = [e \in Envs |-> NoBeat]
    /\ paused = [e \in Envs |-> "never"]
    /\ frozen = [e \in Envs |-> FALSE]
    /\ router = [a \in Addresses |-> NoEnv]
    /\ reg = [s \in Servers |-> [age |-> TTL, by |-> NoEnv]]

(* NewEnvironment, up to its initial heartbeat *)
NewEnvironment(e) ==
    /\ phase[e] = "none"
    /\ phase' = [phase EXCEPT ![e] = "starting"]
    /\ call' = [call EXCEPT ![e].at = "sent"]
    /\ UNCHANGED <<loop, lease, flags, router, reg>>

(***************************************************************************)
(* registry.Heartbeat commits.  The version of a server that had expired   *)
(* is incremented, and what anyone knew of it is behind.                   *)
(***************************************************************************)
Commit(e) ==
    LET s == ServerOf[e]
        bumped == reg[s].by # NoEnv /\ reg[s].age >= TTL
        After(beat) == [beat EXCEPT !.behind = @ \/ bumped]
    IN  /\ call[e].at = "sent"
        /\ reg' = [reg EXCEPT ![s] = [age |-> 0, by |-> e]]
        /\ call' = [d \in Envs |->
              IF d = e THEN [at |-> "answered", beat |-> FreshBeat]
              ELSE IF ServerOf[d] = s THEN [call[d] EXCEPT !.beat = After(@)]
              ELSE call[d]]
        /\ lease' = [d \in Envs |->
              IF ServerOf[d] = s THEN After(lease[d]) ELSE lease[d]]
        /\ UNCHANGED <<phase, loop, flags, router>>

(* A variant: the lease is counted from the arrival of the answer. *)
InstallFromArrival(e) ==
    /\ call[e].at = "answered" /\ call[e].beat.age <= TTL
    /\ lease' = [lease EXCEPT ![e] =
                   IF frozen[e] THEN @ ELSE [call[e].beat EXCEPT !.age = 0]]
    /\ call' = [call EXCEPT ![e] = Idle]
    /\ phase' = [phase EXCEPT ![e] = IF @ = "starting" THEN "registering" ELSE @]
    /\ UNCHANGED <<loop, flags, router, reg>>

(* heartbeat() gets its answer before heartbeatTimeout and installs it. *)
Install(e) ==
    /\ call[e].at = "answered" /\ call[e].beat.age <= TTL
    /\ lease' = [lease EXCEPT ![e] = IF frozen[e] THEN @ ELSE call[e].beat]
    /\ call' = [call EXCEPT ![e] = Idle]
    /\ phase' = [phase EXCEPT ![e] = IF @ = "starting" THEN "registering" ELSE @]
    /\ UNCHANGED <<loop, flags, router, reg>>

(* A variant: the goroutine gives up after a heartbeat that failed. *)
HeartbeatFailsForGood(e) ==
    /\ call[e].at # "idle"
    /\ call' = [call EXCEPT ![e] = Idle]
    /\ phase' = [phase EXCEPT ![e] = IF @ = "starting" THEN "failed" ELSE @]
    /\ loop' = [loop EXCEPT ![e] = IF @ = "select" THEN "gone" ELSE @]
    /\ UNCHANGED <<lease, flags, router, reg>>

(***************************************************************************)
(* heartbeat() returns an error, before the commit or after it.  The       *)
(* goroutine logs it and goes on; NewEnvironment fails.                    *)
(***************************************************************************)
HeartbeatFails(e) ==
    /\ call[e].at # "idle"
    /\ call' = [call EXCEPT ![e] = Idle]
    /\ phase' = [phase EXCEPT ![e] = IF @ = "starting" THEN "failed" ELSE @]
    /\ UNCHANGED <<loop, lease, flags, router, reg>>

(* A variant: a second environment takes over the address. *)
RegisterLocallyAnyway(e) ==
    /\ phase[e] = "registering"
    /\ phase' = [phase EXCEPT ![e] = "up"]
    /\ router' = [router EXCEPT ![AddressOf[e]] = e]
    /\ loop' = [loop EXCEPT ![e] = "select"]
    /\ UNCHANGED <<call, lease, flags, reg>>

(***************************************************************************)
(* The end of NewEnvironment: an address can be registered once, and an    *)
(* environment that comes second fails with its heartbeat in the registry. *)
(***************************************************************************)
RegisterLocally(e) ==
    /\ phase[e] = "registering"
    /\ IF router[AddressOf[e]] # NoEnv
       THEN /\ phase' = [phase EXCEPT ![e] = "failed"]
            /\ UNCHANGED <<router, loop>>
       ELSE /\ phase' = [phase EXCEPT ![e] = "up"]
            /\ router' = [router EXCEPT ![AddressOf[e]] = e]
            /\ loop' = [loop EXCEPT ![e] = "select"]
    /\ UNCHANGED <<call, lease, flags, reg>>

(* A variant: the paused goroutine returns without closing closedCh. *)
TickerFiresSilent(e) ==
    /\ loop[e] = "select" /\ call[e].at = "idle"
    /\ IF paused[e] = "paused"
       THEN loop' = [loop EXCEPT ![e] = "none"] /\ UNCHANGED call
       ELSE call' = [call EXCEPT ![e].at = "sent"] /\ UNCHANGED loop
    /\ UNCHANGED <<phase, lease, flags, router, reg>>

(* The goroutine's select takes the ticker: it returns when paused. *)
TickerFires(e) ==
    /\ loop[e] = "select" /\ call[e].at = "idle"
    /\ IF paused[e] = "paused"
       THEN loop' = [loop EXCEPT ![e] = "gone"] /\ UNCHANGED call
       ELSE call' = [call EXCEPT ![e].at = "sent"] /\ UNCHANGED loop
    /\ UNCHANGED <<phase, lease, flags, router, reg>>

(* The goroutine's select takes closeCh; closedCh is closed as it returns. *)
LoopCloses(e) ==
    /\ loop[e] = "select" /\ call[e].at = "idle"
    /\ phase[e] = "closing"
    /\ loop' = [loop EXCEPT ![e] = "gone"]
    /\ UNCHANGED <<phase, call, lease, flags, router, reg>>

(* Close: out of the router, closeCh closed *)
Close(e) ==
    /\ phase[e] = "up"
    /\ phase' = [phase EXCEPT ![e] = "closing"]
    /\ router' = [router EXCEPT ![AddressOf[e]] = NoEnv]
    /\ UNCHANGED <<loop, call, lease, flags, reg>>

(* A variant: Close does not wait for closedCh. *)
CloseReturnsAtOnce(e) ==
    /\ phase[e] = "closing"
    /\ phase' = [phase EXCEPT ![e] = "closed"]
    /\ UNCHANGED <<loop, call, lease, flags, router, reg>>

(* Close has received from closedCh. *)
CloseReturns(e) ==
    /\ phase[e] = "closing" /\ loop[e] = "gone"
    /\ phase' = [phase EXCEPT ![e] = "closed"]
    /\ UNCHANGED <<loop, call, lease, flags, router, reg>>

(* pauseHeartbeat, resumeHeartbeat, freezeHeartbeatState *)
PauseHeartbeat(e) ==
    /\ phase[e] = "up" /\ e \in Debugged
    /\ paused' = [paused EXCEPT ![e] = "paused"]
    /\ UNCHANGED <<phase, loop, call, lease, frozen, router, reg>>

ResumeHeartbeat(e) ==
    /\ paused[e] = "paused"
    /\ paused' = [paused EXCEPT ![e] = "resumed"]
    /\ UNCHANGED <<phase, loop, call, lease, frozen, router, reg>>

FreezeHeartbeatState(e) ==
    /\ phase[e] = "up" /\ e \in Debugged
    /\ frozen' = [frozen EXCEPT ![e] = TRUE]
    /\ UNCHANGED <<phase, loop, call, lease, paused, router, reg>>

(* Time passes for the registry's records and for what is known of them. *)
Tick ==
    LET Older(beat) == [beat EXCEPT !.age = Min2(@ + 1, TTL + 1)]
    IN  /\ reg' = [s \in Servers |-> [reg[s] EXCEPT !.age = Min2(@ + 1, TTL)]]
        /\ lease' = [e \in Envs |-> Older(lease[e])]
        /\ call' = [e \in Envs |-> [call[e] EXCEPT !.beat = Older(@)]]
        /\ UNCHANGED <<phase, loop, flags, router>>

Next ==
    \/ \E e \in Envs:
        \/ NewEnvironment(e) \/ Commit(e) \/ Install(e) \/ HeartbeatFails(e)
        \/ RegisterLocally(e) \/ TickerFires(e) \/ LoopCloses(e)
        \/ Close(e) \/ CloseReturns(e)
        \/ PauseHeartbeat(e) \/ ResumeHeartbeat(e) \/ FreezeHeartbeatState(e)
    \/ Tick

Step(e) == \/ Install(e) \/ HeartbeatFails(e) \/ RegisterLocally(e)
           \/ TickerFires(e) \/ CloseReturns(e)

(***************************************************************************)
(* Time passes; goroutines are scheduled, the ticker fires, and a call     *)
(* ends within its timeout (WF of Step); heartbeats do not fail for ever   *)
(* (SF of Commit and Install); select chooses at random among what is      *)
(* ready, so closeCh is taken in the end (SF of LoopCloses).               *)
(***************************************************************************)
Fairness ==
    /\ WF_vars(Tick)
    /\ \A e \in Envs:
        /\ WF_vars(Step(e))
        /\ SF_vars(Commit(e)) /\ SF_vars(Install(e)) /\ SF_vars(LoopCloses(e))

Spec == Init /\ [][Next]_vars /\ Fairness

-----------------------------------------------------------------------------

(* Types; the router has exactly the environments that are up, so a local   *)
(* call (environment.go:590) finds the one that was opened at the address.  *)
TypeOK ==
    /\ phase \in [Envs -> {"none", "starting", "registering", "up", "failed",
                           "closing", "closed"}]
    /\ loop \in [Envs -> {"none", "select", "gone"}]
    /\ call \in [Envs -> [at: {"idle", "sent", "answered"}, beat: Beats]]
    /\ lease \in [Envs -> Beats]
    /\ paused \in [Envs -> {"never", "paused", "resumed"}]
    /\ frozen \in [Envs -> BOOLEAN]
    /\ reg \in [Servers -> [age: 0 .. TTL, by: Envs \cup {NoEnv}]]
    /\ router \in [Addresses -> Envs \cup {NoEnv}]
    /\ \A e \in Envs: phase[e] = "up" <=> router[AddressOf[e]] = e

(* What an environment knows of its last heartbeat, at any version, is never *)
(* younger than the registry's own record (environment.go:551), over any     *)
(* time and through failed heartbeats and restarts under the same serverID.  *)
LeaseNotAhead ==
    \A e \in Envs: \A beat \in {lease[e], call[e].beat}:
        beat.age >= reg[ServerOf[e]].age

(* The environment admits a fresh stamp and a fresh reference. *)
Serves(e) == ~lease[e].behind /\ lease[e].age <= TTL

Undisturbed(e) == phase[e] = "up" /\ paused[e] = "never" /\ ~frozen[e]

(* An environment that nobody pauses, freezes or closes serves again and    *)
(* again, however many of its heartbeats fail (environment.go:258).         *)
ServesAgain == \A e \in Envs: Undisturbed(e) ~> (Serves(e) \/ ~Undisturbed(e))

(* Close returns (environment.go:530), also during a heartbeat and after    *)
(* the goroutine has ended because it was paused.                           *)
CloseReturnsAtLast ==
    \A e \in Envs: (phase[e] = "closing") ~> (phase[e] = "closed")

(* After Close has returned, or NewEnvironment has failed, the environment  *)
(* heartbeats no more: its server dies in the registry and stays dead       *)
(* unless another environment takes its place.                              *)
GoneServersExpire ==
    \A e \in Envs:
        (phase[e] \in {"closed", "failed"}) ~>
            [](reg[ServerOf[e]].by # e \/ reg[ServerOf[e]].age >= TTL)

(* types.go:141: resumeHeartbeat resumes the heartbeat goroutine.           *)
ResumeResumes ==
    \A e \in Envs: (phase[e] = "up" /\ paused[e] = "resumed" /\ ~frozen[e]) ~>
        (Serves(e) \/ phase[e] # "up" \/ paused[e] # "resumed" \/ frozen[e])
=============================================================================
