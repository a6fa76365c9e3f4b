------------------------- MODULE ActivationsProofs -------------------------
(***************************************************************************)
(* Proofs about module Activations, for any goroutines, actors and bounds. *)
(***************************************************************************)
EXTENDS Activations, TLAPS

\* Where a goroutine has a future in hand, and where it has created it and not
\* yet resolved or rejected it.
Holding == {"wait", "relock", "closePrev", "module", "startup", "starting", "closeFailed",
            "cleanup", "reject", "resolve", "invoke", "running"}
Creating == {"closePrev", "module", "startup", "starting", "closeFailed", "cleanup",
             "reject", "resolve"}

\* What a goroutine knows of the actor it is for, of the future it has in hand
\* and of the one it replaces.
CallOK(p) ==
    /\ ~At(p, "idle") => proc[p].id \in ActorIDs /\ proc[p].gen \in 1..MaxGen
    /\ proc[p].pc \in Holding =>
         proc[p].fut \in Futures /\ act[proc[p].fut].id = proc[p].id
    /\ proc[p].pc \in Creating => act[proc[p].fut].fut = "pending"
    /\ proc[p].pc \in {"relock", "invoke", "running"} => act[proc[p].fut].fut = "ok"
    /\ proc[p].pc \in {"startup", "starting", "resolve", "invoke", "running"} =>
         act[proc[p].fut].gen >= proc[p].gen
    /\ proc[p].pc \in {"starting", "running"} => act[proc[p].fut].lock = p
    /\ proc[p].pc \in {"closePrev", "module"} => act[proc[p].fut].inst = "none"
    /\ proc[p].pc \in {"startup", "starting", "closeFailed", "resolve"} =>
         act[proc[p].fut].inst # "none"
    /\ proc[p].pc \in {"cleanup", "reject"} => act[proc[p].fut].inst # "open"
    /\ At(p, "reject") => \A id \in ActorIDs : actors[id] # proc[p].fut
    /\ At(p, "closePrev") =>
         /\ proc[p].prev \in Futures
         /\ act[proc[p].prev].id = proc[p].id /\ act[proc[p].prev].fut = "ok"
         /\ \A id \in ActorIDs : actors[id] # proc[p].prev

\* A future has one creator.
OneCreator ==
    \A p, q \in Procs :
        /\ proc[p].pc \in Creating /\ proc[q].pc \in Creating
        /\ proc[p].fut = proc[q].fut
        => p = q

\* What the map, the mutexes of actors and their references agree on.
ActivationOK(f) ==
    /\ act[f].inst # "none" => act[f].gen > 0 /\ act[f].id \in ActorIDs
    /\ act[f].fut = "ok" => act[f].inst # "none"
    /\ act[f].lock \in Procs => act[f].inst = "open"
    /\ act[f].lock = Collector => act[f].inst = "closed"
    /\ \A id \in ActorIDs : actors[id] = f => act[f].id = id

\* The part of the inductive invariant that holds however long an activation
\* takes.
ActInv ==
    /\ TypeOK
    /\ \A p \in Procs : CallOK(p)
    /\ OneCreator
    /\ \A f \in Futures : ActivationOK(f)
    /\ FailedFutureIsNotFound
    /\ ClosedActorIsOnItsWayOut

\* The part that needs an activation to be faster than _gcAfter: a goroutine
\* that creates a future has it in the map until it cleans up.
PromptInv ==
    /\ \A p \in Procs : proc[p].pc \in Creating \ {"reject"} =>
                            actors[proc[p].id] = proc[p].fut
    /\ \A f \in Futures : act[f].lock = Collector => act[f].fut = "ok"
    /\ OpenInstanceIsReachable

-----------------------------------------------------------------------------
\* Records of calls and activations have typed fields.
LEMMA Fields ==
    ASSUME TypeOK
    PROVE  /\ \A p \in Procs : proc[p] \in CallState
           /\ \A f \in Futures : act[f] \in Activation
           /\ \A id \in ActorIDs : actors[id] \in 0..MaxFut
  BY Zenon DEF TypeOK

\* A step of one goroutine that leaves the map and the actors alone.
LEMMA CallOnlyStep ==
    ASSUME ActInv, NEW p \in Procs, UNCHANGED <<actors, act>>,
           held' \in BOOLEAN, timers' \subseteq Timer, proc' \in [Procs -> CallState],
           \A q \in Procs : q # p => proc'[q] = proc[q],
           CallOK(p)',
           proc'[p].pc \in Creating => proc[p].pc \in Creating /\ proc'[p].fut = proc[p].fut,
           ~At(p, "cleanup")
    PROVE  ActInv'
<1>1. TypeOK'
  BY Zenon DEF ActInv, TypeOK
<1>2. ASSUME NEW q \in Procs PROVE CallOK(q)'
  BY DEF ActInv, CallOK, At
<1>3. OneCreator'
  BY Zenon DEF ActInv, OneCreator
<1>4. ASSUME NEW f \in Futures PROVE ActivationOK(f)'
  BY Zenon DEF ActInv, ActivationOK
<1>5. FailedFutureIsNotFound'
  BY Zenon DEF ActInv, FailedFutureIsNotFound
<1>6. ClosedActorIsOnItsWayOut'
  BY Zenon DEF ActInv, ClosedActorIsOnItsWayOut, At
<1> QED
  BY <1>1, <1>2, <1>3, <1>4, <1>5, <1>6, Zenon DEF ActInv

\* The record of a call that has returned.
LEMMA NoCallType == NoCall \in CallState /\ NoCall.pc = "idle"
  BY ActivationsAssumption DEF NoCall, CallState

\* A call returns.
LEMMA ReturnStep ==
    ASSUME ActInv, NEW p \in Procs, Return(p), UNCHANGED <<actors, act, timers>>,
           held' \in BOOLEAN, ~At(p, "cleanup")
    PROVE  ActInv'
<1>1. /\ proc' \in [Procs -> CallState] /\ proc'[p].pc = "idle"
      /\ \A q \in Procs : q # p => proc'[q] = proc[q]
  BY NoCallType, Zenon DEF Return, ActInv, TypeOK
<1>2. CallOK(p)'
  BY <1>1, Zenon DEF CallOK, At, Holding, Creating
<1> QED
  BY <1>1, <1>2, CallOnlyStep, Zenon DEF ActInv, TypeOK, Creating

\* The record of a call that somebody has made.
LEMMA CalledFields ==
    ASSUME NEW id \in ActorIDs, NEW gen \in 1..MaxGen
    PROVE  \A call \in {[NoCall EXCEPT !.pc = "lookup", !.id = id, !.gen = gen]} :
               call \in CallState /\ call.pc = "lookup" /\ call.id = id /\ call.gen = gen
<1>1. gen \in 0..MaxGen /\ NoCall \in CallState
  BY NoCallType
<1> QED
  BY <1>1, ZenonT(30) DEF CallState, NoCall

\* The record of a call that a timer has made.
LEMMA FiredFields ==
    ASSUME NEW t \in Timer
    PROVE  \A call \in {[NoCall EXCEPT !.pc = "lookup", !.id = t.id, !.gen = t.gen,
                                       !.origin = t.origin]} :
               call \in CallState /\ call.pc = "lookup" /\ call.id = t.id /\ call.gen = t.gen
<1>1. t.id \in ActorIDs /\ t.gen \in 0..MaxGen /\ t.origin \in 0..MaxFut /\ NoCall \in CallState
  BY NoCallType DEF Timer, Futures
<1> QED
  BY <1>1, Zenon DEF CallState, NoCall

\* A call is made.
LEMMA InvokeStep ==
    ASSUME ActInv, NEW p \in Procs, NEW id \in ActorIDs, NEW gen \in 1..MaxGen,
           Invoke(p, id, gen)
    PROVE  ActInv'
<1> DEFINE call == [NoCall EXCEPT !.pc = "lookup", !.id = id, !.gen = gen]
<1>1. call \in CallState /\ call.pc = "lookup" /\ call.id = id /\ call.gen = gen
  BY CalledFields, Zenon
<1>2. /\ proc' \in [Procs -> CallState] /\ proc'[p] = call
      /\ \A q \in Procs : q # p => proc'[q] = proc[q]
  BY <1>1, Zenon DEF Invoke, ActInv, TypeOK
<1> HIDE DEF call
<1>3. CallOK(p)'
  BY <1>1, <1>2, Zenon DEF CallOK, At, Holding, Creating
<1>4. At(p, "idle") /\ UNCHANGED <<held, actors, act, timers>>
  BY Zenon DEF Invoke
<1> QED
  BY <1>1, <1>2, <1>3, <1>4, CallOnlyStep, Zenon DEF ActInv, TypeOK, Creating, At

\* A timer fires, with the reference of the actor that scheduled it.
LEMMA FireTimerStep ==
    ASSUME ActInv, NEW p \in Procs, NEW t \in timers, FireTimer(p, t)
    PROVE  ActInv'
<1> DEFINE call == [NoCall EXCEPT !.pc = "lookup", !.id = t.id, !.gen = t.gen,
                                  !.origin = t.origin]
<1>1. t \in Timer /\ t.id \in ActorIDs /\ t.gen \in 1..MaxGen
  BY Zenon DEF ActInv, TypeOK, Timer
<1>2. call \in CallState /\ call.pc = "lookup" /\ call.id = t.id /\ call.gen = t.gen
  BY <1>1, FiredFields, Zenon
<1>3. /\ proc' \in [Procs -> CallState] /\ proc'[p] = call
      /\ \A q \in Procs : q # p => proc'[q] = proc[q]
  BY <1>2, Zenon DEF FireTimer, ActInv, TypeOK
<1> HIDE DEF call
<1>4. CallOK(p)'
  BY <1>1, <1>2, <1>3, Zenon DEF CallOK, At, Holding, Creating
<1>5. At(p, "idle") /\ UNCHANGED <<held, actors, act>> /\ timers' \subseteq timers
  BY Zenon DEF FireTimer
<1> QED
  BY <1>2, <1>3, <1>4, <1>5, CallOnlyStep, Zenon DEF ActInv, TypeOK, Creating, At

\* The future a goroutine waits for is resolved or rejected.
LEMMA WaitStep ==
    ASSUME ActInv, NEW p \in Procs, Wait(p)
    PROVE  ActInv'
<1> DEFINE f == proc[p].fut
<1>1. /\ At(p, "wait") /\ act[f].fut # "pending"
      /\ UNCHANGED <<held, actors, act, timers>>
  BY Zenon DEF Wait
<1>2. /\ f \in Futures /\ act[f].id = proc[p].id /\ proc[p] \in CallState
      /\ act[f] \in Activation /\ proc[p].id \in ActorIDs /\ proc[p].gen \in 1..MaxGen
  BY <1>1, Fields, Zenon DEF ActInv, CallOK, At, Holding
<1>3. CASE Return(p)
  BY <1>1, <1>3, ReturnStep, Zenon DEF ActInv, TypeOK, At
<1>4. CASE ~Return(p)
  <2>1. act[f].fut = "ok" /\ AfterWait(p) # "idle" /\ Goto(p, AfterWait(p))
    BY <1>1, <1>2, <1>4, Zenon DEF Wait, Activation
  <2>2. \/ AfterWait(p) = "invoke" /\ act[f].gen >= proc[p].gen
        \/ AfterWait(p) = "relock"
    BY <2>1, Zenon DEF AfterWait
  <2>3. /\ proc'[p].pc = AfterWait(p) /\ proc'[p].id = proc[p].id
        /\ proc'[p].gen = proc[p].gen /\ proc'[p].fut = f
        /\ proc' \in [Procs -> CallState]
        /\ \A q \in Procs : q # p => proc'[q] = proc[q]
    BY <1>2, <2>1, <2>2, Zenon DEF Goto, ActInv, TypeOK, CallState
  <2>4. CallOK(p)'
    BY <1>1, <1>2, <2>1, <2>2, <2>3, Zenon DEF CallOK, At, Holding, Creating
  <2> QED
    BY <1>1, <2>2, <2>3, <2>4, CallOnlyStep, Zenon DEF ActInv, TypeOK, Creating, At
<1> QED
  BY <1>3, <1>4, Zenon

\* A step of one goroutine that changes one future or its actor.
LEMMA FutureStep ==
    ASSUME ActInv, NEW p \in Procs, NEW f \in Futures, UNCHANGED actors,
           held' \in BOOLEAN, timers' \subseteq Timer,
           proc' \in [Procs -> CallState], \A q \in Procs : q # p => proc'[q] = proc[q],
           act' \in [Futures -> Activation], \A g \in Futures : g # f => act'[g] = act[g],
           act'[f].id = act[f].id,
           act[f].fut = "ok" => act'[f].fut = "ok" /\ act'[f].gen = act[f].gen,
           act[f].inst # "none" => act'[f].inst # "none",
           act[f].fut # "ok" => proc[p].pc \in Creating /\ proc[p].fut = f,
           act[f].lock \in {Nobody, p, act'[f].lock},
           CallOK(p)', ActivationOK(f)',
           proc'[p].pc \in Creating => proc[p].pc \in Creating /\ proc'[p].fut = proc[p].fut,
           \A id \in ActorIDs : actors[id] = f =>
               /\ act'[f].fut # "err"
               /\ act'[f].inst = "closed" => \/ act'[f].lock = Collector
                                             \/ At(p, "cleanup")' /\ proc'[p].fut = f,
           ~At(p, "cleanup")
    PROVE  ActInv'
<1>1. ASSUME NEW g \in Futures PROVE ActivationOK(g)'
  BY DEF ActInv, ActivationOK
<1>2. TypeOK'
  BY <1>1, Zenon DEF ActInv, TypeOK, ActivationOK
<1>3. ASSUME NEW q \in Procs, q # p PROVE CallOK(q)'
  <2>1. proc'[q] = proc[q] /\ CallOK(q) /\ q # Nobody
    BY <1>3, ActivationsAssumption, Zenon DEF ActInv
  <2>2. CASE proc[q].pc \in Creating /\ proc[q].fut = f
    <3>1. act[f].fut = "pending"
      BY <2>1, <2>2, Zenon DEF CallOK
    <3> QED
      BY <1>3, <2>2, <3>1, Zenon DEF ActInv, OneCreator
  <2>3. CASE proc[q].pc \notin Creating \/ proc[q].fut # f
    BY <1>3, <2>1, <2>3, SMTT(30) DEF CallOK, At, Creating, Holding
  <2> QED
    BY <2>2, <2>3, Zenon
<1>4. OneCreator'
  BY DEF ActInv, OneCreator
<1>5. FailedFutureIsNotFound'
  BY DEF ActInv, FailedFutureIsNotFound, TypeOK, Futures
<1>6. ClosedActorIsOnItsWayOut'
  <2> SUFFICES ASSUME NEW id \in ActorIDs, actors[id] # 0, act'[actors[id]].inst = "closed"
               PROVE  \/ act'[actors[id]].lock = Collector
                      \/ \E q \in Procs : At(q, "cleanup")' /\ proc'[q].fut = actors[id]
    BY Zenon DEF ClosedActorIsOnItsWayOut
  <2>1. CASE actors[id] = f
    BY <2>1, Zenon
  <2>2. CASE actors[id] # f
    <3>1. actors[id] \in Futures
      BY DEF ActInv, TypeOK, Futures
    <3> QED
      BY <2>2, <3>1, Zenon DEF ActInv, ClosedActorIsOnItsWayOut, At
  <2> QED
    BY <2>1, <2>2, Zenon
<1> QED
  BY <1>1, <1>2, <1>3, <1>4, <1>5, <1>6, Zenon DEF ActInv

\* The instance that is replaced is closed.
LEMMA ClosePrevStep ==
    ASSUME ActInv, NEW p \in Procs, ClosePrev(p)
    PROVE  ActInv'
<1>1. PICK f \in Futures : f = proc[p].prev
  BY Zenon DEF ClosePrev, ActInv, CallOK, At
<1>2. /\ At(p, "closePrev") /\ act[f].lock = Nobody /\ CallOK(p)
      /\ UNCHANGED <<held, actors, timers>>
  BY <1>1, Zenon DEF ClosePrev, Close, ActInv
<1>3. /\ act[f].fut = "ok" /\ act[f].inst # "none"
      /\ act[f].gen > 0 /\ act[f].id \in ActorIDs
      /\ \A id \in ActorIDs : actors[id] # f
  BY <1>1, <1>2, Zenon DEF ActInv, CallOK, ActivationOK, At
<1>4. /\ act' \in [Futures -> Activation] /\ \A g \in Futures : g # f => act'[g] = act[g]
      /\ act'[f].id = act[f].id /\ act'[f].fut = "ok" /\ act'[f].gen = act[f].gen
      /\ act'[f].lock = Nobody /\ act'[f].inst = "closed"
  BY <1>1, <1>2, <1>3, Fields, Zenon DEF ClosePrev, Close, ActInv, TypeOK, Activation
<1>5. /\ proc' \in [Procs -> CallState] /\ \A q \in Procs : q # p => proc'[q] = proc[q]
      /\ proc'[p].pc = "module" /\ proc'[p].id = proc[p].id /\ proc'[p].gen = proc[p].gen
      /\ proc'[p].fut = proc[p].fut
  <2>1. 0 \in 0..MaxFut /\ proc[p] \in CallState
    BY ActivationsAssumption, Fields DEF ActInv
  <2> QED
    BY <2>1, Zenon DEF ClosePrev, ActInv, TypeOK, CallState
<1>6. CallOK(p)'
  <2>1. proc[p].fut # f
    BY <1>2, <1>3, Zenon DEF CallOK, Creating, At
  <2> QED
    BY <1>2, <1>4, <1>5, <2>1, Zenon DEF CallOK, At, Creating, Holding
<1>7. ActivationOK(f)'
  BY <1>2, <1>3, <1>4, ActivationsAssumption, Zenon DEF ActivationOK
<1>8. held' \in BOOLEAN /\ timers' \subseteq Timer
  BY <1>2, Zenon DEF ActInv, TypeOK
<1> QED
  BY <1>2, <1>3, <1>4, <1>5, <1>6, <1>7, <1>8, FutureStep, Zenon DEF At, Creating

\* What Goto does to the record of a call.
LEMMA GotoFields ==
    ASSUME TypeOK, NEW p \in Procs, NEW label, Goto(p, label),
           label \in {"invoke", "startup", "starting", "closeFailed", "cleanup", "reject",
                     "resolve", "running"}
    PROVE  /\ proc' \in [Procs -> CallState] /\ \A q \in Procs : q # p => proc'[q] = proc[q]
           /\ proc'[p].pc = label /\ proc'[p].id = proc[p].id /\ proc'[p].gen = proc[p].gen
           /\ proc'[p].fut = proc[p].fut
<1>1. proc[p] \in CallState
  BY Fields, Zenon
<1> QED
  BY <1>1, Zenon DEF Goto, TypeOK, CallState

\* What Return does to it.
LEMMA ReturnFields ==
    ASSUME TypeOK, NEW p \in Procs, Return(p)
    PROVE  /\ proc' \in [Procs -> CallState] /\ \A q \in Procs : q # p => proc'[q] = proc[q]
           /\ proc'[p].pc = "idle" /\ CallOK(p)'
<1>1. /\ proc' \in [Procs -> CallState] /\ \A q \in Procs : q # p => proc'[q] = proc[q]
      /\ proc'[p].pc = "idle"
  BY NoCallType, Zenon DEF Return, TypeOK
<1> QED
  BY <1>1, Zenon DEF CallOK, At, Holding, Creating

\* ensureModule or Instantiate fails, or an instance is built.
LEMMA EnsureModuleStep ==
    ASSUME ActInv, NEW p \in Procs, EnsureModule(p)
    PROVE  ActInv'
<1>1. PICK f \in Futures : f = proc[p].fut
  BY Zenon DEF EnsureModule, ActInv, CallOK, At, Holding
<1>2. /\ At(p, "module") /\ CallOK(p) /\ UNCHANGED <<held, actors, timers>>
      /\ held' \in BOOLEAN /\ timers' \subseteq Timer /\ TypeOK
  BY Zenon DEF EnsureModule, ActInv, TypeOK
<1>3. /\ act[f].fut = "pending" /\ act[f].inst = "none" /\ act[f].id = proc[p].id
      /\ proc[p].id \in ActorIDs /\ proc[p].gen \in 1..MaxGen
      /\ act[f] \in Activation /\ act[f].lock \notin Procs \cup {Collector}
      /\ \A id \in ActorIDs : actors[id] = f => act[f].id = id
  BY <1>1, <1>2, Fields, Zenon DEF ActInv, CallOK, ActivationOK, At, Holding, Creating
<1>4. CASE Goto(p, "cleanup") /\ UNCHANGED act
  <2>1. /\ proc' \in [Procs -> CallState] /\ \A q \in Procs : q # p => proc'[q] = proc[q]
        /\ proc'[p].pc = "cleanup" /\ proc'[p].id = proc[p].id
        /\ proc'[p].gen = proc[p].gen /\ proc'[p].fut = proc[p].fut
    BY <1>2, <1>4, GotoFields, Zenon
  <2>2. CallOK(p)'
    BY <1>1, <1>2, <1>3, <1>4, <2>1, Zenon DEF CallOK, At, Holding, Creating
  <2> QED
    BY <1>2, <1>4, <2>1, <2>2, CallOnlyStep, Zenon DEF At, Creating
<1>5. CASE /\ act' = [act EXCEPT ![f].inst = "open", ![f].gen = proc[p].gen]
           /\ Goto(p, "startup")
  <2>1. /\ proc' \in [Procs -> CallState] /\ \A q \in Procs : q # p => proc'[q] = proc[q]
        /\ proc'[p].pc = "startup" /\ proc'[p].id = proc[p].id
        /\ proc'[p].gen = proc[p].gen /\ proc'[p].fut = proc[p].fut
    BY <1>2, <1>5, GotoFields, Zenon
  <2>2. /\ act' \in [Futures -> Activation]
        /\ \A g \in Futures : g # f => act'[g] = act[g]
        /\ act'[f].id = act[f].id /\ act'[f].fut = "pending" /\ act'[f].gen = proc[p].gen
        /\ act'[f].lock = act[f].lock /\ act'[f].inst = "open"
    <3>1. proc[p].gen \in 0..MaxGen
      BY <1>3
    <3> QED
      BY <1>2, <1>3, <1>5, <3>1, Zenon DEF TypeOK, Activation
  <2>3. CallOK(p)'
    BY <1>1, <1>2, <1>3, <2>1, <2>2, SMTT(30) DEF CallOK, At, Holding, Creating
  <2>4. ActivationOK(f)'
    BY <1>2, <1>3, <2>2, ActivationsAssumption DEF ActivationOK
  <2>5. act[f].lock = Nobody
    BY <1>3, Zenon DEF Activation
  <2> QED
    BY <1>1, <1>2, <1>3, <2>1, <2>2, <2>3, <2>4, <2>5, FutureStep, Zenon DEF At, Creating
<1> QED
  BY <1>1, <1>4, <1>5, Zenon DEF EnsureModule

\* What taking and releasing an actor's mutex does to it.
LEMMA LockFields ==
    ASSUME TypeOK, NEW f \in Futures, NEW holder \in Procs \cup {Nobody},
           act' = [act EXCEPT ![f].lock = holder]
    PROVE  /\ act' \in [Futures -> Activation] /\ \A g \in Futures : g # f => act'[g] = act[g]
           /\ act'[f].id = act[f].id /\ act'[f].fut = act[f].fut /\ act'[f].gen = act[f].gen
           /\ act'[f].inst = act[f].inst /\ act'[f].lock = holder
<1>1. act[f] \in Activation
  BY Fields, Zenon
<1> QED
  BY <1>1, Zenon DEF TypeOK, Activation

\* The STARTUP operation begins, or finds the actor closed.
LEMMA BeginStartupStep ==
    ASSUME ActInv, NEW p \in Procs, BeginStartup(p)
    PROVE  ActInv'
<1>1. PICK f \in Futures : f = proc[p].fut
  BY Zenon DEF BeginStartup, ActInv, CallOK, At, Holding
<1>2. /\ At(p, "startup") /\ CallOK(p) /\ UNCHANGED <<held, actors, timers>>
      /\ held' \in BOOLEAN /\ timers' \subseteq Timer /\ TypeOK /\ act[f].lock = Nobody
  BY <1>1, Zenon DEF BeginStartup, Enter, ActInv, TypeOK
<1>3. /\ act[f].fut = "pending" /\ act[f].inst # "none" /\ act[f].id = proc[p].id
      /\ act[f].gen >= proc[p].gen
      /\ proc[p].id \in ActorIDs /\ proc[p].gen \in 1..MaxGen /\ ActivationOK(f)
  BY <1>1, <1>2, Zenon DEF ActInv, CallOK, At, Holding, Creating
<1>4. CASE Goto(p, "closeFailed") /\ UNCHANGED act
  <2>1. /\ proc' \in [Procs -> CallState] /\ \A q \in Procs : q # p => proc'[q] = proc[q]
        /\ proc'[p].pc = "closeFailed" /\ proc'[p].id = proc[p].id
        /\ proc'[p].gen = proc[p].gen /\ proc'[p].fut = proc[p].fut
    BY <1>2, <1>4, GotoFields, Zenon
  <2>2. CallOK(p)'
    BY <1>1, <1>2, <1>3, <1>4, <2>1, Zenon DEF CallOK, At, Holding, Creating
  <2> QED
    BY <1>2, <1>4, <2>1, <2>2, CallOnlyStep, Zenon DEF At, Creating
<1>5. CASE act[f].inst = "open" /\ act' = [act EXCEPT ![f].lock = p] /\ Goto(p, "starting")
  <2>1. /\ proc' \in [Procs -> CallState] /\ \A q \in Procs : q # p => proc'[q] = proc[q]
        /\ proc'[p].pc = "starting" /\ proc'[p].id = proc[p].id
        /\ proc'[p].gen = proc[p].gen /\ proc'[p].fut = proc[p].fut
    BY <1>2, <1>5, GotoFields, Zenon
  <2>2. /\ act' \in [Futures -> Activation]
        /\ \A g \in Futures : g # f => act'[g] = act[g]
        /\ act'[f].id = act[f].id /\ act'[f].fut = act[f].fut /\ act'[f].gen = act[f].gen
        /\ act'[f].inst = act[f].inst /\ act'[f].lock = p
    BY <1>2, <1>5, LockFields, Zenon
  <2>3. CallOK(p)'
    BY <1>1, <1>2, <1>3, <2>1, <2>2, Zenon DEF CallOK, At, Holding, Creating
  <2>4. ActivationOK(f)'
    BY <1>2, <1>3, <1>5, <2>2, ActivationsAssumption, Zenon DEF ActivationOK
  <2> QED
    BY <1>1, <1>2, <1>3, <1>5, <2>1, <2>2, <2>3, <2>4, FutureStep, Zenon DEF At, Creating
<1> QED
  BY <1>1, <1>4, <1>5, Zenon DEF BeginStartup, Enter

\* An operation begins, or finds the actor closed and fails.
LEMMA BeginInvokeStep ==
    ASSUME ActInv, NEW p \in Procs, BeginInvoke(p)
    PROVE  ActInv'
<1>1. PICK f \in Futures : f = proc[p].fut
  BY Zenon DEF BeginInvoke, ActInv, CallOK, At, Holding
<1>2. /\ At(p, "invoke") /\ CallOK(p) /\ UNCHANGED <<held, actors, timers>>
      /\ held' \in BOOLEAN /\ timers' \subseteq Timer /\ TypeOK /\ act[f].lock = Nobody
  BY <1>1, Zenon DEF BeginInvoke, Enter, ActInv, TypeOK
<1>3. /\ act[f].fut = "ok" /\ act[f].id = proc[p].id /\ act[f].gen >= proc[p].gen
      /\ proc[p].id \in ActorIDs /\ proc[p].gen \in 1..MaxGen /\ ActivationOK(f)
  BY <1>1, <1>2, Zenon DEF ActInv, CallOK, At, Holding
<1>4. CASE Return(p) /\ UNCHANGED act
  BY <1>2, <1>4, ReturnStep, Zenon DEF At
<1>5. CASE act[f].inst = "open" /\ act' = [act EXCEPT ![f].lock = p] /\ Goto(p, "running")
  <2>1. /\ proc' \in [Procs -> CallState] /\ \A q \in Procs : q # p => proc'[q] = proc[q]
        /\ proc'[p].pc = "running" /\ proc'[p].id = proc[p].id
        /\ proc'[p].gen = proc[p].gen /\ proc'[p].fut = proc[p].fut
    BY <1>2, <1>5, GotoFields, Zenon
  <2>2. /\ act' \in [Futures -> Activation]
        /\ \A g \in Futures : g # f => act'[g] = act[g]
        /\ act'[f].id = act[f].id /\ act'[f].fut = act[f].fut /\ act'[f].gen = act[f].gen
        /\ act'[f].inst = act[f].inst /\ act'[f].lock = p
    BY <1>2, <1>5, LockFields, Zenon
  <2>3. CallOK(p)'
    BY <1>1, <1>2, <1>3, <2>1, <2>2, Zenon DEF CallOK, At, Holding, Creating
  <2>4. ActivationOK(f)'
    BY <1>2, <1>3, <1>5, <2>2, ActivationsAssumption, Zenon DEF ActivationOK
  <2> QED
    BY <1>1, <1>2, <1>3, <1>5, <2>1, <2>2, <2>3, <2>4, FutureStep, SMTT(30) DEF At, Creating
<1> QED
  BY <1>1, <1>4, <1>5, Zenon DEF BeginInvoke, Enter

\* An operation that runs may schedule a timer, with the actor's reference.
LEMMA TimersType ==
    ASSUME TypeOK, NEW p \in Procs, proc[p].fut \in Futures,
           act[proc[p].fut].inst = "open", MaySchedule(p)
    PROVE  timers' \subseteq Timer
<1>1. act[proc[p].fut] \in Activation /\ act[proc[p].fut].id \in ActorIDs
      /\ act[proc[p].fut].gen > 0
  BY Fields, Zenon DEF TypeOK
<1>2. act[proc[p].fut].gen \in 1..MaxGen
  BY <1>1, ActivationsAssumption DEF Activation
<1> QED
  BY <1>1, <1>2, SMTT(30) DEF MaySchedule, Timer, TypeOK

\* The STARTUP operation ends.
LEMMA EndStartupStep ==
    ASSUME ActInv, NEW p \in Procs, EndStartup(p)
    PROVE  ActInv'
<1>1. PICK f \in Futures : f = proc[p].fut
  BY Zenon DEF EndStartup, ActInv, CallOK, At, Holding
<1>2. /\ At(p, "starting") /\ CallOK(p) /\ UNCHANGED <<held, actors>>
      /\ held' \in BOOLEAN /\ TypeOK
  BY Zenon DEF EndStartup, ActInv, TypeOK
<1>3. /\ act[f].fut = "pending" /\ act[f].id = proc[p].id /\ act[f].gen >= proc[p].gen
      /\ act[f].lock = p /\ act[f].inst = "open"
      /\ proc[p].id \in ActorIDs /\ proc[p].gen \in 1..MaxGen /\ ActivationOK(f)
  BY <1>1, <1>2, Zenon DEF ActInv, CallOK, ActivationOK, At, Holding, Creating
<1>4. timers' \subseteq Timer
  BY <1>1, <1>2, <1>3, TimersType, Zenon DEF EndStartup
<1>5. PICK label \in {"resolve", "closeFailed"} : Goto(p, label)
  BY Zenon DEF EndStartup
<1>6. /\ proc' \in [Procs -> CallState] /\ \A q \in Procs : q # p => proc'[q] = proc[q]
      /\ proc'[p].pc = label /\ proc'[p].id = proc[p].id
      /\ proc'[p].gen = proc[p].gen /\ proc'[p].fut = proc[p].fut
  BY <1>2, <1>5, GotoFields, Zenon
<1>7. /\ act' \in [Futures -> Activation]
      /\ \A g \in Futures : g # f => act'[g] = act[g]
      /\ act'[f].id = act[f].id /\ act'[f].fut = act[f].fut /\ act'[f].gen = act[f].gen
      /\ act'[f].inst = act[f].inst /\ act'[f].lock = Nobody
  BY <1>1, <1>2, LockFields, Zenon DEF EndStartup, Leave
<1>8. CallOK(p)'
  BY <1>1, <1>2, <1>3, <1>6, <1>7, Zenon DEF CallOK, At, Holding, Creating
<1>9. ActivationOK(f)'
  BY <1>2, <1>3, <1>7, ActivationsAssumption, Zenon DEF ActivationOK
<1> QED
  BY <1>1, <1>2, <1>3, <1>4, <1>6, <1>7, <1>8, <1>9, FutureStep, Zenon DEF At, Creating

\* An operation ends and its call returns.
LEMMA EndInvokeStep ==
    ASSUME ActInv, NEW p \in Procs, EndInvoke(p)
    PROVE  ActInv'
<1>1. PICK f \in Futures : f = proc[p].fut
  BY Zenon DEF EndInvoke, ActInv, CallOK, At, Holding
<1>2. /\ At(p, "running") /\ CallOK(p) /\ UNCHANGED <<held, actors>>
      /\ held' \in BOOLEAN /\ TypeOK
  BY Zenon DEF EndInvoke, ActInv, TypeOK
<1>3. act[f].fut = "ok" /\ act[f].lock = p /\ act[f].inst = "open" /\ ActivationOK(f)
  BY <1>1, <1>2, Zenon DEF ActInv, CallOK, ActivationOK, At
<1>4. timers' \subseteq Timer
  BY <1>1, <1>2, <1>3, TimersType, Zenon DEF EndInvoke
<1>5. /\ proc' \in [Procs -> CallState] /\ \A q \in Procs : q # p => proc'[q] = proc[q]
      /\ proc'[p].pc = "idle" /\ CallOK(p)'
  BY <1>2, ReturnFields, Zenon DEF EndInvoke
<1>6. /\ act' \in [Futures -> Activation]
      /\ \A g \in Futures : g # f => act'[g] = act[g]
      /\ act'[f].id = act[f].id /\ act'[f].fut = act[f].fut /\ act'[f].gen = act[f].gen
      /\ act'[f].inst = act[f].inst /\ act'[f].lock = Nobody
  BY <1>1, <1>2, LockFields, Zenon DEF EndInvoke, Leave
<1>7. ActivationOK(f)'
  BY <1>2, <1>3, <1>6, ActivationsAssumption, Zenon DEF ActivationOK
<1> QED
  BY <1>1, <1>2, <1>3, <1>4, <1>5, <1>6, <1>7, FutureStep, Zenon DEF At, Creating

\* An instance that did not start is closed.
LEMMA CloseFailedStep ==
    ASSUME ActInv, NEW p \in Procs, CloseFailed(p)
    PROVE  ActInv'
<1>1. PICK f \in Futures : f = proc[p].fut
  BY Zenon DEF CloseFailed, ActInv, CallOK, At, Holding
<1>2. /\ At(p, "closeFailed") /\ CallOK(p) /\ UNCHANGED <<held, actors, timers>>
      /\ held' \in BOOLEAN /\ timers' \subseteq Timer /\ TypeOK /\ act[f].lock = Nobody
  BY <1>1, Zenon DEF CloseFailed, Close, ActInv, TypeOK
<1>3. /\ act[f].fut = "pending" /\ act[f].id = proc[p].id /\ act[f].inst # "none"
      /\ act[f] \in Activation
      /\ proc[p].id \in ActorIDs /\ proc[p].gen \in 1..MaxGen /\ ActivationOK(f)
  BY <1>1, <1>2, Fields, Zenon DEF ActInv, CallOK, At, Holding, Creating
<1>4. /\ proc' \in [Procs -> CallState] /\ \A q \in Procs : q # p => proc'[q] = proc[q]
      /\ proc'[p].pc = "cleanup" /\ proc'[p].id = proc[p].id
      /\ proc'[p].gen = proc[p].gen /\ proc'[p].fut = proc[p].fut
  BY <1>2, GotoFields, Zenon DEF CloseFailed
<1>5. /\ act' \in [Futures -> Activation]
      /\ \A g \in Futures : g # f => act'[g] = act[g]
      /\ act'[f].id = act[f].id /\ act'[f].fut = act[f].fut /\ act'[f].gen = act[f].gen
      /\ act'[f].inst = "closed" /\ act'[f].lock = Nobody
  BY <1>1, <1>2, <1>3, Zenon DEF CloseFailed, Close, TypeOK, Activation
<1>6. CallOK(p)'
  BY <1>1, <1>2, <1>3, <1>4, <1>5, Zenon DEF CallOK, At, Holding, Creating
<1>7. ActivationOK(f)'
  BY <1>2, <1>3, <1>5, ActivationsAssumption, Zenon DEF ActivationOK
<1> QED
  BY <1>1, <1>2, <1>3, <1>4, <1>5, <1>6, <1>7, FutureStep, Zenon DEF At, Creating

\* The future of an actor that was activated is resolved.
LEMMA ResolveStep ==
    ASSUME ActInv, NEW p \in Procs, Resolve(p)
    PROVE  ActInv'
<1>1. PICK f \in Futures : f = proc[p].fut
  BY Zenon DEF Resolve, ActInv, CallOK, At, Holding
<1>2. /\ At(p, "resolve") /\ CallOK(p) /\ UNCHANGED <<held, actors, timers>>
      /\ held' \in BOOLEAN /\ timers' \subseteq Timer /\ TypeOK
  BY <1>1, Zenon DEF Resolve, ActInv, TypeOK
<1>3. /\ act[f].fut = "pending" /\ act[f].id = proc[p].id /\ act[f].inst # "none"
      /\ act[f] \in Activation /\ act[f].gen >= proc[p].gen
      /\ proc[p].id \in ActorIDs /\ proc[p].gen \in 1..MaxGen /\ ActivationOK(f)
  BY <1>1, <1>2, Fields, Zenon DEF ActInv, CallOK, At, Holding, Creating
<1>4. /\ proc' \in [Procs -> CallState] /\ \A q \in Procs : q # p => proc'[q] = proc[q]
      /\ proc'[p].pc = "invoke" /\ proc'[p].id = proc[p].id
      /\ proc'[p].gen = proc[p].gen /\ proc'[p].fut = proc[p].fut
  BY <1>2, GotoFields, Zenon DEF Resolve
<1>5. /\ act' \in [Futures -> Activation]
      /\ \A g \in Futures : g # f => act'[g] = act[g]
      /\ act'[f].id = act[f].id /\ act'[f].fut = "ok" /\ act'[f].gen = act[f].gen
      /\ act'[f].inst = act[f].inst /\ act'[f].lock = act[f].lock
  BY <1>1, <1>2, <1>3, Zenon DEF Resolve, TypeOK, Activation
<1>6. CallOK(p)'
  BY <1>1, <1>2, <1>3, <1>4, <1>5, Zenon DEF CallOK, At, Holding, Creating
<1>7. ActivationOK(f)'
  BY <1>2, <1>3, <1>5, ActivationsAssumption, Zenon DEF ActivationOK
<1>8. ASSUME NEW id \in ActorIDs, actors[id] = f, act[f].inst = "closed"
      PROVE  act[f].lock = Collector
  <2>1. ASSUME NEW q \in Procs, At(q, "cleanup"), proc[q].fut = f PROVE FALSE
    BY <1>1, <1>2, <2>1, Zenon DEF ActInv, OneCreator, Creating, At
  <2>2. f # 0
    BY DEF Futures
  <2> QED
    BY <1>8, <2>1, <2>2, Zenon DEF ActInv, ClosedActorIsOnItsWayOut
<1> QED
  BY <1>1, <1>2, <1>3, <1>4, <1>5, <1>6, <1>7, <1>8, FutureStep, Zenon DEF At, Creating

\* A future that is out of the map is rejected.
LEMMA RejectStep ==
    ASSUME ActInv, NEW p \in Procs, Reject(p)
    PROVE  ActInv'
<1>1. PICK f \in Futures : f = proc[p].fut
  BY Zenon DEF Reject, ActInv, CallOK, At, Holding
<1>2. /\ At(p, "reject") /\ CallOK(p) /\ UNCHANGED <<held, actors, timers>>
      /\ held' \in BOOLEAN /\ timers' \subseteq Timer /\ TypeOK
  BY <1>1, Zenon DEF Reject, ActInv, TypeOK
<1>3. /\ act[f].fut = "pending" /\ act[f] \in Activation /\ ActivationOK(f)
      /\ \A id \in ActorIDs : actors[id] # f
  BY <1>1, <1>2, Fields, Zenon DEF ActInv, CallOK, At, Creating
<1>4. /\ proc' \in [Procs -> CallState] /\ \A q \in Procs : q # p => proc'[q] = proc[q]
      /\ proc'[p].pc = "idle" /\ CallOK(p)'
  BY <1>2, ReturnFields, Zenon DEF Reject
<1>5. /\ act' \in [Futures -> Activation]
      /\ \A g \in Futures : g # f => act'[g] = act[g]
      /\ act'[f].id = act[f].id /\ act'[f].fut = "err" /\ act'[f].gen = act[f].gen
      /\ act'[f].inst = act[f].inst /\ act'[f].lock = act[f].lock
  BY <1>1, <1>2, <1>3, Zenon DEF Reject, TypeOK, Activation
<1>6. ActivationOK(f)'
  BY <1>2, <1>3, <1>5, ActivationsAssumption, Zenon DEF ActivationOK
<1> QED
  BY <1>1, <1>2, <1>3, <1>4, <1>5, <1>6, FutureStep, Zenon DEF At, Creating

\* The deferred delete takes out what the map holds under the actor's ID.
LEMMA CleanupStep ==
    ASSUME ActInv, NEW p \in Procs, Cleanup(p)
    PROVE  ActInv'
<1>1. /\ At(p, "cleanup") /\ CallOK(p) /\ UNCHANGED <<held, act, timers>>
      /\ TypeOK /\ proc[p].id \in ActorIDs
      /\ proc[p].fut \in Futures /\ act[proc[p].fut].id = proc[p].id
  BY Zenon DEF Cleanup, ActInv, CallOK, At, Holding
<1>2. /\ proc' \in [Procs -> CallState] /\ \A q \in Procs : q # p => proc'[q] = proc[q]
      /\ proc'[p].pc = "reject" /\ proc'[p].id = proc[p].id
      /\ proc'[p].gen = proc[p].gen /\ proc'[p].fut = proc[p].fut
  BY <1>1, GotoFields, Zenon DEF Cleanup
<1>3. /\ actors' \in [ActorIDs -> 0..MaxFut] /\ actors'[proc[p].id] = 0
      /\ \A id \in ActorIDs : id # proc[p].id => actors'[id] = actors[id]
  <2>1. 0 \in 0..MaxFut
    BY ActivationsAssumption
  <2> QED
    BY <1>1, <2>1, Zenon DEF Cleanup, TypeOK
<1>4. TypeOK'
  BY <1>1, <1>2, <1>3, Zenon DEF TypeOK
<1>5. CallOK(p)'
  <2>1. ASSUME NEW id \in ActorIDs PROVE actors'[id] # proc[p].fut
    BY <1>1, <1>3, SMTT(30) DEF ActInv, ActivationOK, Futures
  <2> QED
    BY <1>1, <1>2, <2>1, Zenon DEF CallOK, At, Holding, Creating
<1>6. ASSUME NEW q \in Procs, q # p PROVE CallOK(q)'
  <2>1. CallOK(q) /\ proc'[q] = proc[q]
    BY <1>2, <1>6, Zenon DEF ActInv
  <2>2. ASSUME NEW id \in ActorIDs PROVE actors'[id] \in {0, actors[id]}
    BY <1>3, Zenon
  <2>3. At(q, "reject") => proc[q].fut # 0
    BY <2>1, SMTT(30) DEF CallOK, At, Holding, Futures
  <2>4. At(q, "closePrev") => proc[q].prev # 0
    BY <2>1 DEF CallOK, At, Futures
  <2> QED
    BY <1>1, <2>1, <2>2, <2>3, <2>4, SMTT(30) DEF CallOK, At
<1>7. OneCreator'
  BY <1>1, <1>2 DEF ActInv, OneCreator, Creating, At
<1>8. ASSUME NEW g \in Futures PROVE ActivationOK(g)'
  BY <1>1, <1>3 DEF ActInv, ActivationOK, Futures
<1>9. FailedFutureIsNotFound'
  BY <1>1, <1>3, Zenon DEF ActInv, FailedFutureIsNotFound
<1>10. ClosedActorIsOnItsWayOut'
  <2> SUFFICES ASSUME NEW id \in ActorIDs, actors'[id] # 0, act[actors'[id]].inst = "closed"
               PROVE  \/ act[actors'[id]].lock = Collector
                      \/ \E q \in Procs : At(q, "cleanup")' /\ proc'[q].fut = actors'[id]
    BY <1>1, Zenon DEF ClosedActorIsOnItsWayOut
  <2>1. actors'[id] = actors[id] /\ id # proc[p].id
    BY <1>3, Zenon
  <2>2. proc[p].fut # actors[id]
    BY <1>1, <2>1, Zenon DEF ActInv, ActivationOK
  <2> QED
    BY <1>2, <2>1, <2>2, Zenon DEF ActInv, ClosedActorIsOnItsWayOut, At
<1> QED
  BY <1>4, <1>5, <1>6, <1>7, <1>8, <1>9, <1>10, Zenon DEF ActInv

\* gcFunc closes an actor nobody has used for a while, and keeps its mutex.
LEMMA CollectStep ==
    ASSUME ActInv, NEW f \in Futures, Collect(f)
    PROVE  ActInv'
<1>1. /\ act[f].inst = "open" /\ act[f].lock = Nobody /\ act[f] \in Activation
      /\ UNCHANGED <<held, actors, timers, proc>> /\ TypeOK /\ ActivationOK(f)
  BY Fields, Zenon DEF Collect, ActInv
<1>2. /\ act' \in [Futures -> Activation]
      /\ \A g \in Futures : g # f => act'[g] = act[g]
      /\ act'[f].id = act[f].id /\ act'[f].fut = act[f].fut /\ act'[f].gen = act[f].gen
      /\ act'[f].inst = "closed" /\ act'[f].lock = Collector
  BY <1>1, Zenon DEF Collect, TypeOK, Activation
<1>3. ASSUME NEW g \in Futures PROVE ActivationOK(g)'
  BY <1>1, <1>2, ActivationsAssumption DEF ActInv, ActivationOK
<1>4. TypeOK'
  BY <1>1, <1>2, Zenon DEF TypeOK
<1>5. ASSUME NEW q \in Procs PROVE CallOK(q)'
  <2>1. CallOK(q) /\ q # Nobody
    BY ActivationsAssumption, Zenon DEF ActInv
  <2> QED
    BY <1>1, <1>2, <2>1, Zenon DEF CallOK, At, Holding, Creating
<1>6. OneCreator'
  BY <1>1, Zenon DEF ActInv, OneCreator
<1>7. FailedFutureIsNotFound'
  BY <1>1, <1>2 DEF ActInv, FailedFutureIsNotFound, TypeOK, Futures
<1>8. ClosedActorIsOnItsWayOut'
  BY <1>1, <1>2 DEF ActInv, ClosedActorIsOnItsWayOut, TypeOK, Futures, At
<1> QED
  BY <1>3, <1>4, <1>5, <1>6, <1>7, <1>8, Zenon DEF ActInv

\* onGc takes the actor out of the map if it is still the one there.
LEMMA OnGcStep ==
    ASSUME ActInv, NEW f \in Futures, OnGc(f)
    PROVE  ActInv'
<1>1. /\ act[f].lock = Collector /\ UNCHANGED <<held, timers, proc>> /\ TypeOK
  BY Zenon DEF OnGc, ActInv
<1>2. /\ act' \in [Futures -> Activation]
      /\ \A g \in Futures : g # f => act'[g] = act[g]
      /\ act'[f].id = act[f].id /\ act'[f].fut = act[f].fut /\ act'[f].gen = act[f].gen
      /\ act'[f].inst = act[f].inst /\ act'[f].lock = Nobody
  BY <1>1, LockFields, Zenon DEF OnGc
<1>3. /\ actors' \in [ActorIDs -> 0..MaxFut]
      /\ \A id \in ActorIDs : actors'[id] # f /\ actors'[id] \in {0, actors[id]}
  BY <1>1, ActivationsAssumption DEF OnGc, TypeOK, Futures
<1>4. ASSUME NEW g \in Futures PROVE ActivationOK(g)'
  <2>1. ActivationOK(g) /\ g # 0
    BY DEF ActInv, Futures
  <2> QED
    BY <1>1, <1>2, <1>3, <2>1, ActivationsAssumption, Zenon DEF ActivationOK
<1>5. TypeOK'
  BY <1>1, <1>2, <1>3, Zenon DEF TypeOK
<1>6. ASSUME NEW q \in Procs PROVE CallOK(q)'
  <2>1. CallOK(q) /\ q # Collector
    BY ActivationsAssumption, Zenon DEF ActInv
  <2>2. At(q, "reject") => proc[q].fut # 0
    BY <2>1 DEF CallOK, At, Holding, Futures
  <2>3. At(q, "closePrev") => proc[q].prev # 0
    BY <2>1 DEF CallOK, At, Futures
  <2> QED
    BY <1>1, <1>2, <1>3, <2>1, <2>2, <2>3, SMTT(30) DEF CallOK, At, Holding, Creating
<1>7. OneCreator'
  BY <1>1, Zenon DEF ActInv, OneCreator
<1>8. FailedFutureIsNotFound'
  BY <1>1, <1>2, <1>3 DEF ActInv, FailedFutureIsNotFound, TypeOK, Futures
<1>9. ClosedActorIsOnItsWayOut'
  <2> SUFFICES ASSUME NEW id \in ActorIDs, actors'[id] # 0, act'[actors'[id]].inst = "closed"
               PROVE  \/ act'[actors'[id]].lock = Collector
                      \/ \E q \in Procs : At(q, "cleanup")' /\ proc'[q].fut = actors'[id]
    BY Zenon DEF ClosedActorIsOnItsWayOut
  <2>1. actors'[id] = actors[id] /\ actors[id] # f /\ actors[id] \in Futures
    BY <1>1, <1>3 DEF TypeOK, Futures
  <2> QED
    BY <1>1, <1>2, <2>1 DEF ActInv, ClosedActorIsOnItsWayOut, At
<1> QED
  BY <1>4, <1>5, <1>6, <1>7, <1>8, <1>9, Zenon DEF ActInv

\* What the critical section of invokeNotExistWithLock does: the map leads to
\* a future that nothing referred to, and the goroutine is its creator.
LEMMA InstallFields ==
    ASSUME ActInv, NEW p \in Procs, NEW prev \in 0..MaxFut, Install(p, prev),
           proc[p].id \in ActorIDs
    PROVE  \E f \in Garbage :
               /\ actors' \in [ActorIDs -> 0..MaxFut] /\ actors'[proc[p].id] = f
               /\ \A id \in ActorIDs : id # proc[p].id => actors'[id] = actors[id]
               /\ act' \in [Futures -> Activation]
               /\ \A g \in Futures : g # f => act'[g] = act[g]
               /\ act'[f].id = proc[p].id /\ act'[f].fut = "pending"
               /\ act'[f].inst = "none" /\ act'[f].lock = Nobody
               /\ proc' \in [Procs -> CallState]
               /\ \A q \in Procs : q # p => proc'[q] = proc[q]
               /\ proc'[p].pc = (IF prev = 0 THEN "module" ELSE "closePrev")
               /\ proc'[p].id = proc[p].id /\ proc'[p].gen = proc[p].gen
               /\ proc'[p].fut = f /\ proc'[p].prev = prev
<1>1. PICK f : f = FreshFuture
  BY Zenon
<1>2. f \in Garbage /\ f \in Futures /\ f \in 0..MaxFut
  <2>1. f \in Garbage
    BY <1>1, Zenon DEF Install, FreshFuture
  <2> QED
    BY <2>1 DEF Garbage, Futures
<1>3. TypeOK /\ proc[p] \in CallState
  BY Fields, Zenon DEF ActInv
<1>4. /\ actors' \in [ActorIDs -> 0..MaxFut] /\ actors'[proc[p].id] = f
      /\ \A id \in ActorIDs : id # proc[p].id => actors'[id] = actors[id]
  BY <1>1, <1>2, <1>3, Zenon DEF Install, TypeOK
<1>5. PICK new : new = [NoActivation EXCEPT !.id = proc[p].id, !.fut = "pending"]
  BY Zenon
<1>6. /\ new \in Activation /\ new.id = proc[p].id /\ new.fut = "pending"
      /\ new.inst = "none" /\ new.lock = Nobody
  <2>1. /\ NoActivation \in Activation /\ NoActivation.inst = "none"
        /\ NoActivation.lock = Nobody
    BY ActivationsAssumption DEF NoActivation, Activation
  <2> QED
    BY <1>5, <2>1, Zenon DEF Activation
<1>7. act' = [act EXCEPT ![f] = new]
  BY <1>1, <1>5, Zenon DEF Install
<1>8. /\ act' \in [Futures -> Activation]
      /\ \A g \in Futures : g # f => act'[g] = act[g]
      /\ act'[f] = new
  BY <1>2, <1>3, <1>6, <1>7, Zenon DEF TypeOK
<1>9. PICK label : label = IF prev = 0 THEN "module" ELSE "closePrev"
  BY Zenon
<1>10. proc' = [proc EXCEPT ![p].pc = label, ![p].fut = f, ![p].prev = prev]
  BY <1>1, <1>9, Zenon DEF Install
<1>11. /\ proc' \in [Procs -> CallState]
       /\ \A q \in Procs : q # p => proc'[q] = proc[q]
       /\ proc'[p].pc = label
       /\ proc'[p].id = proc[p].id /\ proc'[p].gen = proc[p].gen
       /\ proc'[p].fut = f /\ proc'[p].prev = prev
  BY <1>2, <1>3, <1>9, <1>10, Zenon DEF TypeOK, CallState
<1> QED
  BY <1>2, <1>4, <1>6, <1>8, <1>9, <1>11, Zenon

\* A future is installed, over nothing or over the one that was found before
\* and is still in the map.
LEMMA InstallStep ==
    ASSUME ActInv, NEW p \in Procs, NEW prev \in 0..MaxFut, Install(p, prev),
           proc[p].pc \in {"lookup", "relock"}, UNCHANGED <<held, timers>>,
           prev # 0 => prev = actors[proc[p].id] /\ act[prev].fut = "ok"
    PROVE  ActInv'
<1>1. TypeOK /\ proc[p].id \in ActorIDs /\ proc[p].gen \in 1..MaxGen
  BY Zenon DEF ActInv, CallOK, At
<1>2. PICK f \in Garbage :
         /\ actors' \in [ActorIDs -> 0..MaxFut] /\ actors'[proc[p].id] = f
         /\ \A id \in ActorIDs : id # proc[p].id => actors'[id] = actors[id]
         /\ act' \in [Futures -> Activation]
         /\ \A g \in Futures : g # f => act'[g] = act[g]
         /\ act'[f].id = proc[p].id /\ act'[f].fut = "pending"
         /\ act'[f].inst = "none" /\ act'[f].lock = Nobody
         /\ proc' \in [Procs -> CallState]
         /\ \A q \in Procs : q # p => proc'[q] = proc[q]
         /\ proc'[p].pc = (IF prev = 0 THEN "module" ELSE "closePrev")
         /\ proc'[p].id = proc[p].id /\ proc'[p].gen = proc[p].gen
         /\ proc'[p].fut = f /\ proc'[p].prev = prev
  BY <1>1, InstallFields, Zenon
<1>3. /\ f \in Futures /\ f # 0 /\ \A id \in ActorIDs : actors[id] # f
      /\ \A q \in Procs : proc[q].fut # f /\ proc[q].prev # f
  BY DEF Garbage, Futures
<1>4. TypeOK'
  BY <1>1, <1>2, Zenon DEF TypeOK
<1>5. CallOK(p)'
  <2>1. ASSUME prev # 0
        PROVE  /\ prev \in Futures /\ prev # f /\ act[prev].id = proc[p].id
               /\ \A id \in ActorIDs : actors'[id] # prev
    BY <1>1, <1>2, <1>3, <2>1, SMTT(30) DEF ActInv, ActivationOK, Futures
  <2> QED
    BY <1>1, <1>2, <1>3, <2>1, Zenon DEF CallOK, At, Holding, Creating
<1>6. ASSUME NEW q \in Procs, q # p PROVE CallOK(q)'
  <2>1. CallOK(q) /\ proc'[q] = proc[q] /\ proc[q].fut # f /\ proc[q].prev # f
    BY <1>2, <1>3, <1>6, Zenon DEF ActInv
  <2>2. ASSUME NEW id \in ActorIDs PROVE actors'[id] \in {f, actors[id]}
    BY <1>2, Zenon
  <2> QED
    BY <1>2, <2>1, <2>2, SMTT(30) DEF CallOK, At, Holding, Creating
<1>7. OneCreator'
  BY <1>2, <1>3 DEF ActInv, OneCreator
<1>8. ASSUME NEW g \in Futures PROVE ActivationOK(g)'
  <2>1. ActivationOK(g)
    BY Zenon DEF ActInv
  <2> QED
    BY <1>2, <1>3, <2>1, ActivationsAssumption DEF ActivationOK
<1>9. FailedFutureIsNotFound'
  <2> SUFFICES ASSUME NEW id \in ActorIDs, actors'[id] # 0
               PROVE  act'[actors'[id]].fut # "err"
    BY Zenon DEF FailedFutureIsNotFound
  <2>1. CASE id = proc[p].id
    BY <1>2, <2>1, Zenon
  <2>2. CASE id # proc[p].id
    <3>1. actors'[id] = actors[id] /\ actors[id] \in Futures /\ actors[id] # f
      BY <1>1, <1>2, <1>3, <2>2 DEF TypeOK, Futures
    <3> QED
      BY <1>2, <3>1 DEF ActInv, FailedFutureIsNotFound
  <2> QED
    BY <2>1, <2>2, Zenon
<1>10. ClosedActorIsOnItsWayOut'
  <2> SUFFICES ASSUME NEW id \in ActorIDs, actors'[id] # 0, act'[actors'[id]].inst = "closed"
               PROVE  \/ act'[actors'[id]].lock = Collector
                      \/ \E q \in Procs : At(q, "cleanup")' /\ proc'[q].fut = actors'[id]
    BY Zenon DEF ClosedActorIsOnItsWayOut
  <2>1. id # proc[p].id
    BY <1>2, Zenon
  <2>2. actors'[id] = actors[id] /\ actors[id] \in Futures /\ actors[id] # f
    BY <1>1, <1>2, <1>3, <2>1 DEF TypeOK, Futures
  <2> QED
    BY <1>2, <2>2, SMTT(30) DEF ActInv, ClosedActorIsOnItsWayOut, At
<1> QED
  BY <1>4, <1>5, <1>6, <1>7, <1>8, <1>9, <1>10, Zenon DEF ActInv

\* The first critical section of invoke.
LEMMA LookupStep ==
    ASSUME ActInv, NEW p \in Procs, Lookup(p)
    PROVE  ActInv'
<1>1. /\ At(p, "lookup") /\ UNCHANGED <<held, timers>> /\ TypeOK
      /\ proc[p].id \in ActorIDs /\ proc[p].gen \in 1..MaxGen /\ proc[p] \in CallState
      /\ held' \in BOOLEAN /\ timers' \subseteq Timer
  BY Fields, Zenon DEF Lookup, ActInv, TypeOK, CallOK, At
<1>2. CASE Return(p) /\ UNCHANGED <<actors, act>>
  BY <1>1, <1>2, ReturnStep, Zenon DEF At
<1>3. CASE Install(p, 0)
  <2>1. 0 \in 0..MaxFut
    BY ActivationsAssumption
  <2> QED
    BY <1>1, <1>3, <2>1, InstallStep, Zenon DEF At
<1>4. ASSUME actors[proc[p].id] # 0, UNCHANGED <<actors, act>>,
             proc' = [proc EXCEPT ![p].pc = "wait", ![p].fut = actors[proc[p].id]]
      PROVE  ActInv'
  <2>1. PICK f \in Futures : f = actors[proc[p].id]
    BY <1>1, <1>4 DEF TypeOK, Futures
  <2>2. act[f].id = proc[p].id /\ f \in 0..MaxFut
    BY <1>1, <2>1 DEF ActInv, ActivationOK, Futures
  <2>3. /\ proc' \in [Procs -> CallState] /\ \A q \in Procs : q # p => proc'[q] = proc[q]
        /\ proc'[p].pc = "wait" /\ proc'[p].id = proc[p].id
        /\ proc'[p].gen = proc[p].gen /\ proc'[p].fut = f
    BY <1>1, <1>4, <2>1, <2>2, Zenon DEF TypeOK, CallState
  <2>4. CallOK(p)'
    BY <1>1, <1>4, <2>2, <2>3, Zenon DEF CallOK, At, Holding, Creating
  <2> QED
    BY <1>1, <1>4, <2>3, <2>4, CallOnlyStep, Zenon DEF At, Creating
<1> QED
  BY <1>2, <1>3, <1>4, Zenon DEF Lookup

\* The second critical section of invoke.
LEMMA RelockStep ==
    ASSUME ActInv, NEW p \in Procs, Relock(p)
    PROVE  ActInv'
<1>1. PICK old \in Futures : old = proc[p].fut
  BY Zenon DEF Relock, ActInv, CallOK, At, Holding
<1>2. /\ At(p, "relock") /\ UNCHANGED timers /\ TypeOK /\ CallOK(p)
      /\ proc[p].id \in ActorIDs /\ proc[p].gen \in 1..MaxGen
      /\ timers' \subseteq Timer /\ act[old].fut = "ok" /\ act[old].id = proc[p].id
  BY <1>1, Zenon DEF Relock, ActInv, TypeOK, CallOK, At, Holding
<1>3. CASE Install(p, 0) /\ UNCHANGED held
  <2>1. 0 \in 0..MaxFut
    BY ActivationsAssumption
  <2> QED
    BY <1>2, <1>3, <2>1, InstallStep, Zenon DEF At
<1>4. CASE actors[proc[p].id] = old /\ Install(p, old) /\ UNCHANGED held
  <2>1. old \in 0..MaxFut
    BY DEF Futures
  <2> QED
    BY <1>2, <1>4, <2>1, InstallStep, Zenon DEF At
<1>5. CASE held' = TRUE /\ Return(p) /\ UNCHANGED <<actors, act>>
  BY <1>2, <1>5, ReturnStep, Zenon DEF At
<1>6. CASE /\ held' = TRUE /\ act[old].gen >= proc[p].gen /\ Goto(p, "invoke")
           /\ UNCHANGED <<actors, act>>
  <2>1. /\ proc' \in [Procs -> CallState] /\ \A q \in Procs : q # p => proc'[q] = proc[q]
        /\ proc'[p].pc = "invoke" /\ proc'[p].id = proc[p].id
        /\ proc'[p].gen = proc[p].gen /\ proc'[p].fut = proc[p].fut
    BY <1>2, <1>6, GotoFields, Zenon
  <2>2. CallOK(p)'
    BY <1>1, <1>2, <1>6, <2>1, Zenon DEF CallOK, At, Holding, Creating
  <2> QED
    BY <1>2, <1>6, <2>1, <2>2, CallOnlyStep, Zenon DEF At, Creating
<1> QED
  BY <1>1, <1>3, <1>4, <1>5, <1>6, Zenon DEF Relock

-----------------------------------------------------------------------------
\* Initially nothing is active and nobody calls.
LEMMA ActInvInit == Init => ActInv
<1> SUFFICES ASSUME Init PROVE ActInv
  BY Zenon
<1>1. /\ \A p \in Procs : proc[p] = NoCall
      /\ \A f \in Futures : act[f] = NoActivation
      /\ \A id \in ActorIDs : actors[id] = 0
  BY Zenon DEF Init
<1>2. /\ NoActivation \in Activation /\ NoActivation.inst = "none"
      /\ NoActivation.lock = Nobody /\ NoActivation.fut = "err"
  BY ActivationsAssumption DEF NoActivation, Activation
<1>3. TypeOK
  <2>1. 0 \in 0..MaxFut
    BY ActivationsAssumption
  <2> QED
    BY <1>1, <1>2, <2>1, NoCallType, Zenon DEF Init, TypeOK
<1>4. ASSUME NEW p \in Procs PROVE CallOK(p)
  BY <1>1, NoCallType, Zenon DEF CallOK, At, Holding, Creating
<1>5. OneCreator
  BY <1>1, NoCallType, Zenon DEF OneCreator, Creating
<1>6. ASSUME NEW f \in Futures PROVE ActivationOK(f)
  BY <1>1, <1>2, ActivationsAssumption DEF ActivationOK, Futures
<1>7. FailedFutureIsNotFound /\ ClosedActorIsOnItsWayOut
  BY <1>1, Zenon DEF FailedFutureIsNotFound, ClosedActorIsOnItsWayOut
<1> QED
  BY <1>3, <1>4, <1>5, <1>6, <1>7, Zenon DEF ActInv

\* Every step of a goroutine, of a timer or of the collector preserves it.
LEMMA ActInvStep == ActInv /\ [Next]_vars => ActInv'
<1> SUFFICES ASSUME ActInv, [Next]_vars PROVE ActInv'
  BY Zenon
<1>1. ASSUME NEW p \in Procs, NEW id \in ActorIDs, NEW gen \in 1..MaxGen, Invoke(p, id, gen)
      PROVE  ActInv'
  BY <1>1, InvokeStep, Zenon
<1>2. ASSUME NEW p \in Procs, NEW t \in timers, FireTimer(p, t) PROVE ActInv'
  BY <1>2, FireTimerStep, Zenon
<1>3. ASSUME NEW p \in Procs, Step(p) PROVE ActInv'
  BY <1>3, LookupStep, WaitStep, RelockStep, EnsureModuleStep, EndStartupStep, CleanupStep,
     RejectStep, ResolveStep, EndInvokeStep, Zenon DEF Step
<1>4. ASSUME NEW p \in Procs, LockStep(p) PROVE ActInv'
  BY <1>4, ClosePrevStep, BeginStartupStep, CloseFailedStep, BeginInvokeStep, Zenon DEF LockStep
<1>5. ASSUME NEW f \in Futures, Collect(f) \/ OnGc(f) PROVE ActInv'
  BY <1>5, CollectStep, OnGcStep, Zenon
<1>6. CASE UNCHANGED vars
  <2> USE <1>6 DEF vars
  <2>1. TypeOK'
    BY Zenon DEF ActInv, TypeOK
  <2>2. ASSUME NEW p \in Procs PROVE CallOK(p)'
    BY Zenon DEF ActInv, CallOK, At
  <2>3. OneCreator'
    BY Zenon DEF ActInv, OneCreator
  <2>4. ASSUME NEW f \in Futures PROVE ActivationOK(f)'
    BY Zenon DEF ActInv, ActivationOK
  <2>5. FailedFutureIsNotFound' /\ ClosedActorIsOnItsWayOut'
    BY Zenon DEF ActInv, FailedFutureIsNotFound, ClosedActorIsOnItsWayOut, At
  <2> QED
    BY <2>1, <2>2, <2>3, <2>4, <2>5, Zenon DEF ActInv
<1> QED
  BY <1>1, <1>2, <1>3, <1>4, <1>5, <1>6, Zenon DEF Next

-----------------------------------------------------------------------------
\* A step of one goroutine that leaves the map alone keeps what is reachable.
LEMMA PromptFrame ==
    ASSUME PromptInv, NEW p \in Procs, UNCHANGED actors,
           \A q \in Procs : q # p => proc'[q] = proc[q],
           proc'[p].pc \in Creating \ {"reject"} =>
               /\ proc[p].pc \in Creating \ {"reject"}
               /\ proc'[p].id = proc[p].id /\ proc'[p].fut = proc[p].fut,
           At(p, "closePrev") => act'[proc[p].prev].inst # "open",
           \A f \in Futures :
               /\ act'[f].inst = "open" =>
                    /\ act'[f].id = act[f].id
                    /\ act[f].inst = "open" \/ actors[act[f].id] = f
               /\ act'[f].lock = Collector => act[f].lock = Collector
               /\ act[f].fut = "ok" => act'[f].fut = "ok"
    PROVE  PromptInv'
<1>1. ASSUME NEW q \in Procs, proc'[q].pc \in Creating \ {"reject"}
      PROVE  actors'[proc'[q].id] = proc'[q].fut
  BY <1>1 DEF PromptInv
<1>2. ASSUME NEW f \in Futures, act'[f].lock = Collector PROVE act'[f].fut = "ok"
  BY <1>2, Zenon DEF PromptInv
<1>3. OpenInstanceIsReachable'
  <2> SUFFICES ASSUME NEW f \in Futures, act'[f].inst = "open", actors[act'[f].id] # f
               PROVE  \E q \in Procs : At(q, "closePrev")' /\ proc'[q].prev = f
    BY Zenon DEF OpenInstanceIsReachable
  <2>1. PICK q \in Procs : At(q, "closePrev") /\ proc[q].prev = f
    BY Zenon DEF PromptInv, OpenInstanceIsReachable
  <2> QED
    BY <2>1, Zenon DEF At
<1> QED
  BY <1>1, <1>2, <1>3, Zenon DEF PromptInv

\* Where only the record of a call changes.
LEMMA PromptCall ==
    ASSUME PromptInv, NEW p \in Procs, UNCHANGED <<actors, act>>,
           \A q \in Procs : q # p => proc'[q] = proc[q],
           proc'[p].pc \in Creating \ {"reject"} =>
               /\ proc[p].pc \in Creating \ {"reject"}
               /\ proc'[p].id = proc[p].id /\ proc'[p].fut = proc[p].fut,
           ~At(p, "closePrev")
    PROVE  PromptInv'
  BY PromptFrame, Zenon

\* A future is installed: whoever creates another one for the same actor would
\* still have it in the map, and it would not have been found resolved.
LEMMA PromptInstall ==
    ASSUME ActInv, PromptInv, NEW p \in Procs, NEW prev \in 0..MaxFut, Install(p, prev),
           proc[p].pc \in {"lookup", "relock"},
           prev = actors[proc[p].id], prev # 0 => act[prev].fut = "ok"
    PROVE  PromptInv'
<1>1. TypeOK /\ proc[p].id \in ActorIDs
  BY Zenon DEF ActInv, CallOK, At
<1>2. PICK f \in Garbage :
         /\ actors'[proc[p].id] = f
         /\ \A id \in ActorIDs : id # proc[p].id => actors'[id] = actors[id]
         /\ \A g \in Futures : g # f => act'[g] = act[g]
         /\ act'[f].inst = "none" /\ act'[f].lock = Nobody
         /\ \A q \in Procs : q # p => proc'[q] = proc[q]
         /\ proc'[p].pc = (IF prev = 0 THEN "module" ELSE "closePrev")
         /\ proc'[p].id = proc[p].id
         /\ proc'[p].fut = f /\ proc'[p].prev = prev
  BY <1>1, InstallFields, SMTT(30)
<1>3. ASSUME NEW q \in Procs, proc'[q].pc \in Creating \ {"reject"}
      PROVE  actors'[proc'[q].id] = proc'[q].fut
  <2>1. CASE q = p
    BY <1>2, <2>1, Zenon
  <2>2. CASE q # p
    <3>1. /\ proc'[q] = proc[q] /\ actors[proc[q].id] = proc[q].fut
          /\ proc[q].id \in ActorIDs /\ proc[q].fut # 0 /\ act[proc[q].fut].fut = "pending"
      BY <1>2, <1>3, <2>2, SMTT(30) DEF PromptInv, ActInv, CallOK, At, Holding, Creating, Futures
    <3> QED
      BY <1>2, <3>1, Zenon
  <2> QED
    BY <2>1, <2>2, Zenon
<1>4. ASSUME NEW g \in Futures, act'[g].lock = Collector PROVE act'[g].fut = "ok"
  BY <1>2, <1>4, ActivationsAssumption, Zenon DEF PromptInv
<1>5. OpenInstanceIsReachable'
  <2> SUFFICES ASSUME NEW g \in Futures, act'[g].inst = "open", actors'[act'[g].id] # g
               PROVE  \E q \in Procs : At(q, "closePrev")' /\ proc'[q].prev = g
    BY Zenon DEF OpenInstanceIsReachable
  <2>1. g # f /\ act'[g] = act[g] /\ act[g].inst = "open" /\ act[g].id \in ActorIDs /\ g # 0
    BY <1>1, <1>2 DEF TypeOK, Futures
  <2>2. CASE \E q \in Procs : At(q, "closePrev") /\ proc[q].prev = g
    BY <1>2, <2>2, Zenon DEF At
  <2>3. CASE actors[act[g].id] = g
    <3>1. act[g].id = proc[p].id
      BY <1>2, <2>1, <2>3, Zenon
    <3> QED
      BY <1>2, <2>1, <2>3, <3>1, Zenon DEF At
  <2> QED
    BY <2>1, <2>2, <2>3, Zenon DEF PromptInv, OpenInstanceIsReachable
<1> QED
  BY <1>3, <1>4, <1>5, Zenon DEF PromptInv

\* The deferred delete takes out the goroutine's own future, which is closed.
LEMMA PromptCleanup ==
    ASSUME ActInv, PromptInv, NEW p \in Procs, Cleanup(p)
    PROVE  PromptInv'
<1>1. /\ At(p, "cleanup") /\ TypeOK /\ UNCHANGED act /\ proc[p].id \in ActorIDs
      /\ actors[proc[p].id] = proc[p].fut /\ act[proc[p].fut].inst # "open"
  BY Zenon DEF Cleanup, ActInv, PromptInv, CallOK, At, Creating
<1>2. /\ proc'[p].pc = "reject" /\ \A q \in Procs : q # p => proc'[q] = proc[q]
      /\ \A id \in ActorIDs : id # proc[p].id => actors'[id] = actors[id]
  BY <1>1, GotoFields, Zenon DEF Cleanup, TypeOK
<1>3. ASSUME NEW q \in Procs, proc'[q].pc \in Creating \ {"reject"}
      PROVE  actors'[proc'[q].id] = proc'[q].fut
  <2>1. q # p /\ proc'[q] = proc[q] /\ proc[q].pc \in Creating \ {"reject"}
    BY <1>2, <1>3, Zenon
  <2>2. actors[proc[q].id] = proc[q].fut /\ proc[q].id \in ActorIDs
    BY <2>1, Zenon DEF PromptInv, ActInv, CallOK, At, Creating
  <2>3. proc[q].fut # proc[p].fut
    BY <1>1, <2>1, Zenon DEF ActInv, OneCreator, At, Creating
  <2> QED
    BY <1>1, <1>2, <2>1, <2>2, <2>3, Zenon
<1>4. ASSUME NEW g \in Futures, act'[g].lock = Collector PROVE act'[g].fut = "ok"
  BY <1>1, <1>4, Zenon DEF PromptInv
<1>5. OpenInstanceIsReachable'
  BY <1>1, <1>2 DEF PromptInv, OpenInstanceIsReachable, TypeOK, At
<1> QED
  BY <1>3, <1>4, <1>5, Zenon DEF PromptInv

\* The steps of a goroutine, one action at a time.
LEMMA PromptGoroutine ==
    ASSUME ActInv, PromptInv, NEW p \in Procs, Step(p) \/ LockStep(p)
    PROVE  PromptInv'
<1>1. TypeOK /\ CallOK(p) /\ Nobody # Collector
  BY ActivationsAssumption, Zenon DEF ActInv
<1>2. CASE Lookup(p)
  <2>1. At(p, "lookup") /\ proc[p].id \in ActorIDs /\ proc[p] \in CallState
    BY <1>1, <1>2, Fields, Zenon DEF Lookup, CallOK, At
  <2>2. CASE Return(p) /\ UNCHANGED <<actors, act>>
    BY <1>1, <2>1, <2>2, ReturnFields, PromptCall, Zenon DEF At, Creating
  <2>3. CASE actors[proc[p].id] = 0 /\ Install(p, 0)
    <3>1. 0 \in 0..MaxFut
      BY ActivationsAssumption
    <3> QED
      BY <2>1, <2>3, <3>1, PromptInstall, Zenon DEF At
  <2>4. ASSUME UNCHANGED <<actors, act>>,
               proc' = [proc EXCEPT ![p].pc = "wait", ![p].fut = actors[proc[p].id]]
        PROVE  PromptInv'
    <3>1. proc'[p].pc = "wait" /\ \A q \in Procs : q # p => proc'[q] = proc[q]
      BY <1>1, <2>1, <2>4, Zenon DEF TypeOK, CallState
    <3> QED
      BY <2>1, <2>4, <3>1, PromptCall, Zenon DEF At, Creating
  <2> QED
    BY <1>2, <2>2, <2>3, <2>4, Zenon DEF Lookup
<1>3. CASE Wait(p)
  <2>1. At(p, "wait") /\ UNCHANGED <<actors, act>>
    BY <1>3, Zenon DEF Wait
  <2>2. CASE Return(p)
    BY <1>1, <2>1, <2>2, ReturnFields, PromptCall, Zenon DEF At, Creating
  <2>3. CASE Goto(p, AfterWait(p)) /\ AfterWait(p) # "idle"
    <3>1. AfterWait(p) \in {"invoke", "relock"} /\ proc[p] \in CallState
      BY <1>1, <2>3, Fields, Zenon DEF AfterWait
    <3>2. proc'[p].pc = AfterWait(p) /\ \A q \in Procs : q # p => proc'[q] = proc[q]
      BY <1>1, <2>3, <3>1, Zenon DEF Goto, TypeOK, CallState
    <3> QED
      BY <2>1, <3>1, <3>2, PromptCall, Zenon DEF At, Creating
  <2> QED
    BY <1>3, <2>2, <2>3, Zenon DEF Wait
<1>4. CASE Relock(p)
  <2>1. /\ At(p, "relock") /\ proc[p].id \in ActorIDs /\ proc[p].fut \in Futures
        /\ act[proc[p].fut].fut = "ok"
    BY <1>1, <1>4, Zenon DEF Relock, CallOK, At, Holding
  <2>2. PICK old \in 0..MaxFut : old = proc[p].fut
    BY <2>1 DEF Futures
  <2>3. CASE actors[proc[p].id] = 0 /\ Install(p, 0)
    <3>1. 0 \in 0..MaxFut
      BY ActivationsAssumption
    <3> QED
      BY <2>1, <2>3, <3>1, PromptInstall, Zenon DEF At
  <2>4. CASE actors[proc[p].id] = old /\ Install(p, old)
    BY <2>1, <2>2, <2>4, PromptInstall, Zenon DEF At
  <2>5. CASE Return(p) /\ UNCHANGED <<actors, act>>
    BY <1>1, <2>1, <2>5, ReturnFields, PromptCall, Zenon DEF At, Creating
  <2>6. CASE Goto(p, "invoke") /\ UNCHANGED <<actors, act>>
    BY <1>1, <2>1, <2>6, GotoFields, PromptCall, SMTT(30) DEF At, Creating
  <2> QED
    BY <1>4, <2>2, <2>3, <2>4, <2>5, <2>6, Zenon DEF Relock
<1>5. CASE EnsureModule(p)
  <2>1. PICK f \in Futures : f = proc[p].fut
    BY <1>1, <1>5, Zenon DEF EnsureModule, CallOK, At, Holding
  <2>2. /\ At(p, "module") /\ UNCHANGED actors /\ act[f].fut = "pending"
        /\ actors[act[f].id] = f /\ act[f] \in Activation
    BY <1>1, <1>5, <2>1, Fields, Zenon DEF EnsureModule, PromptInv, CallOK, At, Holding, Creating
  <2>3. CASE Goto(p, "cleanup") /\ UNCHANGED act
    BY <1>1, <2>2, <2>3, GotoFields, PromptCall, Zenon DEF At, Creating
  <2>4. CASE /\ act' = [act EXCEPT ![f].inst = "open", ![f].gen = proc[p].gen]
             /\ Goto(p, "startup")
    <3>1. /\ \A g \in Futures : g # f => act'[g] = act[g]
          /\ act'[f].id = act[f].id /\ act'[f].fut = "pending" /\ act'[f].lock = act[f].lock
      BY <1>1, <2>2, <2>4, Zenon DEF TypeOK, Activation
    <3>2. /\ proc'[p].pc = "startup" /\ proc'[p].id = proc[p].id /\ proc'[p].fut = proc[p].fut
          /\ \A q \in Procs : q # p => proc'[q] = proc[q]
      BY <1>1, <2>4, GotoFields, Zenon
    <3> QED
      BY <2>2, <3>1, <3>2, PromptFrame, Zenon DEF At, Creating
  <2> QED
    BY <1>5, <2>1, <2>3, <2>4, Zenon DEF EnsureModule
<1>6. CASE Cleanup(p)
  BY <1>6, PromptCleanup, Zenon
<1>7. CASE EndStartup(p) \/ EndInvoke(p)
  <2>1. PICK f \in Futures : f = proc[p].fut
    BY <1>1, <1>7, Zenon DEF EndStartup, EndInvoke, CallOK, At, Holding
  <2>2. /\ \A g \in Futures : g # f => act'[g] = act[g]
        /\ act'[f].id = act[f].id /\ act'[f].fut = act[f].fut
        /\ act'[f].inst = act[f].inst /\ act'[f].lock = Nobody
    BY <1>1, <1>7, <2>1, LockFields, Zenon DEF EndStartup, EndInvoke, Leave
  <2>3. /\ proc[p].pc \in {"starting", "running"} /\ UNCHANGED actors
        /\ \A q \in Procs : q # p => proc'[q] = proc[q]
        /\ proc'[p].pc \in Creating => /\ At(p, "starting") /\ proc'[p].id = proc[p].id
                                       /\ proc'[p].fut = proc[p].fut
    BY <1>1, <1>7, GotoFields, ReturnFields, Zenon DEF EndStartup, EndInvoke, At, Creating
  <2> QED
    BY <1>1, <2>2, <2>3, PromptFrame, Zenon DEF At, Creating
<1>8. CASE Reject(p) \/ Resolve(p)
  <2>1. PICK f \in Futures : f = proc[p].fut
    BY <1>1, <1>8, Zenon DEF Reject, Resolve, CallOK, At, Holding
  <2>2. act[f].fut = "pending" /\ act[f] \in Activation
    BY <1>1, <1>8, <2>1, Fields, Zenon DEF Reject, Resolve, CallOK, At, Creating
  <2>3. /\ \A g \in Futures : g # f => act'[g] = act[g]
        /\ act'[f].id = act[f].id /\ act'[f].inst = act[f].inst
        /\ act'[f].lock = act[f].lock
    BY <1>1, <1>8, <2>1, <2>2 DEF Reject, Resolve, TypeOK, Activation
  <2>4. /\ proc[p].pc \in {"reject", "resolve"} /\ UNCHANGED actors
        /\ \A q \in Procs : q # p => proc'[q] = proc[q]
        /\ proc'[p].pc \notin Creating
    BY <1>1, <1>8, GotoFields, ReturnFields DEF Reject, Resolve, At, Creating
  <2> QED
    BY <2>2, <2>3, <2>4, PromptFrame, Zenon DEF At
<1>9. CASE ClosePrev(p)
  <2>1. PICK f \in Futures : f = proc[p].prev
    BY <1>1, <1>9, Zenon DEF ClosePrev, CallOK, At
  <2>2. /\ \A g \in Futures : g # f => act'[g] = act[g]
        /\ act'[f].inst = "closed" /\ act'[f].lock = act[f].lock
        /\ act'[f].fut = act[f].fut
    BY <1>1, <1>9, <2>1, Fields, Zenon DEF ClosePrev, Close, TypeOK, Activation
  <2>3. /\ At(p, "closePrev") /\ UNCHANGED actors /\ proc[p] \in CallState
    BY <1>1, <1>9, Fields, Zenon DEF ClosePrev
  <2>4. /\ \A q \in Procs : q # p => proc'[q] = proc[q]
        /\ proc'[p].id = proc[p].id /\ proc'[p].fut = proc[p].fut
    BY <1>1, <1>9, <2>3, Zenon DEF ClosePrev, TypeOK, CallState
  <2> QED
    BY <2>1, <2>2, <2>3, <2>4, PromptFrame, Zenon DEF At, Creating
<1>10. CASE CloseFailed(p)
  <2>1. PICK f \in Futures : f = proc[p].fut
    BY <1>1, <1>10, Zenon DEF CloseFailed, CallOK, At, Holding
  <2>2. /\ \A g \in Futures : g # f => act'[g] = act[g]
        /\ act'[f].inst = "closed" /\ act'[f].lock = act[f].lock
        /\ act'[f].fut = act[f].fut
    BY <1>1, <1>10, <2>1, Fields, Zenon DEF CloseFailed, Close, TypeOK, Activation
  <2>3. /\ At(p, "closeFailed") /\ UNCHANGED actors
        /\ \A q \in Procs : q # p => proc'[q] = proc[q]
        /\ proc'[p].id = proc[p].id /\ proc'[p].fut = proc[p].fut
    BY <1>1, <1>10, GotoFields, Zenon DEF CloseFailed
  <2> QED
    BY <2>1, <2>2, <2>3, PromptFrame, Zenon DEF At, Creating
<1>11. CASE BeginStartup(p) \/ BeginInvoke(p)
  <2>1. PICK f \in Futures : f = proc[p].fut
    BY <1>1, <1>11, Zenon DEF BeginStartup, BeginInvoke, CallOK, At, Holding
  <2>2. /\ proc[p].pc \in {"startup", "invoke"} /\ UNCHANGED actors
        /\ \A q \in Procs : q # p => proc'[q] = proc[q]
        /\ proc'[p].pc \in Creating => /\ At(p, "startup") /\ proc'[p].id = proc[p].id
                                       /\ proc'[p].fut = proc[p].fut
    BY <1>1, <1>11, GotoFields, ReturnFields, Zenon
       DEF BeginStartup, BeginInvoke, Enter, At, Creating
  <2>3. CASE UNCHANGED act
    BY <2>2, <2>3, PromptCall, Zenon DEF At, Creating
  <2>4. CASE act' = [act EXCEPT ![f].lock = p]
    <3>1. /\ \A g \in Futures : g # f => act'[g] = act[g]
          /\ act'[f].id = act[f].id /\ act'[f].fut = act[f].fut
          /\ act'[f].inst = act[f].inst /\ act'[f].lock = p
      BY <1>1, <2>4, LockFields, Zenon
    <3> QED
      BY <2>2, <3>1, ActivationsAssumption, PromptFrame, SMTT(30) DEF At, Creating
  <2> QED
    BY <1>11, <2>1, <2>3, <2>4, Zenon DEF BeginStartup, BeginInvoke, Enter
<1> QED
  BY <1>2, <1>3, <1>4, <1>5, <1>6, <1>7, <1>8, <1>9, <1>10, <1>11, Zenon DEF Step, LockStep

\* If no activation outlasts _gcAfter, the collector takes only resolved
\* futures, so every step preserves PromptInv.
LEMMA PromptStep ==
    ASSUME ~SlowStartup
    PROVE  ActInv /\ PromptInv /\ [Next]_vars => PromptInv'
<1> SUFFICES ASSUME ActInv, PromptInv, [Next]_vars PROVE PromptInv'
  BY Zenon
<1>1. TypeOK
  BY Zenon DEF ActInv
<1>2. ASSUME NEW p \in Procs, NEW id \in ActorIDs, NEW gen \in 1..MaxGen, Invoke(p, id, gen)
      PROVE  PromptInv'
  <2>1. /\ proc'[p].pc = "lookup" /\ \A q \in Procs : q # p => proc'[q] = proc[q]
    BY <1>1, <1>2, Zenon DEF Invoke, TypeOK, NoCall
  <2> QED
    BY <1>2, <2>1, PromptCall, Zenon DEF Invoke, At, Creating
<1>3. ASSUME NEW p \in Procs, NEW t \in timers, FireTimer(p, t) PROVE PromptInv'
  <2>1. /\ proc'[p].pc = "lookup" /\ \A q \in Procs : q # p => proc'[q] = proc[q]
    BY <1>1, <1>3, Zenon DEF FireTimer, TypeOK, NoCall
  <2> QED
    BY <1>3, <2>1, PromptCall, Zenon DEF FireTimer, At, Creating
<1>4. ASSUME NEW p \in Procs, Step(p) \/ LockStep(p) PROVE PromptInv'
  BY <1>4, PromptGoroutine, Zenon
<1>5. ASSUME NEW f \in Futures, Collect(f) PROVE PromptInv'
  <2>1. /\ UNCHANGED <<actors, proc>> /\ \A g \in Futures : g # f => act'[g] = act[g]
        /\ act'[f].inst = "closed" /\ act'[f].fut = "ok"
    BY <1>1, <1>5, Fields, Zenon DEF Collect, MayCollect, TypeOK, Activation
  <2> QED
    BY <2>1 DEF PromptInv, OpenInstanceIsReachable, At
<1>6. ASSUME NEW f \in Futures, OnGc(f) PROVE PromptInv'
  <2>1. /\ act[f].lock = Collector /\ act[f].inst = "closed" /\ act[f].fut = "ok"
        /\ UNCHANGED proc
    BY <1>6, Zenon DEF OnGc, ActInv, ActivationOK, PromptInv
  <2>2. /\ \A g \in Futures : g # f => act'[g] = act[g]
        /\ act'[f].inst = act[f].inst /\ act'[f].lock = Nobody
    BY <1>1, <1>6, LockFields, Zenon DEF OnGc
  <2>3. \A id \in ActorIDs : actors[id] # f => actors'[id] = actors[id]
    BY <1>1, <1>6, Zenon DEF OnGc, TypeOK
  <2>4. ASSUME NEW q \in Procs, proc'[q].pc \in Creating \ {"reject"}
        PROVE  actors'[proc'[q].id] = proc'[q].fut
    <3>1. /\ actors[proc[q].id] = proc[q].fut /\ proc[q].id \in ActorIDs
          /\ act[proc[q].fut].fut = "pending"
      BY <2>1, <2>4, Zenon DEF PromptInv, ActInv, CallOK, At, Creating
    <3> QED
      BY <2>1, <2>3, <3>1, Zenon
  <2>5. ASSUME NEW g \in Futures, act'[g].lock = Collector PROVE act'[g].fut = "ok"
    BY <2>2, <2>5, ActivationsAssumption, Zenon DEF PromptInv
  <2>6. OpenInstanceIsReachable'
    <3> SUFFICES ASSUME NEW g \in Futures, act'[g].inst = "open", actors'[act'[g].id] # g
                 PROVE  \E q \in Procs : At(q, "closePrev")' /\ proc'[q].prev = g
      BY Zenon DEF OpenInstanceIsReachable
    <3>1. act'[g] = act[g] /\ g # f /\ act[g].id \in ActorIDs
      BY <1>1, <2>1, <2>2, Zenon DEF TypeOK
    <3> QED
      BY <2>1, <2>3, <3>1 DEF PromptInv, OpenInstanceIsReachable, At
  <2> QED
    BY <2>4, <2>5, <2>6, Zenon DEF PromptInv
<1>7. CASE UNCHANGED vars
  BY <1>7, Zenon DEF vars, PromptInv, OpenInstanceIsReachable, At
<1> QED
  BY <1>2, <1>3, <1>4, <1>5, <1>6, <1>7, Zenon DEF Next

\* Initially no instance is open.
LEMMA PromptInit == Init => PromptInv
<1>1. ASSUME Init PROVE /\ \A p \in Procs : proc[p].pc = "idle"
                        /\ \A f \in Futures : act[f].inst = "none" /\ act[f].lock = Nobody
  BY <1>1, NoCallType, Zenon DEF Init, NoActivation
<1> QED
  BY <1>1, ActivationsAssumption, Zenon DEF PromptInv, OpenInstanceIsReachable, Creating

\* Two open instances of one actor would both be reachable: through the map,
\* which leads to one of them, or as the instance a goroutine is about to
\* close, whose successor is in the map and has not been built.
LEMMA ReachableOnce == ActInv /\ PromptInv => SingleLiveInstance
<1> SUFFICES ASSUME ActInv, PromptInv, NEW f \in Futures, NEW g \in Futures,
                    act[f].inst = "open", act[g].inst = "open", act[f].id = act[g].id
             PROVE  f = g
  BY Zenon DEF SingleLiveInstance
<1>1. ASSUME NEW h \in Futures, NEW q \in Procs, At(q, "closePrev"), proc[q].prev = h
      PROVE  /\ actors[act[h].id] = proc[q].fut /\ act[proc[q].fut].inst = "none"
  BY <1>1, Zenon DEF ActInv, PromptInv, CallOK, At, Creating
<1>2. CASE actors[act[f].id] = f
  BY <1>1, <1>2, SMTT(30) DEF PromptInv, OpenInstanceIsReachable
<1>3. CASE actors[act[g].id] = g
  BY <1>1, <1>3 DEF PromptInv, OpenInstanceIsReachable
<1>4. CASE actors[act[f].id] # f /\ actors[act[g].id] # g
  <2>1. PICK q \in Procs : At(q, "closePrev") /\ proc[q].prev = f
    BY <1>4, Zenon DEF PromptInv, OpenInstanceIsReachable
  <2>2. PICK r \in Procs : At(r, "closePrev") /\ proc[r].prev = g
    BY <1>4, Zenon DEF PromptInv, OpenInstanceIsReachable
  <2>3. proc[q].fut = proc[r].fut
    BY <1>1, <2>1, <2>2
  <2>4. q = r
    BY <2>1, <2>2, <2>3, Zenon DEF ActInv, OneCreator, At, Creating
  <2> QED
    BY <2>1, <2>2, <2>4, Zenon
<1> QED
  BY <1>2, <1>3, <1>4, Zenon

-----------------------------------------------------------------------------
\* The map, the futures, the actors, the timers and the calls of invoke have
\* their Go types, and an open actor has a reference (activations.go:391).
THEOREM TypeCorrect == Spec => []TypeOK
<1>1. ActInv => TypeOK
  BY Zenon DEF ActInv
<1> QED
  BY <1>1, ActInvInit, ActInvStep, PTL DEF Spec

\* An operation runs on an instance of the actor it was meant for, of at least
\* the generation it asked for, that has started and has not been closed
\* (activations.go:140, activations.go:440).
THEOREM InvocationsSound == Spec => []RunsWhatWasAsked
<1>1. ActInv => RunsWhatWasAsked
  BY SMTT(30) DEF ActInv, RunsWhatWasAsked, CallOK, ActivationOK, At, Holding
<1> QED
  BY <1>1, ActInvInit, ActInvStep, PTL DEF Spec

\* A future that failed is out of the map before it is rejected, so nobody
\* finds it afterwards (activations.go:206).
THEOREM FailuresAreForgotten == Spec => []FailedFutureIsNotFound
<1>1. ActInv => FailedFutureIsNotFound
  BY Zenon DEF ActInv
<1> QED
  BY <1>1, ActInvInit, ActInvStep, PTL DEF Spec

\* An actor that was closed is in the map only while somebody is about to take
\* it out (activations.go:428, activations.go:206).
THEOREM ClosedActorsLeave == Spec => []ClosedActorIsOnItsWayOut
<1>1. ActInv => ClosedActorIsOnItsWayOut
  BY Zenon DEF ActInv
<1> QED
  BY <1>1, ActInvInit, ActInvStep, PTL DEF Spec

\* If no activation outlasts _gcAfter, an open instance is in the map or about
\* to be closed by the goroutine that replaced it (activations.go:196).
THEOREM OpenInstancesAreFound ==
    ASSUME ~SlowStartup
    PROVE  Spec => []OpenInstanceIsReachable
<1>1. PromptInv => OpenInstanceIsReachable
  BY Zenon DEF PromptInv
<1>2. ActInv /\ PromptInv /\ [Next]_vars => PromptInv'
  BY PromptStep, Zenon
<1> QED
  BY <1>1, <1>2, ActInvInit, ActInvStep, PromptInit, PTL DEF Spec

\* If no activation outlasts _gcAfter, an actor never has two instances that
\* are not closed, whatever the goroutines, the timers and the collector do
\* (README.md:45, within an environment).
THEOREM OneInstance ==
    ASSUME ~SlowStartup
    PROVE  Spec => []SingleLiveInstance
<1>1. ActInv /\ PromptInv /\ [Next]_vars => PromptInv'
  BY PromptStep, Zenon
<1> QED
  BY <1>1, ReachableOnce, ActInvInit, ActInvStep, PromptInit, PTL DEF Spec

=============================================================================
