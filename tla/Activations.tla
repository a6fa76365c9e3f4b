----------------------------- MODULE Activations -----------------------------
(***************************************************************************)
(* The actors in the memory of one environment (virtual/activations.go):   *)
(* goroutines that find, create, replace and invoke them, the timers that  *)
(* actors schedule, and the garbage collection of idle actors.             *)
(*                                                                         *)
(* A goroutine's step is what it does between two points where another     *)
(* goroutine may be seen to run: a critical section of the activations     *)
(* mutex, the wait for a future, the wait for an actor's mutex, an         *)
(* operation of the actor.  Time is abstracted to "has passed or not".     *)
(***************************************************************************)
EXTENDS Naturals, FiniteSets

CONSTANTS
    Procs,            \* goroutines
    ActorIDs,         \* NamespacedActorIDs
    Nobody,           \* no goroutine
    Collector,        \* the goroutine of a GC timer
    Failures,         \* which of "module" (ensureModule or Instantiate) and
                      \* "startup" (the STARTUP operation) may return an error
    SlowStartup,      \* may an activation outlast _gcAfter?
    MaxGen,           \* bound: generations of references
    MaxFut,           \* bound: futures alive at the same time
    MaxTimers         \* bound: timers scheduled at the same time

ASSUME ActivationsAssumption ==
    /\ Nobody \notin Procs /\ Collector \notin Procs /\ Nobody # Collector
    /\ Failures \subseteq {"module", "startup"}
    /\ SlowStartup \in BOOLEAN
    /\ MaxGen \in Nat /\ MaxFut \in Nat /\ MaxTimers \in Nat

VARIABLES
    held,             \* TRUE when activations.Mutex is held between two steps
    actors,           \* _actors: actor ID -> a future, 0 when absent
    act,              \* future -> its state and the activatedActor it is for
    timers,           \* timers that have been scheduled and have not fired
    proc              \* goroutine -> where it is in invoke

vars == <<held, actors, act, timers, proc>>

-----------------------------------------------------------------------------
Futures == 1..MaxFut

\* A future and its activatedActor: inst is "none" before newActivatedActor
\* builds it and "closed" when _closed is set, gen is the generation of its
\* reference, lock the holder of its mutex.
Activation == [id : ActorIDs \cup {Nobody}, fut : {"pending", "ok", "err"},
               inst : {"none", "open", "closed"}, gen : 0..MaxGen,
               lock : Procs \cup {Nobody, Collector}]

\* A timer invokes with the reference of the actor that scheduled it; origin,
\* kept for the properties, is that actor's future.
Timer == [id : ActorIDs, gen : 1..MaxGen, origin : Futures]

\* One call of invoke: its reference <<id, gen>>, whether it is a timer (origin
\* # 0), the future it has in hand and the one it replaces.
CallState == [pc : {"idle", "lookup", "wait", "relock", "closePrev", "module", "startup",
               "starting", "closeFailed", "cleanup", "reject", "resolve",
               "invoke", "running"},
         id : ActorIDs \cup {Nobody}, gen : 0..MaxGen, origin : 0..MaxFut,
         fut : 0..MaxFut, prev : 0..MaxFut]

NoCall == [pc |-> "idle", id |-> Nobody, gen |-> 0, origin |-> 0, fut |-> 0, prev |-> 0]

NoActivation ==
    [id |-> Nobody, fut |-> "err", inst |-> "none", gen |-> 0, lock |-> Nobody]

\* Futures nothing refers to any more; Go's collector takes them.
Garbage ==
    {f \in Futures :
        /\ \A id \in ActorIDs : actors[id] # f
        /\ \A p \in Procs : f \notin {proc[p].fut, proc[p].prev, proc[p].origin}
        /\ \A t \in timers : t.origin # f
        /\ act[f].inst # "open" /\ act[f].lock = Nobody}

FreshFuture == CHOOSE f \in Garbage : TRUE

-----------------------------------------------------------------------------
Init ==
    /\ held = FALSE
    /\ actors = [id \in ActorIDs |-> 0]
    /\ act = [f \in Futures |-> NoActivation]
    /\ timers = {}
    /\ proc = [p \in Procs |-> NoCall]

At(p, label) == proc[p].pc = label
Goto(p, label) == proc' = [proc EXCEPT ![p].pc = label]
Return(p) == proc' = [proc EXCEPT ![p] = NoCall]

\* Somebody invokes an actor with a reference of some generation.
Invoke(p, id, gen) ==
    /\ At(p, "idle")
    /\ proc' = [proc EXCEPT ![p] = [NoCall EXCEPT !.pc = "lookup", !.id = id, !.gen = gen]]
    /\ UNCHANGED <<held, actors, act, timers>>

\* A timer of ScheduleSelfTimer fires.
FireTimer(p, t) ==
    /\ At(p, "idle")
    /\ t \in timers
    /\ timers' = timers \ {t}
    /\ proc' = [proc EXCEPT ![p] = [NoCall EXCEPT !.pc = "lookup", !.id = t.id,
                                                  !.gen = t.gen, !.origin = t.origin]]
    /\ UNCHANGED <<held, actors, act>>

\* A variant: the instance that is replaced is not closed.
InstallOverPrev(p, prev) ==
    /\ Garbage # {}
    /\ actors' = [actors EXCEPT ![proc[p].id] = FreshFuture]
    /\ act' = [act EXCEPT ![FreshFuture] =
                 [NoActivation EXCEPT !.id = proc[p].id, !.fut = "pending"]]
    /\ proc' = [proc EXCEPT ![p].pc = "module", ![p].fut = FreshFuture]

\* The critical section at the head of invokeNotExistWithLock.
Install(p, prev) ==
    /\ Garbage # {}
    /\ actors' = [actors EXCEPT ![proc[p].id] = FreshFuture]
    /\ act' = [act EXCEPT ![FreshFuture] =
                 [NoActivation EXCEPT !.id = proc[p].id, !.fut = "pending"]]
    /\ proc' = [proc EXCEPT ![p].pc = IF prev = 0 THEN "module" ELSE "closePrev",
                            ![p].fut = FreshFuture, ![p].prev = prev]

\* The first critical section of invoke.
Lookup(p) ==
    LET f == actors[proc[p].id] IN
    /\ At(p, "lookup")
    /\ ~held
    /\ \/ f = 0 /\ proc[p].origin # 0 /\ Return(p) /\ UNCHANGED <<actors, act>>
       \/ f = 0 /\ proc[p].origin = 0 /\ Install(p, 0)
       \/ /\ f # 0
          /\ proc' = [proc EXCEPT ![p].pc = "wait", ![p].fut = f]
          /\ UNCHANGED <<actors, act>>
    /\ UNCHANGED <<held, timers>>

\* References are structs: they are equal when their fields are.
SameReference(p, f) == act[f].gen = proc[p].gen

\* A variant: the generation is not looked at.
AfterWaitAnyGeneration(p) ==
    IF proc[p].origin # 0 /\ ~SameReference(p, proc[p].fut) THEN "idle" ELSE "invoke"

\* Where invoke goes once actorF.Wait() has returned an actor.
AfterWait(p) ==
    LET f == proc[p].fut IN
    IF proc[p].origin # 0 /\ ~SameReference(p, f) THEN "idle"
    ELSE IF act[f].gen >= proc[p].gen THEN "invoke" ELSE "relock"

Wait(p) ==
    LET f == proc[p].fut IN
    /\ At(p, "wait")
    /\ act[f].fut # "pending"
    /\ IF act[f].fut = "err" \/ AfterWait(p) = "idle" THEN Return(p)
       ELSE Goto(p, AfterWait(p))
    /\ UNCHANGED <<held, actors, act, timers>>

\* The second critical section of invoke.  Its last two exits do not unlock;
\* both look at the generation of the actor that was found the first time.
Relock(p) ==
    LET f == actors[proc[p].id]
        old == proc[p].fut IN
    /\ At(p, "relock")
    /\ ~held
    /\ \/ f = 0 /\ Install(p, 0) /\ UNCHANGED held
       \/ f # 0 /\ f = old /\ Install(p, old) /\ UNCHANGED held
       \/ /\ f # 0 /\ f # old
          /\ held' = TRUE
          /\ IF act[old].gen >= proc[p].gen THEN Goto(p, "invoke") ELSE Return(p)
          /\ UNCHANGED <<actors, act>>
    /\ UNCHANGED timers

\* close(): wait for the actor's mutex and shut it down, once.
Close(f) == act[f].lock = Nobody /\ act' = [act EXCEPT ![f].inst = "closed"]

ClosePrev(p) ==
    /\ At(p, "closePrev")
    /\ Close(proc[p].prev)
    /\ proc' = [proc EXCEPT ![p].pc = "module", ![p].prev = 0]
    /\ UNCHANGED <<held, actors, timers>>

\* A variant: the activated actor does not keep its reference.
EnsureModuleNoReference(p) ==
    /\ At(p, "module")
    /\ ~held
    /\ act' = [act EXCEPT ![proc[p].fut].inst = "open"]
    /\ Goto(p, "startup")
    /\ UNCHANGED <<held, actors, timers>>

\* ensureModule and Instantiate, up to the activatedActor and its GC timer.
EnsureModule(p) ==
    LET f == proc[p].fut IN
    /\ At(p, "module")
    /\ ~held
    /\ \/ /\ "module" \in Failures
          /\ Goto(p, "cleanup") /\ UNCHANGED act
       \/ /\ act' = [act EXCEPT ![f].inst = "open", ![f].gen = proc[p].gen]
          /\ Goto(p, "startup")
    /\ UNCHANGED <<held, actors, timers>>

\* actor.invoke: take the actor's mutex, fail if it has been closed.
Enter(p, opened, closed) ==
    LET f == proc[p].fut IN
    /\ act[f].lock = Nobody
    /\ \/ /\ act[f].inst = "open"
          /\ act' = [act EXCEPT ![f].lock = p]
          /\ opened
       \/ /\ act[f].inst = "closed"
          /\ closed
          /\ UNCHANGED act

\* An operation of the actor may schedule a timer for itself.
MaySchedule(p) ==
    LET f == proc[p].fut IN
    \/ UNCHANGED timers
    \/ /\ Cardinality(timers) < MaxTimers
       /\ timers' = timers \cup {[id |-> act[f].id, gen |-> act[f].gen, origin |-> f]}

Leave(p) == act' = [act EXCEPT ![proc[p].fut].lock = Nobody]

BeginStartup(p) ==
    /\ At(p, "startup")
    /\ Enter(p, Goto(p, "starting"), Goto(p, "closeFailed"))
    /\ UNCHANGED <<held, actors, timers>>

EndStartup(p) ==
    /\ At(p, "starting")
    /\ Leave(p)
    /\ \/ Goto(p, "resolve")
       \/ "startup" \in Failures /\ Goto(p, "closeFailed")
    /\ MaySchedule(p)
    /\ UNCHANGED <<held, actors>>

CloseFailed(p) ==
    /\ At(p, "closeFailed")
    /\ Close(proc[p].fut)
    /\ Goto(p, "cleanup")
    /\ UNCHANGED <<held, actors, timers>>

\* A variant: a future that failed stays in the map.
CleanupNothing(p) ==
    /\ At(p, "cleanup")
    /\ Goto(p, "reject")
    /\ UNCHANGED <<held, actors, act, timers>>

\* The deferred delete: without the mutex, whatever the map holds.
Cleanup(p) ==
    /\ At(p, "cleanup")
    /\ actors' = [actors EXCEPT ![proc[p].id] = 0]
    /\ Goto(p, "reject")
    /\ UNCHANGED <<held, act, timers>>

\* A variant: nobody who waits for the future is told.
RejectSilently(p) ==
    /\ At(p, "reject")
    /\ Return(p)
    /\ UNCHANGED <<held, actors, act, timers>>

Reject(p) ==
    /\ At(p, "reject")
    /\ act' = [act EXCEPT ![proc[p].fut].fut = "err"]
    /\ Return(p)
    /\ UNCHANGED <<held, actors, timers>>

Resolve(p) ==
    /\ At(p, "resolve")
    /\ act' = [act EXCEPT ![proc[p].fut].fut = "ok"]
    /\ Goto(p, "invoke")
    /\ UNCHANGED <<held, actors, timers>>

BeginInvoke(p) ==
    /\ At(p, "invoke")
    /\ Enter(p, Goto(p, "running"), Return(p))
    /\ UNCHANGED <<held, actors, timers>>

EndInvoke(p) ==
    /\ At(p, "running")
    /\ Leave(p)
    /\ MaySchedule(p)
    /\ Return(p)
    /\ UNCHANGED <<held, actors>>

-----------------------------------------------------------------------------
\* gcFunc runs after _gcAfter without an invocation; that much time passes
\* during an activation only if it is slow.
MayCollect(f) == act[f].fut = "ok" \/ SlowStartup

\* gcFunc: close the actor, and keep its mutex.
Collect(f) ==
    /\ act[f].inst = "open"
    /\ act[f].lock = Nobody
    /\ MayCollect(f)
    /\ act' = [act EXCEPT ![f].inst = "closed", ![f].lock = Collector]
    /\ UNCHANGED <<held, actors, timers, proc>>

\* A variant: whatever the map holds under the actor's ID is removed.
OnGcUnconditional(f) ==
    /\ act[f].lock = Collector
    /\ ~held
    /\ actors' = [actors EXCEPT ![act[f].id] = 0]
    /\ act' = [act EXCEPT ![f].lock = Nobody]
    /\ UNCHANGED <<held, timers, proc>>

\* A variant: the actor is closed and stays in the map.
OnGcNothing(f) ==
    /\ act[f].lock = Collector
    /\ act' = [act EXCEPT ![f].lock = Nobody]
    /\ UNCHANGED <<held, actors, timers, proc>>

\* onGc: remove the actor from the map if it is still the one there.
OnGc(f) ==
    /\ act[f].lock = Collector
    /\ ~held
    /\ actors' = [id \in ActorIDs |-> IF actors[id] = f THEN 0 ELSE actors[id]]
    /\ act' = [act EXCEPT ![f].lock = Nobody]
    /\ UNCHANGED <<held, timers, proc>>

-----------------------------------------------------------------------------
Step(p) ==
    \/ Lookup(p) \/ Wait(p) \/ Relock(p) \/ EnsureModule(p) \/ EndStartup(p)
    \/ Cleanup(p) \/ Reject(p) \/ Resolve(p) \/ EndInvoke(p)

\* The steps that wait for an actor's mutex.
LockStep(p) == ClosePrev(p) \/ BeginStartup(p) \/ CloseFailed(p) \/ BeginInvoke(p)

Next ==
    \/ \E p \in Procs :
        \/ \E id \in ActorIDs, gen \in 1..MaxGen : Invoke(p, id, gen)
        \/ \E t \in timers : FireTimer(p, t)
        \/ Step(p) \/ LockStep(p)
    \/ \E f \in Futures : Collect(f) \/ OnGc(f)

Spec == Init /\ [][Next]_vars

\* Goroutines are scheduled, actor operations return, sync.Mutex does not
\* starve a goroutine that waits for it, and the GC timer of an actor that
\* nobody invokes fires.  Nobody has to call.
FairSpec ==
    /\ Spec
    /\ \A p \in Procs : WF_vars(Step(p)) /\ SF_vars(LockStep(p))
    /\ \A f \in Futures : WF_vars(Collect(f)) /\ WF_vars(OnGc(f))

-----------------------------------------------------------------------------
\* The state has its Go types, and an activatedActor has a reference.
TypeOK ==
    /\ held \in BOOLEAN
    /\ actors \in [ActorIDs -> 0..MaxFut]
    /\ act \in [Futures -> Activation]
    /\ timers \subseteq Timer
    /\ proc \in [Procs -> CallState]
    /\ \A f \in Futures : act[f].inst = "open" => act[f].gen > 0 /\ act[f].id \in ActorIDs

\* README.md:45, within an environment: an actor never has two instances that
\* have been constructed and not closed.  A replaced instance is closed before
\* the new one is built (activations.go:196), a collected one before it leaves
\* the map (activations.go:428).
SingleLiveInstance ==
    \A f, g \in Futures :
        act[f].inst = "open" /\ act[g].inst = "open" /\ act[f].id = act[g].id => f = g

\* An instance that is open can be found: the map leads to it, or a goroutine
\* that holds it is about to close it or to clean up after it.  Otherwise
\* nothing could invoke it but its own GC timer and it would not be counted by
\* numActivatedActors.
OpenInstanceIsReachable ==
    \A f \in Futures : act[f].inst = "open" =>
        \/ actors[act[f].id] = f
        \/ \E p \in Procs : At(p, "closePrev") /\ proc[p].prev = f

\* The comment at activations.go:206: a future that failed is not in the map,
\* so a later invocation tries again and does not get the same error.
FailedFutureIsNotFound ==
    \A id \in ActorIDs : actors[id] # 0 => act[actors[id]].fut # "err"

\* A closed actor stays in the map only until the gcFunc that closed it, or
\* the goroutine that failed to activate it, has taken it out: invocations do
\* not fail forever with "which has already been closed" (activations.go:464).
ClosedActorIsOnItsWayOut ==
    \A id \in ActorIDs : actors[id] # 0 /\ act[actors[id]].inst = "closed" =>
        \/ act[actors[id]].lock = Collector
        \/ \E p \in Procs : At(p, "cleanup") /\ proc[p].fut = actors[id]

\* An operation runs on an instance of the actor it was meant for, of at least
\* the generation of its reference (activations.go:140), and that has started
\* (activations.go:440).
RunsWhatWasAsked ==
    \A p \in Procs : At(p, "running") =>
        LET a == act[proc[p].fut] IN
        a.id = proc[p].id /\ a.gen >= proc[p].gen /\ a.fut = "ok" /\ a.inst = "open"

\* Every invocation returns, with a result or an error, if actor operations do.
InvocationsReturn == \A p \in Procs : At(p, "lookup") ~> At(p, "idle")

=============================================================================
