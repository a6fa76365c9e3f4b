---------------------------- MODULE ActorStorage ----------------------------
(***************************************************************************)
(* What the registry promises of an actor's key-value storage              *)
(* (virtual/registry/types.go, the comment of BeginTransaction in          *)
(* kv_registry.go): an invocation changes all of the keys it writes at     *)
(* once, starting from what the invocation before it left, and never at    *)
(* the moment the actor is moved.                                          *)
(***************************************************************************)
EXTENDS Naturals

CONSTANTS
    Servers,          \* server IDs
    Actors,           \* actors
    Keys              \* the keys an actor's operation writes

VARIABLES
    activation,       \* actor -> <<serverID, serverVersion>>
    store             \* actor -> key -> value

Zero == [k \in Keys |-> 0]

Init ==
    /\ activation \in [Actors -> Servers \X {1}]
    /\ store = [a \in Actors |-> Zero]

\* The actor is moved.
Activate(a) ==
    /\ activation'[a] \in Servers \X Nat
    /\ activation' = [activation EXCEPT ![a] = activation'[a]]
    /\ UNCHANGED store

\* One invocation of the operation that adds one to every key.
Increment(a) ==
    /\ store' = [store EXCEPT ![a] = [k \in Keys |-> store[a][k] + 1]]
    /\ UNCHANGED activation

Next == \E a \in Actors : Activate(a) \/ Increment(a)

Spec == Init /\ [][Next]_<<activation, store>>

=============================================================================
