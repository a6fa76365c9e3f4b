----------------------------- MODULE MCCluster -----------------------------
(***************************************************************************)
(* Instances of Cluster: who calls through which environment.              *)
(***************************************************************************)
EXTENDS Cluster, TLC

CONSTANTS s1, s2, c1, c2

\* One caller shares the environment of the other.
SharedHome == [c \in Clients |-> IF c = c1 THEN {s1} ELSE {s1, s2}]

\* Every caller may use every environment.
AnyHome == [c \in Clients |-> Servers]

\* With AnyHome servers and callers are interchangeable.
Symmetry == Permutations(Servers) \cup Permutations(Clients)

\* The counters of the actors decide nothing but lastSeen, which only
\* CounterStartsAgainOrGrows is about.  (The two type tests make TLC evaluate
\* the variables that are left out.)
WithoutCounts ==
    <<vars, env, answer, batch, cache, inv, begun, faults, newest,
      [s \in Servers |-> [k \in ActorKeys |-> mem[s][k].gen]],
      lastSeen \in [ActorKeys -> [before : Nat, now : Nat]],
      mem \in [Servers -> [ActorKeys -> [gen : Nat, count : Nat]]]>>

=============================================================================
