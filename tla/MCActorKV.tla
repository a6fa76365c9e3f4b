----------------------------- MODULE MCActorKV -----------------------------
(***************************************************************************)
(* Instances of ActorKV: two servers, two actors of which the first may    *)
(* invoke the second.                                                      *)
(***************************************************************************)
EXTENDS ActorKV, TLC

CONSTANTS a1, a2

OneWay == {<<a1, a2>>}

Symmetry == Permutations(Invocations) \cup Permutations(Keys) \cup Permutations(Servers)

=============================================================================
