--------------------------- MODULE MCActivations ---------------------------
(***************************************************************************)
(* Instances of Activations.                                               *)
(***************************************************************************)
EXTENDS Activations, TLC

ProcSymmetry == Permutations(Procs)

\* States that differ only in futures nothing refers to are the same state.
LiveState ==
    <<held, actors, timers, proc,
      [f \in Futures |-> IF f \in Garbage THEN NoActivation ELSE act[f]]>>

=============================================================================
