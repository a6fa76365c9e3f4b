----------------------------- MODULE MCRegistry -----------------------------
(* Small instances of Registry for TLC. *)
EXTENDS Registry, TLC

\* Servers are interchangeable in every property checked.
ServerSymmetry == Permutations(Servers)

=============================================================================
