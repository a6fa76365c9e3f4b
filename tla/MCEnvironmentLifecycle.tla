----------------------- MODULE MCEnvironmentLifecycle -----------------------
(***************************************************************************)
(* first and second are the environments of one server, one after the      *)
(* other or, by mistake, at the same time.                                 *)
(***************************************************************************)
EXTENDS EnvironmentLifecycle

ServersDef == [e \in Envs |-> "serverID1"]
AddressesDef == [e \in Envs |-> "localhost"]
=============================================================================
