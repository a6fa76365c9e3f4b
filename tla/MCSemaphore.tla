----------------------------- MODULE MCSemaphore -----------------------------
(***************************************************************************)
(* One user slot, two slots of a request type and an unknown key; lists    *)
(* long enough for unwind to give something back, with a kv twice.         *)
(***************************************************************************)
EXTENDS Semaphore, TLC

CONSTANTS user, requestType, unknown

KVsDef == {user, requestType, unknown}
LimitsDef == (user :> 1) @@ (requestType :> 2) @@ (unknown :> 0)
WishesDef == {<<user>>, <<requestType>>, <<user, requestType>>,
              <<requestType, user>>, <<user, user>>, <<requestType, requestType, user>>,
              <<user, unknown>>}
=============================================================================
