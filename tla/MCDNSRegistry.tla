--------------------------- MODULE MCDNSRegistry ---------------------------
(***************************************************************************)
(* Two processes and three hosts with two points each.  The actors are     *)
(* their own hashes, so every place of the ring is asked for.              *)
(***************************************************************************)
EXTENDS DNSRegistry

CONSTANTS h1, h2, h3

AllHashes == 0..MaxHash

\* Hosts whose points alternate, are nested and touch.
Interleaved ==
    {[host |-> [x \in Hosts \X (1..Replicas) |->
                    (CASE x[1] = h1 -> at[1] [] x[1] = h2 -> at[2] [] x[1] = h3 -> at[3])[x[2]]],
      actor |-> [a \in AllHashes |-> a]]
     : at \in {<<<<0, 4>>, <<2, 6>>, <<3, 5>>>>,
               <<<<6, 5>>, <<0, 1>>, <<4, 2>>>>}}

=============================================================================
