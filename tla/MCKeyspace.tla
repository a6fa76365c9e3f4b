----------------------------- MODULE MCKeyspace -----------------------------
(***************************************************************************)
(* The instance of Keyspace and TupleOrder that TLC checks.  The           *)
(* namespaces are an ordinary one and one that begins like the prefix of   *)
(* the servers; an actor, a server and the storage keys contain a zero     *)
(* byte; a module's name is a prefix of another's.  A module takes one     *)
(* part or eleven, which in base 8 crosses the width of an integer.  Two   *)
(* names are left out, for which the layout does not hold: a module ID     *)
(* that is another one followed by a zero byte, and the namespace called   *)
(* "servers".                                                              *)
(***************************************************************************)
EXTENDS Keyspace, TupleOrder

MCNamespaces == {<<115, 101, 114, 118, 101, 114, 115, 115>>, <<110>>}
MCModules == {<<109>>, <<109, 97>>}
MCActorIDs == {<<97>>, <<97, 0, 107>>}
MCServers == {<<120>>, <<120, 0>>}
MCStorageKeys == {<<0>>, <<0, 255>>}
MCPartCounts == {1, 11}

\* The instance keeps to the names the layout holds for.
ASSUME MCNamesApart == NamesApart

Half == Word \div 2

Integers64 ==
    LET edges == {Power[n] : n \in 0..7}
    IN  {0, Half - 1, Half, Word - 1, -Half}
        \cup edges \cup {e - 1 : e \in edges} \cup {-e : e \in edges}
        \cup {1 - e : e \in edges}

BigIntegers ==
    {-Half - 1, 1 - Word, -Word, Word, Word * IntBase - 1, Word * IntBase, -(Word * IntBase)}
        \cup {-1, 0, 9, -Half}

Strings == {<<>>, <<0>>, <<0, 255>>, <<0, 0>>, <<1>>, <<1, 0>>, <<1, 0, 1>>, <<255>>}
Floats == {<<0, 0, 0, 0>>, <<128, 0, 0, 0>>, <<63, 128, 0, 0>>, <<191, 128, 0, 0>>,
           <<63, 128, 0, 1>>, <<191, 128, 0, 1>>}
Stamp(v, user) == <<"versionstamp", [k \in 1..10 |-> v] \o <<0, user>>>>

Samples ==
    {<<"nil">>, <<"bool", TRUE>>, <<"bool", FALSE>>, Stamp(0, 1), Stamp(7, 0)}
        \cup {<<"int", i>> : i \in Integers64} \cup {<<"big", i>> : i \in BigIntegers}
        \cup {<<kind, b>> : kind \in {"bytes", "string"}, b \in Strings}
        \cup {<<"float", f>> : f \in Floats}
        \cup {<<"double", f \o <<0, 0, 0, 1>>>> : f \in Floats}
        \cup {<<"uuid", [k \in 1..16 |-> v]>> : v \in {0, 255}}

Few == {<<"nil">>, <<"int", 0>>, <<"int", -IntBase>>, <<"string", <<0>>>>, <<"string", <<>>>>,
        <<"tuple", <<>>>>, <<"tuple", <<<<"nil">>>>>>,
        <<"tuple", <<<<"nil">>, <<"tuple", <<<<"bytes", <<0>>>>>>>>>>>>}

MCTestTuples ==
    {<<>>} \cup {<<e>> : e \in Samples} \cup {<<<<"tuple", <<e>>>>>> : e \in Few}
        \cup {<<e, f>> : e, f \in Few}
        \cup {<<Stamp(255, 0)>>, <<<<"int", 9>>, Stamp(255, 0), <<"nil">>>>,
              <<<<"nil">>, <<"tuple", <<<<"nil">>, Stamp(255, 1)>>>>>>,
              <<Stamp(255, 0), Stamp(255, 1)>>}

\* A key of the registry is packed as Pack packs any tuple of plain elements.
ASSUME MCPlainTuples ==
    \A t \in MCTestTuples :
        (\A k \in DOMAIN t : t[k][1] # "tuple" /\ ~ Incomplete(t[k])) => PackPlain(t) = Pack(t)

\* Packing touches no store, so it is enough that it happens instead of the
\* registry's operations.
MCInit == Init /\ NoPair

MCNext ==
    \/ NoPair /\ Next /\ UNCHANGED pair
    \/ /\ written = {}
       /\ \E t, u \in TestTuples : PackPair(t, u)
       /\ UNCHANGED vars

MCSpec == MCInit /\ [][MCNext]_<<vars, pair>>
=============================================================================
