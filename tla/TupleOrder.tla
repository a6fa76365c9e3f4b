----------------------------- MODULE TupleOrder -----------------------------
(***************************************************************************)
(* The uses of the tuple layer that its comments make promises about: a    *)
(* caller packs two tuples, and compares, unpacks or takes the range of    *)
(* what it gets.                                                           *)
(***************************************************************************)
EXTENDS Tuple

CONSTANT TestTuples   \* the tuples that are packed

VARIABLE pair         \* two tuples handed to the tuple layer, or none

\* Nothing has been packed yet.
NoPair == pair = <<>>

\* A caller packs two tuples.
PackPair(t, u) ==
    /\ NoPair
    /\ pair' = <<t, u>>

-----------------------------------------------------------------------------
(* The order of tuples and the normal form of their elements, which Pack   *)
(* and Unpack are checked against.                                         *)

KindOrder == <<"nil", "bytes", "string", "tuple", "int", "float", "double", "bool",
               "uuid", "versionstamp">>
KindRank(e) == IF e[1] = "big" THEN 5 ELSE CHOOSE k \in DOMAIN KindOrder : KindOrder[k] = e[1]

FloatLess(a, b) ==
    IF a[1] >= 128 THEN b[1] < 128 \/ BytesLess(b, a) ELSE b[1] < 128 /\ BytesLess(a, b)

RECURSIVE TupleLess(_, _)
ElementLess(e, f) ==
    CASE KindRank(e) # KindRank(f)      -> KindRank(e) < KindRank(f)
      [] e[1] = "nil"                   -> FALSE
      [] e[1] = "bool"                  -> ~ e[2] /\ f[2]
      [] e[1] \in {"int", "big"}        -> e[2] < f[2]
      [] e[1] = "tuple"                 -> TupleLess(e[2], f[2])
      [] e[1] \in {"float", "double"}   -> FloatLess(e[2], f[2])
      [] OTHER                          -> BytesLess(e[2], f[2])

TupleLess(t, u) ==
    IF t = <<>> \/ u = <<>>
    THEN t = <<>> /\ u # <<>>
    ELSE \/ ElementLess(t[1], u[1])
         \/ ~ ElementLess(u[1], t[1]) /\ TupleLess(Tail(t), Tail(u))

\* Unpack answers an int64 or a uint64 for every integer that fits in one.
Normal(e) ==
    IF e[1] \in {"int", "big"}
    THEN <<IF e[2] >= -(Word \div 2) /\ e[2] < Word THEN "int" ELSE "big", e[2]>>
    ELSE e

RECURSIVE Normalized(_)
Normalized(t) ==
    [k \in DOMAIN t |-> IF t[k][1] = "tuple" THEN <<"tuple", Normalized(t[k][2])>>
                                            ELSE Normal(t[k])]

Packed == ToSet(pair)
Packable == {t \in Packed : countIncompleteVersionstamps(t) = 0}

-----------------------------------------------------------------------------
(* Properties.                                                             *)

\* The last four bytes of a key packed for a version stamp say where in the key,
\* its prefix included, the ten bytes lie that the database will fill in.
StampIsWhereItSays(t) ==
    LET key == PackWithVersionstamp(<<1, 2, 3>>, t)
        tail == SubSeq(key, Len(key) - 3, Len(key))
        pos == tail[1] + 256 * tail[2]
    IN  IF countIncompleteVersionstamps(t) > 1
        THEN key = NoKey
        ELSE SubSeq(key, pos, pos + 10)
                = <<Fixed["versionstamp"]>> \o incompleteTransactionVersion

\* A packed tuple unpacks to the tuple it was made from, up to the type of its
\* integers (the comment of Tuple): for zero bytes in strings, for nested
\* tuples and NULLs in them, and at every width of an integer.  Where a version
\* stamp is still to be filled in, the key says where.
UnpackInvertsPack ==
    /\ \A t \in Packable : LET u == Unpack(Pack(t)) IN u.ok /\ u.tuple = Normalized(t)
    /\ \A t \in Packed \ Packable : StampIsWhereItSays(t)

\* "The encoded key maintains the same sort order as the original tuple".
PackKeepsOrder ==
    \A t, u \in Packable : BytesLess(Pack(t), Pack(u)) <=> TupleLess(t, u)

\* The range of a tuple holds exactly the longer tuples that start with it,
\* also where a string goes on with a zero byte (the comment of FDBRangeKeys).
RangeIsTheExtensions ==
    \A t, u \in Packable :
        LET range == FDBRangeKeys(t)
        IN  (~ BytesLess(Pack(u), range[1]) /\ BytesLess(Pack(u), range[2]))
            <=> IsStrictPrefix(Normalized(t), Normalized(u))
=============================================================================
