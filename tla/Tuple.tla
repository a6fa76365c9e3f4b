-------------------------------- MODULE Tuple --------------------------------
(***************************************************************************)
(* The tuple layer of virtual/registry/tuple/tuple.go, which turns         *)
(* structured keys into byte strings whose byte order is the order of the  *)
(* tuples.  Module Elements has the plain elements; here an element may    *)
(* also be a nested tuple, <<"tuple", t>> with a sequence t of elements,   *)
(* and packed tuples are unpacked.                                         *)
(***************************************************************************)
EXTENDS Elements, SequencesExt

nestedCode == 5

incompleteTransactionVersion == [k \in 1..10 |-> 255]
Incomplete(e) ==
    e[1] = "versionstamp" /\ SubSeq(e[2], 1, 10) = incompleteTransactionVersion

\* The integer that digits stand for.
Value(d) == FoldLeft(LAMBDA acc, x : acc * IntBase + x, 0, d)

Int64(u) == IF u >= Word \div 2 THEN u - Word ELSE u

-----------------------------------------------------------------------------
(* Packing.                                                                *)

RECURSIVE encodeTuple(_, _)
encodeElement(e, nested) ==
    IF e[1] = "tuple" THEN encodeTuple(e[2], TRUE) ELSE encodePlain(e, nested)

encodeTuple(t, nested) ==
    LET elements == Concat([k \in DOMAIN t |-> encodeElement(t[k], nested)])
    IN  IF nested THEN <<nestedCode>> \o elements \o <<0>> ELSE elements

\* Packing panics on a tuple with an incomplete version stamp.
Pack(t) == encodeTuple(t, FALSE)

\* The keys from the first to just before the second, as byte strings.
FDBRangeKeys(t) == <<Append(Pack(t), 0), Append(Pack(t), 255)>>

-----------------------------------------------------------------------------
(* Version stamps that the database completes at commit.                   *)

RECURSIVE countIncompleteVersionstamps(_)
countIncompleteVersionstamps(t) ==
    FoldLeft(LAMBDA acc, e : acc + CASE e[1] = "tuple" -> countIncompleteVersionstamps(e[2])
                                     [] Incomplete(e)  -> 1
                                     [] OTHER          -> 0,
             0, t)

\* The bytes before the incomplete stamp of t, its own code included.
RECURSIVE BeforeStamp(_, _)
BeforeStamp(t, nested) ==
    LET k == CHOOSE k \in DOMAIN t : countIncompleteVersionstamps(<<t[k]>>) = 1
        before == Concat([j \in 1..(k - 1) |-> encodeElement(t[j], nested)])
    IN  (IF nested THEN <<nestedCode>> ELSE <<>>) \o before
        \o IF t[k][1] = "tuple" THEN BeforeStamp(t[k][2], TRUE)
                                ELSE <<Fixed["versionstamp"]>>

NoKey == <<>>                           \* the error of PackWithVersionstamp
LittleEndian(x) == <<x % 256, (x \div 256) % 256, 0, 0>>

\* The stamp's place counted from the tuple's first byte, not the key's.
PackWithVersionstampNoPrefix(prefix, t) ==
    IF countIncompleteVersionstamps(t) # 1
    THEN NoKey
    ELSE prefix \o encodeTuple(t, FALSE) \o LittleEndian(Len(BeforeStamp(t, FALSE)))

PackWithVersionstamp(prefix, t) ==
    IF countIncompleteVersionstamps(t) # 1
    THEN NoKey
    ELSE prefix \o encodeTuple(t, FALSE)
         \o LittleEndian(Len(prefix \o BeforeStamp(t, FALSE)))

-----------------------------------------------------------------------------
(* Unpacking.  A decoder reads the element at position i of b and answers  *)
(* the element and the position after it.                                  *)

findTerminator(b, i) ==
    Min({j \in i..Len(b) : b[j] = 0 /\ (j = Len(b) \/ b[j + 1] # 255)})

Unescape(b) ==
    LET kept == SelectSeq([k \in DOMAIN b |-> k],
                          LAMBDA k : ~ (k > 1 /\ b[k] = 255 /\ b[k - 1] = 0))
    IN  [k \in DOMAIN kept |-> b[kept[k]]]

decodeBytes(kind, b, i) ==
    LET end == findTerminator(b, i + 1)
    IN  <<<<kind, Unescape(SubSeq(b, i + 1, end - 1))>>, end + 1>>

decodeInt(b, i) ==
    LET neg == b[i] < intZeroCode
        n == IF neg THEN intZeroCode - b[i] ELSE b[i] - intZeroCode
        u == Value(SubSeq(b, i + 1, i + n))
    IN  <<<<"int", IF neg THEN Int64(Uint64(u - sizeLimits(n))) ELSE u>>, i + n + 1>>

decodeBigInt(b, i) ==
    LET long == b[i] \in {negIntStart, posIntEnd}
        length == CASE b[i] = negIntStart -> 255 - b[i + 1]
                    [] b[i] = posIntEnd   -> b[i + 1]
                    [] OTHER              -> 8
        first == IF long THEN i + 2 ELSE i + 1
        u == Value(SubSeq(b, first, first + length - 1))
        val == IF b[i] < intZeroCode THEN u - sizeLimits(length) ELSE u
    IN  <<<<IF val = -(Word \div 2) THEN "int" ELSE "big", val>>, first + length>>

decodeFixed(kind, b, i) ==
    LET raw == SubSeq(b, i + 1, i + Size[kind])
    IN  <<<<kind, IF kind \in {"float", "double"} THEN adjustFloatBytes(raw, FALSE) ELSE raw>>,
          i + Size[kind] + 1>>

\* The elements from position i on are appended to t; the answer is the tuple,
\* the position after it and whether every element could be decoded.
Decoded(ok, t, i) == [ok |-> ok, tuple |-> t, next |-> i]

RECURSIVE decodeTuple(_, _, _, _)
decodeTuple(b, i, nested, t) ==
    LET Found(found) == decodeTuple(b, found[2], nested, Append(t, found[1]))
        Inner == decodeTuple(b, i + 1, TRUE, <<>>)
        FixedKinds == {k \in DOMAIN Fixed : Fixed[k] = b[i]}
    IN  IF i > Len(b)
        THEN Decoded(TRUE, t, i)
        ELSE CASE b[i] = nilCode /\ ~ nested -> Found(<<<<"nil">>, i + 1>>)
               [] b[i] = nilCode /\ nested ->
                    IF i < Len(b) /\ b[i + 1] = 255
                    THEN Found(<<<<"nil">>, i + 2>>) ELSE Decoded(TRUE, t, i + 1)
               [] b[i] = Terminated["bytes"] -> Found(decodeBytes("bytes", b, i))
               [] b[i] = Terminated["string"] -> Found(decodeBytes("string", b, i))
               [] b[i] \in negIntStart..posIntEnd ->
                    IF \/ b[i] \in (negIntStart + 2)..(posIntEnd - 1)
                       \/ b[i] = negIntStart + 1 /\ b[i + 1] >= IntBase \div 2
                    THEN Found(decodeInt(b, i)) ELSE Found(decodeBigInt(b, i))
               [] b[i] \in {trueCode, falseCode} ->
                    Found(<<<<"bool", b[i] = trueCode>>, i + 1>>)
               [] FixedKinds # {} ->
                    LET kind == CHOOSE k \in FixedKinds : TRUE
                    IN  IF i + Size[kind] > Len(b)
                        THEN Decoded(FALSE, <<>>, i) ELSE Found(decodeFixed(kind, b, i))
               [] b[i] = nestedCode ->
                    IF Inner.ok THEN Found(<<<<"tuple", Inner.tuple>>, Inner.next>>) ELSE Inner
               [] OTHER -> Decoded(FALSE, <<>>, i)

Unpack(b) == decodeTuple(b, 1, FALSE, <<>>)
=============================================================================
