------------------------------ MODULE Elements ------------------------------
(***************************************************************************)
(* The elements of the tuple layer of virtual/registry/tuple/tuple.go as   *)
(* bytes, all but a nested tuple, and byte strings in their order.         *)
(*                                                                         *)
(* An element of a tuple is a pair <<kind, value>>: the Go type and, for a *)
(* byte string, a string, a UUID, a version stamp and the IEEE form of a   *)
(* float, a sequence of bytes; for an integer of any Go type, the integer. *)
(* A packed tuple is a sequence of bytes, indexed from 1 where Go indexes  *)
(* from 0.                                                                 *)
(*                                                                         *)
(* Integers have eight digits in base IntBase, as a 64-bit integer has     *)
(* eight in base 256: a smaller base keeps every width, and every boundary *)
(* between int64, uint64 and big.Int, within TLC's reach.                  *)
(***************************************************************************)
EXTENDS Integers, Sequences, FiniteSetsExt

CONSTANTS
    IntBase,    \* the values of one digit of an integer; 256 in the code
    MaxDigits   \* bound: digits of the largest big.Int; 255 in the code

ASSUME ElementsAssumption == IntBase \in 2..256 /\ MaxDigits \in 8..255

Byte == 0..255

\* 1 << (8 * n)
Power[n \in 0..MaxDigits] == IF n = 0 THEN 1 ELSE IntBase * Power[n - 1]

Word == Power[8]                        \* uint64 arithmetic is modulo Word

-----------------------------------------------------------------------------
(* Byte strings.                                                           *)

HasPrefix(b, prefix) ==
    Len(prefix) <= Len(b) /\ \A k \in DOMAIN prefix : b[k] = prefix[k]

BytesLess(a, b) ==
    \/ Len(a) < Len(b) /\ HasPrefix(b, a)
    \/ \E k \in DOMAIN a \cap DOMAIN b : a[k] < b[k] /\ \A j \in 1..(k - 1) : a[j] = b[j]

\* The byte strings of a sequence one after the other.
Concat(parts) ==
    LET n == Len(parts)
        last[k \in 0..n] == IF k = 0 THEN <<>> ELSE parts[n - k + 1] \o last[k - 1]
    IN  last[n]

-----------------------------------------------------------------------------
(* The type codes and the sizes of the elements of a fixed size.           *)

nilCode == 0
negIntStart == 11
intZeroCode == 20
posIntEnd == 29
falseCode == 38
trueCode == 39

Terminated == [bytes |-> 1, string |-> 2]
Fixed == [float |-> 32, double |-> 33, uuid |-> 48, versionstamp |-> 51]
Size == [float |-> 4, double |-> 8, uuid |-> 16, versionstamp |-> 12]

-----------------------------------------------------------------------------
(* Integers as digits, most significant first.                             *)

Digits(x, n) == [k \in 1..n |-> (x \div Power[n - k]) % IntBase]

sizeLimits(n) == Power[n] - 1
bisectLeft(u) == Min({n \in 0..8 : sizeLimits(n) >= u})

Uint64(x) == x % Word

-----------------------------------------------------------------------------
(* Packing.                                                                *)

EscapeNothing(b) == b

EscapeNul(b) ==
    Concat([k \in DOMAIN b |-> IF b[k] = 0 THEN <<0, 255>> ELSE <<b[k]>>])

encodeBytes(code, b) == <<code>> \o EscapeNul(b) \o <<0>>

encodeUint(i) ==
    LET n == bisectLeft(i) IN <<intZeroCode + n>> \o Digits(i, n)

\* A negative integer written with the digits of its magnitude.
encodeIntMagnitude(i) ==
    IF i >= 0
    THEN encodeUint(i)
    ELSE LET n == bisectLeft(Uint64(-i))
         IN  <<intZeroCode - n>> \o Digits(Uint64(-i), n)

encodeInt(i) ==
    IF i >= 0
    THEN encodeUint(i)
    ELSE LET n == bisectLeft(Uint64(-i))
         IN  <<intZeroCode - n>> \o Digits(Uint64(sizeLimits(n) + i), n)

BigLength(i) == Min({n \in 0..MaxDigits : sizeLimits(n) >= (IF i < 0 THEN -i ELSE i)})

encodeBigInt(i) ==
    LET length == BigLength(i)
    IN  IF i >= 0
        THEN (IF length > 8 THEN <<posIntEnd, length>> ELSE <<intZeroCode + length>>)
             \o Digits(i, length)
        ELSE (IF length > 8 THEN <<negIntStart, 255 - length>>
                            ELSE <<intZeroCode - length>>)
             \o Digits(i + sizeLimits(length), length)

Flip(b) == [k \in DOMAIN b |-> 255 - b[k]]
FlipSign(b) == [b EXCEPT ![1] = (@ + 128) % 256]

adjustFloatBytes(b, encode) ==
    IF encode <=> b[1] >= 128 THEN Flip(b) ELSE FlipSign(b)

encodeFixed(kind, b) ==
    <<Fixed[kind]>> \o IF kind \in {"float", "double"} THEN adjustFloatBytes(b, TRUE) ELSE b

encodePlain(e, nested) ==
    CASE e[1] = "nil"   -> IF nested THEN <<nilCode, 255>> ELSE <<nilCode>>
      [] e[1] = "bool"  -> IF e[2] THEN <<trueCode>> ELSE <<falseCode>>
      [] e[1] = "int"   -> IF e[2] \in -(Word \div 2)..((Word \div 2) - 1)
                           THEN encodeInt(e[2]) ELSE encodeUint(e[2])
      [] e[1] = "big"   -> encodeBigInt(e[2])
      [] e[1] \in DOMAIN Terminated -> encodeBytes(Terminated[e[1]], e[2])
      [] e[1] \in DOMAIN Fixed -> encodeFixed(e[1], e[2])

\* Pack for a tuple that holds no other tuple.
PackPlain(t) == Concat([k \in DOMAIN t |-> encodePlain(t[k], FALSE)])
=============================================================================
