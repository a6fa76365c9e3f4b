--------------------------- MODULE KeyspaceProofs ---------------------------
(***************************************************************************)
(* Proofs about module Keyspace, for any names and any numbers of parts.   *)
(***************************************************************************)
EXTENDS Keyspace, FiniteSetTheorems, WellFoundedInduction, TLAPS

-----------------------------------------------------------------------------
(* Induction and recursion on natural numbers.                             *)

\* A set of naturals has a least element.
LEMMA LeastExists ==
    ASSUME NEW T \in SUBSET Nat, T # {}
    PROVE  \E x \in T : \A y \in T : x <= y
<1>1. PICK x \in T : \A y \in T : ~(<<y, x>> \in OpToRel(<, Nat))
  BY NatLessThanWellFounded, WFMin, Zenon
<1>2. \A y \in T : x <= y
  <2> SUFFICES ASSUME NEW y \in T, ~(x <= y) PROVE FALSE
    BY Zenon
  <2>1. y \in Nat /\ x \in Nat /\ y < x
    OBVIOUS
  <2>2. <<y, x>> \in OpToRel(<, Nat)
    BY <2>1, Zenon DEF OpToRel
  <2> QED
    BY <1>1, <2>2, Zenon
<1> QED
  BY <1>2, Zenon

\* Of two naturals, one is less.
LEMMA NatTotal == \A x, y \in Nat : x # y => x < y \/ y < x
OBVIOUS

\* A function that starts with v and takes n steps, of which the k-th makes
\* F[k][x] of x.
Steps(n, V, v, F) == n \in Nat /\ v \in V /\ F \in [1..n -> [V -> V]]
Takes(g, n, V, v, F) ==
    g \in [0..n -> V] /\ g[0] = v /\ \A k \in 1..n : g[k] = F[k][g[k - 1]]

\* A function that is defined step by step exists.
LEMMA StepwiseExists ==
    ASSUME NEW n, NEW V, NEW v, NEW F, Steps(n, V, v, F)
    PROVE  \E g : Takes(g, n, V, v, F)
<1> USE DEF Steps, Takes
<1> DEFINE Good(m) == \E g \in [0..m -> V] : g[0] = v /\ \A k \in 1..m : g[k] = F[k][g[k - 1]]
           Bad == {m \in 0..n : ~ Good(m)}
<1>1. Good(0)
  <2>1. [k \in 0..0 |-> v] \in [0..0 -> V] /\ [k \in 0..0 |-> v][0] = v
    OBVIOUS
  <2>2. \A k \in 1..0 : FALSE
    OBVIOUS
  <2> QED
    BY <2>1, <2>2, Zenon
<1>2. ASSUME NEW m \in 1..n, Good(m - 1) PROVE Good(m)
  <2>1. PICK g \in [0..(m - 1) -> V] :
          g[0] = v /\ \A k \in 1..(m - 1) : g[k] = F[k][g[k - 1]]
    BY <1>2, Zenon
  <2> DEFINE h == [k \in 0..m |-> IF k = m THEN F[m][g[m - 1]] ELSE g[k]]
  <2>2. F[m][g[m - 1]] \in V
    OBVIOUS
  <2>3. \A k \in 0..m : k # m => k \in 0..(m - 1)
    OBVIOUS
  <2>4. h \in [0..m -> V]
    BY <2>2, <2>3, Zenon
  <2>5. h[0] = v
    BY <2>1
  <2>6. ASSUME NEW k \in 1..m PROVE h[k] = F[k][h[k - 1]]
    <3>1. k \in 0..m /\ k - 1 \in 0..m /\ k - 1 # m
      OBVIOUS
    <3>2. h[k - 1] = g[k - 1]
      BY <3>1, Zenon
    <3>3. CASE k = m
      BY <3>1, <3>2, <3>3, Zenon
    <3>4. CASE k # m
      BY <2>1, <3>1, <3>2, <3>4
    <3> QED
      BY <3>3, <3>4, Zenon
  <2> HIDE DEF h
  <2> QED
    BY <2>4, <2>5, <2>6, Zenon
<1> HIDE DEF Good
<1>3. Bad = {}
  <2> SUFFICES ASSUME Bad # {} PROVE FALSE
    BY Zenon
  <2>1. Bad \in SUBSET Nat
    OBVIOUS
  <2>2. PICK m \in Bad : \A y \in Bad : m <= y
    BY <2>1, LeastExists, Zenon
  <2>3. m \in 1..n /\ ~Good(m)
    BY <1>1, <2>2
  <2>4. m - 1 \in 0..n /\ m - 1 \notin Bad
    BY <2>2, <2>3
  <2> QED
    BY <1>2, <2>3, <2>4, Zenon
<1>4. Good(n)
  BY <1>3
<1> QED
  BY <1>4, Zenon DEF Good

\* It is the only one.
LEMMA StepwiseUnique ==
    ASSUME NEW n \in Nat, NEW f, NEW g, f[0] = g[0],
           \A k \in 1..n : f[k - 1] = g[k - 1] => f[k] = g[k]
    PROVE  \A k \in 0..n : f[k] = g[k]
<1> DEFINE Bad == {k \in 0..n : f[k] # g[k]}
<1> SUFFICES ASSUME Bad # {} PROVE FALSE
  BY Zenon
<1>1. Bad \in SUBSET Nat
  OBVIOUS
<1>2. PICK m \in Bad : \A y \in Bad : m <= y
  BY <1>1, LeastExists, Zenon
<1>3. m \in 1..n
  BY <1>2
<1>4. m - 1 \in 0..n /\ m - 1 \notin Bad
  BY <1>2, <1>3
<1> QED
  BY <1>2, <1>3, <1>4, Zenon

-----------------------------------------------------------------------------
(* Powers of the base.                                                     *)

\* Power is what its definition says.
LEMMA PowerDef ==
    /\ Power \in [0..MaxDigits -> Nat]
    /\ Power[0] = 1
    /\ \A n \in 1..MaxDigits : Power[n] = IntBase * Power[n - 1]
<1> DEFINE F == [n \in 1..MaxDigits |-> [x \in Nat |-> IntBase * x]]
<1>0. MaxDigits \in Nat
  BY ElementsAssumption
<1>1. MaxDigits \in Nat /\ IntBase \in Nat
  BY ElementsAssumption
<1>2. F \in [1..MaxDigits -> [Nat -> Nat]]
  BY <1>1
<1> HIDE DEF F
<1>3. PICK g \in [0..MaxDigits -> Nat] :
        g[0] = 1 /\ \A n \in 1..MaxDigits : g[n] = F[n][g[n - 1]]
  <2>1. Steps(MaxDigits, Nat, 1, F)
    BY <1>1, <1>2, Zenon DEF Steps
  <2>2. PICK g : Takes(g, MaxDigits, Nat, 1, F)
    BY <2>1, StepwiseExists, Zenon
  <2> QED
    BY <2>2, Zenon DEF Takes
<1>4. ASSUME NEW n \in 0..MaxDigits
      PROVE  g[n] = IF n = 0 THEN 1 ELSE IntBase * g[n - 1]
  <2>1. CASE n = 0
    BY <1>3, <2>1, Zenon
  <2>2. CASE n # 0
    <3>1. n \in 1..MaxDigits /\ n - 1 \in 0..MaxDigits
      BY <1>1, <2>2
    <3>2. F[n][g[n - 1]] = IntBase * g[n - 1]
      BY <3>1, Zenon DEF F
    <3> QED
      BY <1>3, <2>2, <3>1, <3>2, Zenon
  <2> QED
    BY <2>1, <2>2, Zenon
<1>5. g = [n \in 0..MaxDigits |-> IF n = 0 THEN 1 ELSE IntBase * g[n - 1]]
  BY <1>4, Zenon
<1>6. Power = [n \in 0..MaxDigits |-> IF n = 0 THEN 1 ELSE IntBase * Power[n - 1]]
  BY <1>5, Zenon DEF Power
<1>7. Power[0] = 1 /\ \A n \in 1..MaxDigits : Power[n] = IntBase * Power[n - 1]
  BY <1>1, <1>6
<1>8. g[0] = 1 /\ \A n \in 1..MaxDigits : g[n] = IntBase * g[n - 1]
  BY <1>1, <1>4
<1>9. \A n \in 0..MaxDigits : Power[n] = g[n]
  <2>1. Power[0] = g[0] /\ \A n \in 1..MaxDigits : Power[n - 1] = g[n - 1] => Power[n] = g[n]
    BY <1>7, <1>8, Zenon
  <2> QED
    BY <1>0, <2>1, StepwiseUnique, ZenonT(30)
<1> QED
  BY <1>6, <1>7, <1>9, Zenon

\* The word size is a number.
LEMMA WordNat == Word \in Nat
<1>1. 8 \in 0..MaxDigits
  BY ElementsAssumption
<1> QED
  BY <1>1, PowerDef, Zenon DEF Word

-----------------------------------------------------------------------------
(* Byte strings one after the other.                                       *)

\* A key, or a piece of one.
Bytes == Seq(Byte)

\* What the recursion of Concat computes on its way.
Joins(last, parts) ==
    /\ last \in [0..Len(parts) -> Bytes]
    /\ last[0] = <<>>
    /\ \A k \in 1..Len(parts) : last[k] = parts[Len(parts) - k + 1] \o last[k - 1]

\* Concat joins the byte strings from the last one on.
LEMMA ConcatDef ==
    ASSUME NEW parts \in Seq(Bytes)
    PROVE  \E last : Joins(last, parts) /\ Concat(parts) = last[Len(parts)]
<1> DEFINE n == Len(parts)
           F == [k \in 1..n |-> [x \in Bytes |-> parts[n - k + 1] \o x]]
           rec == CHOOSE f : f = [k \in 0..n |-> IF k = 0 THEN <<>>
                                                 ELSE parts[n - k + 1] \o f[k - 1]]
<1>1. n \in Nat
  OBVIOUS
<1>2. <<>> \in Bytes
  BY DEF Bytes
<1>3. F \in [1..n -> [Bytes -> Bytes]]
  <2>1. ASSUME NEW k \in 1..n, NEW x \in Bytes PROVE parts[n - k + 1] \o x \in Bytes
    <3>1. n - k + 1 \in 1..n
      OBVIOUS
    <3>2. parts[n - k + 1] \in Bytes
      BY <3>1
    <3> QED
      BY <3>2 DEF Bytes
  <2> QED
    BY <2>1, Zenon
<1>4. Concat(parts) = rec[n]
  BY Zenon DEF Concat
<1> HIDE DEF n, F, rec
<1>5. PICK g : Takes(g, n, Bytes, <<>>, F)
  <2>1. Steps(n, Bytes, <<>>, F)
    BY <1>1, <1>2, <1>3, Zenon DEF Steps
  <2> QED
    BY <2>1, StepwiseExists, Zenon
<1>6. ASSUME NEW k \in 1..n PROVE g[k] = parts[n - k + 1] \o g[k - 1]
  <2>1. g[k] = F[k][g[k - 1]] /\ g[k - 1] \in Bytes
    <3>1. k - 1 \in 0..n
      BY <1>1
    <3> QED
      BY <1>5, <3>1, Zenon DEF Takes
  <2> QED
    BY <2>1, Zenon DEF F
<1>7. ASSUME NEW k \in 0..n
      PROVE  g[k] = IF k = 0 THEN <<>> ELSE parts[n - k + 1] \o g[k - 1]
  <2>1. CASE k = 0
    BY <1>5, <2>1, Zenon DEF Takes
  <2>2. CASE k # 0
    <3>1. k \in 1..n
      BY <1>1, <2>2
    <3> QED
      BY <1>6, <2>2, <3>1, Zenon
  <2> QED
    BY <2>1, <2>2, Zenon
<1>8. g = [k \in 0..n |-> IF k = 0 THEN <<>> ELSE parts[n - k + 1] \o g[k - 1]]
  BY <1>5, <1>7, Zenon DEF Takes
<1>9. rec = [k \in 0..n |-> IF k = 0 THEN <<>> ELSE parts[n - k + 1] \o rec[k - 1]]
  BY <1>8, Zenon DEF rec
<1>10. rec[0] = <<>> /\ \A k \in 1..n : rec[k] = parts[n - k + 1] \o rec[k - 1]
  BY <1>1, <1>9
<1>11. \A k \in 0..n : rec[k] = g[k]
  <2>1. g[0] = <<>>
    BY <1>5, Zenon DEF Takes
  <2>2. rec[0] = g[0] /\ \A k \in 1..n : rec[k - 1] = g[k - 1] => rec[k] = g[k]
    BY <1>6, <1>10, <2>1, Zenon
  <2> QED
    BY <1>1, <2>2, StepwiseUnique, ZenonT(30)
<1>12. Joins(g, parts)
  BY <1>5, <1>6, SMTT(30) DEF Takes, Joins, n
<1>13. Concat(parts) = g[n]
  BY <1>1, <1>4, <1>11
<1> QED
  BY <1>12, <1>13, Zenon DEF n

\* Nothing joined is the empty byte string.
LEMMA ConcatNone == Concat(<<>>) = <<>>
<1>1. <<>> \in Seq(Bytes) /\ Len(<<>>) = 0
  OBVIOUS
<1>2. PICK last : Joins(last, <<>>) /\ Concat(<<>>) = last[Len(<<>>)]
  BY <1>1, ConcatDef, Zenon
<1> QED
  BY <1>1, <1>2, Zenon DEF Joins

\* What is joined is a byte string.
LEMMA ConcatBytes ==
    ASSUME NEW parts \in Seq(Bytes)
    PROVE  Concat(parts) \in Bytes
<1>1. PICK last : Joins(last, parts) /\ Concat(parts) = last[Len(parts)]
  BY ConcatDef, Zenon
<1>2. Len(parts) \in 0..Len(parts)
  OBVIOUS
<1> QED
  BY <1>1, <1>2, Zenon DEF Joins

\* The first byte string comes first.
LEMMA ConcatHead ==
    ASSUME NEW parts \in Seq(Bytes), parts # <<>>
    PROVE  Concat(parts) = parts[1] \o Concat(Tail(parts))
<1> DEFINE n == Len(parts)
           rest == Tail(parts)
<1>1. rest \in Seq(Bytes) /\ Len(rest) = n - 1 /\ n \in Nat /\ n # 0
  OBVIOUS
<1>2. \A k \in 1..(n - 1) : rest[k] = parts[k + 1]
  OBVIOUS
<1>3. PICK f : Joins(f, parts) /\ Concat(parts) = f[n]
  BY ConcatDef, Zenon
<1>4. PICK g : Joins(g, rest) /\ Concat(rest) = g[n - 1]
  <2>1. PICK g : Joins(g, rest) /\ Concat(rest) = g[Len(rest)]
    BY <1>1, ConcatDef, Zenon
  <2> QED
    BY <1>1, <2>1, Zenon
<1> HIDE DEF n, rest
<1>5. \A k \in 1..n : f[k] = parts[n - k + 1] \o f[k - 1]
  BY <1>3, Zenon DEF Joins, n
<1>6. ASSUME NEW k \in 1..(n - 1) PROVE g[k] = parts[n - k + 1] \o g[k - 1]
  <2>1. g[k] = rest[n - 1 - k + 1] \o g[k - 1]
    BY <1>1, <1>4, Zenon DEF Joins
  <2>2. n - 1 - k + 1 \in 1..(n - 1) /\ n - 1 - k + 1 + 1 = n - k + 1
    BY <1>1
  <2>3. rest[n - 1 - k + 1] = parts[n - k + 1]
    BY <1>2, <2>2
  <2> QED
    BY <2>1, <2>3, Zenon
<1>7. \A k \in 0..(n - 1) : f[k] = g[k]
  <2>1. f[0] = g[0]
    BY <1>3, <1>4, Zenon DEF Joins
  <2>2. ASSUME NEW k \in 1..(n - 1), f[k - 1] = g[k - 1] PROVE f[k] = g[k]
    <3>1. k \in 1..n
      BY <1>1
    <3> QED
      BY <1>5, <1>6, <2>2, <3>1, Zenon
  <2>3. n - 1 \in Nat
    BY <1>1
  <2> QED
    BY <2>1, <2>2, <2>3, StepwiseUnique, Zenon
<1>8. f[n] = parts[1] \o f[n - 1]
  <2>1. n \in 1..n /\ n - n + 1 = 1
    BY <1>1
  <2> QED
    BY <1>5, <2>1, Zenon
<1>9. f[n - 1] = g[n - 1]
  BY <1>1, <1>7
<1> QED
  BY <1>3, <1>4, <1>8, <1>9, Zenon DEF rest

\* Joining is associative.
LEMMA Assoc ==
    ASSUME NEW a \in Bytes, NEW b \in Bytes, NEW c \in Bytes
    PROVE  (a \o b) \o c = a \o (b \o c)
BY DEF Bytes

\* Four byte strings joined from the left and from the right.
Regroups(a, b, c, d) == ((a \o b) \o c) \o d = a \o (b \o (c \o d))

\* The same for four byte strings.
LEMMA AssocFour ==
    ASSUME NEW a \in Bytes, NEW b \in Bytes, NEW c \in Bytes, NEW d \in Bytes
    PROVE  Regroups(a, b, c, d)
<1> DEFINE ab == a \o b
           cd == c \o d
<1>1. ab \in Bytes /\ cd \in Bytes
  BY DEF Bytes
<1>2. ab \o cd = a \o (b \o cd)
  <2> HIDE DEF cd
  <2> QED
    BY <1>1, Assoc, ZenonT(30)
<1>3. (ab \o c) \o d = ab \o cd
  <2> HIDE DEF ab
  <2> QED
    BY <1>1, Assoc, SMTT(30)
<1> QED
  BY <1>2, <1>3, Zenon DEF Regroups

\* One byte and the bytes after it.
LEMMA FirstByte ==
    ASSUME NEW x \in Byte, NEW s \in Bytes
    PROVE  /\ <<x>> \o s \in Bytes
           /\ Len(<<x>> \o s) = Len(s) + 1
           /\ (<<x>> \o s)[1] = x
           /\ \A k \in 1..Len(s) : (<<x>> \o s)[k + 1] = s[k]
BY DEF Bytes

\* Prefixes are compared byte by byte.
LEMMA PrefixByByte ==
    ASSUME NEW x \in Byte, NEW y \in Byte, NEW s \in Bytes, NEW t \in Bytes
    PROVE  HasPrefix(<<y>> \o t, <<x>> \o s) <=> x = y /\ HasPrefix(t, s)
<1> DEFINE p == <<x>> \o s
           q == <<y>> \o t
<1>1. /\ p \in Bytes /\ Len(p) = Len(s) + 1 /\ p[1] = x
      /\ \A k \in 1..Len(s) : p[k + 1] = s[k]
  BY FirstByte, Zenon
<1>2. /\ q \in Bytes /\ Len(q) = Len(t) + 1 /\ q[1] = y
      /\ \A k \in 1..Len(t) : q[k + 1] = t[k]
  BY FirstByte, Zenon
<1>3. /\ DOMAIN p = 1..Len(p) /\ DOMAIN s = 1..Len(s)
      /\ Len(s) \in Nat /\ Len(t) \in Nat
  BY <1>1 DEF Bytes
<1> HIDE DEF p, q
<1>4. ASSUME HasPrefix(q, p) PROVE x = y /\ HasPrefix(t, s)
  <2>1. Len(s) <= Len(t) /\ \A k \in 1..Len(p) : q[k] = p[k]
    BY <1>1, <1>2, <1>3, <1>4 DEF HasPrefix
  <2>2. 1 \in 1..Len(p)
    BY <1>1, <1>3
  <2>3. ASSUME NEW k \in 1..Len(s) PROVE t[k] = s[k]
    <3>1. k + 1 \in 1..Len(p) /\ k \in 1..Len(t)
      BY <1>1, <1>3, <2>1
    <3> QED
      BY <1>1, <1>2, <2>1, <3>1, Zenon
  <2> QED
    BY <1>1, <1>2, <1>3, <2>1, <2>2, <2>3, Zenon DEF HasPrefix
<1>5. ASSUME x = y, HasPrefix(t, s) PROVE HasPrefix(q, p)
  <2>1. Len(s) <= Len(t) /\ \A k \in 1..Len(s) : t[k] = s[k]
    BY <1>3, <1>5, Zenon DEF HasPrefix
  <2>2. ASSUME NEW k \in 1..Len(p) PROVE q[k] = p[k]
    <3>1. CASE k = 1
      BY <1>1, <1>2, <1>5, <3>1, Zenon
    <3>2. CASE k # 1
      <4>1. k - 1 \in 1..Len(s) /\ k - 1 \in 1..Len(t) /\ k - 1 + 1 = k
        BY <1>1, <1>3, <2>1, <3>2
      <4> QED
        BY <1>1, <1>2, <2>1, <4>1, Zenon
    <3> QED
      BY <3>1, <3>2, Zenon
  <2> QED
    BY <1>1, <1>2, <1>3, <2>1, <2>2 DEF HasPrefix
<1> QED
  BY <1>4, <1>5, Zenon DEF p, q

-----------------------------------------------------------------------------
(* A byte string in a key: its escaped bytes, a zero byte, and what is     *)
(* packed after it.                                                        *)

\* What is written for one byte, and a byte string with the rest of its key.
Escaped(c) == IF c = 0 THEN <<0, 255>> ELSE <<c>>
Text(b, rest) == EscapeNul(b) \o (<<0>> \o rest)

\* The escape of a byte string begins with the escape of its first byte.
LEMMA EscapeHead ==
    /\ EscapeNul(<<>>) = <<>>
    /\ \A b \in Bytes : EscapeNul(b) \in Bytes
    /\ \A b \in Bytes : b # <<>> => EscapeNul(b) = Escaped(b[1]) \o EscapeNul(Tail(b))
<1> DEFINE Parts(b) == [k \in DOMAIN b |-> Escaped(b[k])]
<1>1. \A b : EscapeNul(b) = Concat(Parts(b))
  BY Zenon DEF EscapeNul, Escaped
<1>2. ASSUME NEW b \in Bytes PROVE Parts(b) \in Seq(Bytes) /\ Len(Parts(b)) = Len(b)
  <2>1. DOMAIN b = 1..Len(b) /\ Len(b) \in Nat
    BY DEF Bytes
  <2>2. ASSUME NEW k \in 1..Len(b) PROVE Escaped(b[k]) \in Bytes
    <3>1. b[k] \in Byte
      BY DEF Bytes
    <3>2. 0 \in Byte /\ 255 \in Byte
      BY DEF Byte
    <3> QED
      BY <3>1, <3>2 DEF Escaped, Bytes
  <2> QED
    BY <2>1, <2>2
<1>3. Parts(<<>>) = <<>>
  OBVIOUS
<1>4. ASSUME NEW b \in Bytes, b # <<>>
      PROVE  /\ Parts(b) # <<>> /\ Parts(b)[1] = Escaped(b[1])
             /\ Tail(Parts(b)) = Parts(Tail(b)) /\ Tail(b) \in Bytes
  <2>1. /\ Len(b) \in Nat /\ Len(b) # 0 /\ DOMAIN b = 1..Len(b)
        /\ Tail(b) \in Bytes /\ Len(Tail(b)) = Len(b) - 1
        /\ \A k \in 1..(Len(b) - 1) : Tail(b)[k] = b[k + 1]
    BY <1>4 DEF Bytes
  <2>2. Parts(b) \in Seq(Bytes) /\ Len(Parts(b)) = Len(b)
    BY <1>2, Zenon
  <2>3. Parts(Tail(b)) \in Seq(Bytes) /\ Len(Parts(Tail(b))) = Len(b) - 1
    BY <1>2, <2>1, Zenon
  <2>4. \A k \in 1..Len(b) : Parts(b)[k] = Escaped(b[k])
    BY <2>1, Zenon
  <2>5. \A k \in 1..(Len(b) - 1) : Parts(Tail(b))[k] = Escaped(b[k + 1])
    BY <2>1, <2>3
  <2> HIDE DEF Parts
  <2>6. Parts(b) # <<>> /\ Parts(b)[1] = Escaped(b[1])
    BY <2>1, <2>2, <2>4
  <2>7. /\ Tail(Parts(b)) \in Seq(Bytes) /\ Len(Tail(Parts(b))) = Len(b) - 1
        /\ \A k \in 1..(Len(b) - 1) : Tail(Parts(b))[k] = Parts(b)[k + 1]
    BY <2>1, <2>2, <2>6
  <2>8. \A k \in 1..(Len(b) - 1) : Tail(Parts(b))[k] = Parts(Tail(b))[k]
    <3>1. \A k \in 1..(Len(b) - 1) : k + 1 \in 1..Len(b)
      BY <2>1
    <3> QED
      BY <2>4, <2>5, <2>7, <3>1, Zenon
  <2>9. Tail(Parts(b)) = Parts(Tail(b))
    BY <2>1, <2>3, <2>7, <2>8
  <2> QED
    BY <2>1, <2>6, <2>9, Zenon
<1> HIDE DEF Parts
<1> QED
  BY <1>1, <1>2, <1>3, <1>4, ConcatNone, ConcatBytes, ConcatHead, Zenon

\* The text of a byte string, one of its bytes after the other.
LEMMA TextHead ==
    ASSUME NEW b \in Bytes, NEW rest \in Bytes
    PROVE  /\ Text(b, rest) \in Bytes
           /\ b = <<>> => Text(b, rest) = <<0>> \o rest
           /\ b # <<>> => Tail(b) \in Bytes /\ b[1] \in Byte
           /\ b # <<>> /\ b[1] = 0
                 => Text(b, rest) = <<0>> \o (<<255>> \o Text(Tail(b), rest))
           /\ b # <<>> /\ b[1] # 0 => Text(b, rest) = <<b[1]>> \o Text(Tail(b), rest)
<1>1. 0 \in Byte /\ 255 \in Byte
  BY DEF Byte
<1>2. <<0>> \in Bytes /\ <<255>> \in Bytes /\ <<>> \in Bytes
  BY <1>1 DEF Bytes
<1>3. \A s, t \in Bytes : s \o t \in Bytes
  BY DEF Bytes
<1>4. <<0>> \o rest \in Bytes
  BY <1>2, <1>3, Zenon
<1>5. Text(b, rest) \in Bytes
  BY <1>3, <1>4, EscapeHead, Zenon DEF Text
<1>6. ASSUME b = <<>> PROVE Text(b, rest) = <<0>> \o rest
  <2>1. <<>> \o (<<0>> \o rest) = <<0>> \o rest
    BY <1>4 DEF Bytes
  <2> QED
    BY <1>6, <2>1, EscapeHead, Zenon DEF Text
<1>7. ASSUME b # <<>> PROVE Tail(b) \in Bytes /\ b[1] \in Byte
  BY <1>7 DEF Bytes
<1>8. ASSUME b # <<>>
      PROVE  Text(b, rest) = Escaped(b[1]) \o Text(Tail(b), rest)
  <2>1. EscapeNul(b) = Escaped(b[1]) \o EscapeNul(Tail(b))
    BY <1>8, EscapeHead, Zenon
  <2>2. Escaped(b[1]) \in Bytes
    BY <1>1, <1>7, <1>8 DEF Escaped, Bytes
  <2>3. EscapeNul(Tail(b)) \in Bytes
    BY <1>7, <1>8, EscapeHead, Zenon
  <2>4. (Escaped(b[1]) \o EscapeNul(Tail(b))) \o (<<0>> \o rest)
            = Escaped(b[1]) \o (EscapeNul(Tail(b)) \o (<<0>> \o rest))
    BY <1>4, <2>2, <2>3, Assoc, Zenon
  <2> QED
    BY <2>1, <2>4, Zenon DEF Text
<1>9. ASSUME b # <<>>, b[1] = 0
      PROVE  Text(b, rest) = <<0>> \o (<<255>> \o Text(Tail(b), rest))
  <2>1. Text(Tail(b), rest) \in Bytes
    BY <1>3, <1>4, <1>7, <1>9, EscapeHead, Zenon DEF Text
  <2>2. Escaped(b[1]) = <<0>> \o <<255>>
    BY <1>9 DEF Escaped
  <2>3. (<<0>> \o <<255>>) \o Text(Tail(b), rest) = <<0>> \o (<<255>> \o Text(Tail(b), rest))
    <3> DEFINE zero == <<0>>
               mark == <<255>>
    <3>1. zero \in Bytes /\ mark \in Bytes
      BY <1>2, Zenon
    <3> HIDE DEF zero, mark
    <3>2. (zero \o mark) \o Text(Tail(b), rest) = zero \o (mark \o Text(Tail(b), rest))
      BY <2>1, <3>1, Assoc, ZenonT(30)
    <3> QED
      BY <3>2, Zenon DEF zero, mark
  <2> QED
    BY <1>8, <1>9, <2>2, <2>3, Zenon
<1>10. ASSUME b # <<>>, b[1] # 0
       PROVE  Text(b, rest) = <<b[1]>> \o Text(Tail(b), rest)
  BY <1>8, <1>10, Zenon DEF Escaped
<1> QED
  BY <1>5, <1>6, <1>7, <1>9, <1>10, Zenon

\* A packed element never begins with the byte 255, the mark of a zero byte
\* within a text.
Unmarked(rest) == rest \in Bytes /\ (rest # <<>> => rest[1] # 255)

\* Whether a text begins with another says as much about the byte strings, or
\* the second one goes on after the first with a zero byte.  The latter only
\* where nothing follows the first one in its key.
Reads(b, c, s, t) ==
    \/ b = c /\ HasPrefix(t, s)
    \/ HasPrefix(c, b \o <<0>>) /\ (s = <<>> \/ ~ Unmarked(s))

\* One byte more in front of both byte strings.
LEMMA ReadsOn ==
    ASSUME NEW b \in Bytes, NEW c \in Bytes, NEW s, NEW t, b # <<>>, c # <<>>,
           b[1] = c[1], Reads(Tail(b), Tail(c), s, t)
    PROVE  Reads(b, c, s, t)
<1>1. /\ Tail(b) \in Bytes /\ Tail(c) \in Bytes /\ b[1] \in Byte
      /\ b = <<b[1]>> \o Tail(b) /\ c = <<c[1]>> \o Tail(c)
  BY DEF Bytes
<1>2. <<0>> \in Bytes /\ <<b[1]>> \in Bytes
  BY <1>1 DEF Bytes, Byte
<1>3. CASE Tail(b) = Tail(c) /\ HasPrefix(t, s)
  BY <1>1, <1>3, Zenon DEF Reads
<1>4. CASE HasPrefix(Tail(c), Tail(b) \o <<0>>) /\ (s = <<>> \/ ~ Unmarked(s))
  <2>1. Tail(b) \o <<0>> \in Bytes
    BY <1>1, <1>2 DEF Bytes
  <2>2. HasPrefix(<<b[1]>> \o Tail(c), <<b[1]>> \o (Tail(b) \o <<0>>))
    BY <1>1, <1>4, <2>1, PrefixByByte, Zenon
  <2>3. b \o <<0>> = <<b[1]>> \o (Tail(b) \o <<0>>)
    <3>1. (<<b[1]>> \o Tail(b)) \o <<0>> = <<b[1]>> \o (Tail(b) \o <<0>>)
      BY <1>1, <1>2 DEF Bytes
    <3> QED
      BY <1>1, <3>1, Zenon
  <2>4. <<b[1]>> \o Tail(c) = c
    BY <1>1, Zenon
  <2> QED
    BY <1>4, <2>2, <2>3, <2>4, Zenon DEF Reads
<1> QED
  BY <1>3, <1>4, Zenon DEF Reads

\* The bytes of a text tell where the byte string in it ends.
LEMMA TextPrefix ==
    ASSUME NEW b \in Bytes, NEW c \in Bytes, NEW s \in Bytes, NEW t, Unmarked(t),
           HasPrefix(Text(c, t), Text(b, s))
    PROVE  Reads(b, c, s, t)
<1> DEFINE Bad == {n \in Nat : \E x, y \in Bytes : /\ Len(x) = n
                                                   /\ HasPrefix(Text(y, t), Text(x, s))
                                                   /\ ~ Reads(x, y, s, t)}
<1>1. 0 \in Byte /\ 255 \in Byte /\ 0 # 255
  BY DEF Byte
<1>2. t \in Bytes
  BY Zenon DEF Unmarked
<1>3. Bad = {}
  <2> SUFFICES ASSUME Bad # {} PROVE FALSE
    BY Zenon
  <2>1. Bad \in SUBSET Nat
    BY Zenon
  <2>2. PICK n \in Bad : \A m \in Bad : n <= m
    BY <2>1, LeastExists, Zenon
  <2>3. PICK x \in Bytes, y \in Bytes :
          Len(x) = n /\ HasPrefix(Text(y, t), Text(x, s)) /\ ~ Reads(x, y, s, t)
    BY <2>2, Zenon
  <2>4. ASSUME x # <<>>, y # <<>>, x[1] = y[1],
               HasPrefix(Text(Tail(y), t), Text(Tail(x), s))
        PROVE  FALSE
    <3>1. Tail(x) \in Bytes /\ Tail(y) \in Bytes
      BY <2>4, <1>2, TextHead, Zenon
    <3>2. Len(Tail(x)) \in Nat /\ Len(Tail(x)) < n
      BY <2>3, <2>4 DEF Bytes
    <3>3. Len(Tail(x)) \notin Bad
      BY <2>2, <3>2
    <3>4. Reads(Tail(x), Tail(y), s, t)
      BY <2>4, <3>1, <3>2, <3>3, Zenon
    <3> QED
      BY <2>3, <2>4, <3>4, ReadsOn, Zenon
  <2>5. /\ x # <<>> => Tail(x) \in Bytes /\ x[1] \in Byte /\ Text(Tail(x), s) \in Bytes
        /\ y # <<>> => Tail(y) \in Bytes /\ y[1] \in Byte /\ Text(Tail(y), t) \in Bytes
    BY <1>2, TextHead, Zenon
  <2>6. /\ x = <<>> => Text(x, s) = <<0>> \o s
        /\ x # <<>> /\ x[1] = 0 => Text(x, s) = <<0>> \o (<<255>> \o Text(Tail(x), s))
        /\ x # <<>> /\ x[1] # 0 => Text(x, s) = <<x[1]>> \o Text(Tail(x), s)
    BY TextHead
  <2>7. /\ y = <<>> => Text(y, t) = <<0>> \o t
        /\ y # <<>> /\ y[1] = 0 => Text(y, t) = <<0>> \o (<<255>> \o Text(Tail(y), t))
        /\ y # <<>> /\ y[1] # 0 => Text(y, t) = <<y[1]>> \o Text(Tail(y), t)
    BY <1>2, TextHead
  <2>8. \A u \in Bytes : <<255>> \o u \in Bytes
    BY <1>1, FirstByte
  <2>9. CASE x = <<>>
    <3>1. CASE y = <<>>
      <4>1. HasPrefix(<<0>> \o t, <<0>> \o s)
        BY <2>3, <2>6, <2>7, <2>9, <3>1, Zenon
      <4>2. HasPrefix(t, s)
        BY <1>1, <1>2, <4>1, PrefixByByte, Zenon
      <4> QED
        BY <2>3, <2>9, <3>1, <4>2, Zenon DEF Reads
    <3>2. CASE y # <<>> /\ y[1] = 0
      <4>1. HasPrefix(y, x \o <<0>>)
        BY <2>9, <3>2, SMTT(30) DEF HasPrefix, Bytes
      <4>2. HasPrefix(<<0>> \o (<<255>> \o Text(Tail(y), t)), <<0>> \o s)
        BY <2>3, <2>6, <2>7, <2>9, <3>2, Zenon
      <4>3. HasPrefix(<<255>> \o Text(Tail(y), t), s)
        BY <1>1, <2>5, <2>8, <3>2, <4>2, PrefixByByte
      <4>4. (<<255>> \o Text(Tail(y), t))[1] = 255
        BY <1>1, <2>5, <3>2, FirstByte
      <4>5. s = <<>> \/ s[1] = 255
        <5>1. s # <<>> => 1 \in DOMAIN s
          BY DEF Bytes
        <5> QED
          BY <4>3, <4>4, <5>1, Zenon DEF HasPrefix
      <4> QED
        BY <2>3, <4>1, <4>5, Zenon DEF Reads, Unmarked
    <3>3. CASE y # <<>> /\ y[1] # 0
      <4>1. HasPrefix(<<y[1]>> \o Text(Tail(y), t), <<0>> \o s)
        BY <2>3, <2>6, <2>7, <2>9, <3>3, Zenon
      <4> QED
        BY <1>1, <2>5, <3>3, <4>1, PrefixByByte
    <3> QED
      BY <3>1, <3>2, <3>3, Zenon
  <2>10. CASE x # <<>> /\ x[1] = 0
    <3>1. CASE y = <<>>
      <4>1. HasPrefix(<<0>> \o t, <<0>> \o (<<255>> \o Text(Tail(x), s)))
        BY <2>3, <2>6, <2>7, <2>10, <3>1, Zenon
      <4>2. HasPrefix(t, <<255>> \o Text(Tail(x), s))
        BY <1>1, <1>2, <2>5, <2>8, <2>10, <4>1, PrefixByByte
      <4>3. /\ 1 \in DOMAIN (<<255>> \o Text(Tail(x), s))
            /\ (<<255>> \o Text(Tail(x), s))[1] = 255
            /\ Len(<<255>> \o Text(Tail(x), s)) >= 1
        BY <1>1, <2>5, <2>10 DEF Bytes
      <4>4. t # <<>> /\ t[1] = 255
        BY <1>2, <4>2, <4>3 DEF HasPrefix
      <4> QED
        BY <4>4, Zenon DEF Unmarked
    <3>2. CASE y # <<>> /\ y[1] = 0
      <4>1. HasPrefix(<<0>> \o (<<255>> \o Text(Tail(y), t)),
                      <<0>> \o (<<255>> \o Text(Tail(x), s)))
        BY <2>3, <2>6, <2>7, <2>10, <3>2, Zenon
      <4>2. HasPrefix(<<255>> \o Text(Tail(y), t), <<255>> \o Text(Tail(x), s))
        BY <1>1, <2>5, <2>8, <2>10, <3>2, <4>1, PrefixByByte
      <4>3. HasPrefix(Text(Tail(y), t), Text(Tail(x), s))
        BY <1>1, <2>5, <2>10, <3>2, <4>2, PrefixByByte
      <4> QED
        BY <2>4, <2>10, <3>2, <4>3, Zenon
    <3>3. CASE y # <<>> /\ y[1] # 0
      <4>1. HasPrefix(<<y[1]>> \o Text(Tail(y), t), <<0>> \o (<<255>> \o Text(Tail(x), s)))
        BY <2>3, <2>6, <2>7, <2>10, <3>3, Zenon
      <4> QED
        BY <1>1, <2>5, <2>8, <2>10, <3>3, <4>1, PrefixByByte
    <3> QED
      BY <3>1, <3>2, <3>3, Zenon
  <2>11. CASE x # <<>> /\ x[1] # 0
    <3>1. CASE y = <<>>
      <4>1. HasPrefix(<<0>> \o t, <<x[1]>> \o Text(Tail(x), s))
        BY <2>3, <2>6, <2>7, <2>11, <3>1, Zenon
      <4> QED
        BY <1>1, <1>2, <2>5, <2>11, <4>1, PrefixByByte
    <3>2. CASE y # <<>> /\ y[1] = 0
      <4>1. HasPrefix(<<0>> \o (<<255>> \o Text(Tail(y), t)), <<x[1]>> \o Text(Tail(x), s))
        BY <2>3, <2>6, <2>7, <2>11, <3>2, Zenon
      <4> QED
        BY <1>1, <2>5, <2>8, <2>11, <3>2, <4>1, PrefixByByte
    <3>3. CASE y # <<>> /\ y[1] # 0
      <4>1. HasPrefix(<<y[1]>> \o Text(Tail(y), t), <<x[1]>> \o Text(Tail(x), s))
        BY <2>3, <2>6, <2>7, <2>11, <3>3, Zenon
      <4>2. x[1] = y[1] /\ HasPrefix(Text(Tail(y), t), Text(Tail(x), s))
        BY <2>5, <2>11, <3>3, <4>1, PrefixByByte, Zenon
      <4> QED
        BY <2>4, <2>11, <3>3, <4>2, Zenon
    <3> QED
      BY <3>1, <3>2, <3>3, Zenon
  <2> QED
    BY <2>9, <2>10, <2>11, Zenon
<1>4. Len(b) \in Nat /\ Len(b) \notin Bad
  BY <1>3, SMTT(30) DEF Bytes
<1> QED
  BY <1>4, Zenon

\* A byte string packed with its type code, in front of what follows.
Field(code, b, rest) == <<code>> \o Text(b, rest)

\* encodeBytes packs the byte string, as a field.
LEMMA FieldDef ==
    ASSUME NEW code \in Byte, NEW b \in Bytes, NEW rest \in Bytes
    PROVE  encodeBytes(code, b) \in Bytes /\ encodeBytes(code, b) \o rest = Field(code, b, rest)
<1> DEFINE head == <<code>>
           text == EscapeNul(b)
           end == <<0>>
<1>1. head \in Bytes /\ end \in Bytes
  BY DEF Bytes, Byte
<1>2. text \in Bytes
  BY EscapeHead, Zenon
<1>3. encodeBytes(code, b) = (head \o text) \o end
  BY Zenon DEF encodeBytes
<1>4. Field(code, b, rest) = head \o (text \o (end \o rest))
  BY Zenon DEF Field, Text
<1> HIDE DEF head, text, end
<1>5. (head \o text) \o end \in Bytes
  BY <1>1, <1>2 DEF Bytes
<1>6. ((head \o text) \o end) \o rest = head \o (text \o (end \o rest))
  <2>1. Regroups(head, text, end, rest)
    BY <1>1, <1>2, AssocFour, Zenon
  <2> QED
    BY <2>1, Zenon DEF Regroups
<1>7. encodeBytes(code, b) \in Bytes
  BY <1>3, <1>5, Zenon
<1> QED
  BY <1>3, <1>4, <1>6, <1>7, Zenon

\* A field is not taken for the rest of a text.
LEMMA FieldUnmarked ==
    ASSUME NEW code \in Byte, code # 255, NEW b \in Bytes, NEW rest \in Bytes
    PROVE  Field(code, b, rest) \in Bytes /\ Unmarked(Field(code, b, rest))
<1>1. Text(b, rest) \in Bytes
  BY TextHead, Zenon
<1>2. Field(code, b, rest) \in Bytes /\ Field(code, b, rest)[1] = code
  BY <1>1, FirstByte, Zenon DEF Field
<1> QED
  BY <1>2, Zenon DEF Unmarked

\* A field that begins with another is of the same type and byte string, or
\* its byte string goes on with a zero byte.
LEMMA FieldPrefix ==
    ASSUME NEW p \in Byte, NEW q \in Byte, NEW b \in Bytes, NEW c \in Bytes,
           NEW s \in Bytes, NEW t, Unmarked(t), HasPrefix(Field(q, c, t), Field(p, b, s))
    PROVE  p = q /\ Reads(b, c, s, t)
<1>1. t \in Bytes
  BY Zenon DEF Unmarked
<1>2. Text(c, t) \in Bytes /\ Text(b, s) \in Bytes
  BY <1>1, TextHead, Zenon
<1>3. p = q /\ HasPrefix(Text(c, t), Text(b, s))
  BY <1>2, PrefixByByte, Zenon DEF Field
<1> QED
  BY <1>3, TextPrefix, Zenon

\* Byte strings that begin with each other are the same.
LEMMA PrefixEqual ==
    ASSUME NEW s \in Bytes, NEW t \in Bytes, HasPrefix(s, t), HasPrefix(t, s)
    PROVE  s = t
BY DEF HasPrefix, Bytes

\* A byte string begins with itself.
LEMMA PrefixSelf ==
    ASSUME NEW s \in Bytes
    PROVE  HasPrefix(s, s)
BY DEF HasPrefix, Bytes

\* A field is read in one way only.
LEMMA FieldInjective ==
    ASSUME NEW p \in Byte, NEW q \in Byte, NEW b \in Bytes, NEW c \in Bytes,
           NEW s, NEW t, Unmarked(s), Unmarked(t), Field(p, b, s) = Field(q, c, t)
    PROVE  p = q /\ b = c /\ s = t
<1>1. s \in Bytes /\ t \in Bytes
  BY Zenon DEF Unmarked
<1>2. Field(p, b, s) \in Bytes /\ Field(q, c, t) \in Bytes
  BY <1>1, TextHead, FirstByte, ZenonT(30) DEF Field
<1>3. p = q /\ Reads(b, c, s, t)
  BY <1>1, <1>2, PrefixSelf, FieldPrefix, Zenon
<1>4. Reads(c, b, t, s)
  BY <1>1, <1>2, PrefixSelf, FieldPrefix, Zenon
<1>5. ASSUME NEW x \in Bytes, NEW y \in Bytes, HasPrefix(y, x \o << 0 >>) PROVE Len(x) < Len(y)
  BY <1>5 DEF HasPrefix, Bytes
<1>6. b = c
  <2>1. Len(b) \in Nat /\ Len(c) \in Nat
    BY DEF Bytes
  <2> QED
    BY <1>3, <1>4, <1>5, <2>1 DEF Reads
<1>7. ~ HasPrefix(b, b \o <<0>>)
  <2>1. Len(b) \in Nat
    BY DEF Bytes
  <2> QED
    BY <1>5, <2>1
<1>8. HasPrefix(s, t) /\ HasPrefix(t, s)
  BY <1>3, <1>4, <1>6, <1>7, Zenon DEF Reads
<1> QED
  BY <1>1, <1>3, <1>6, <1>8, PrefixEqual, Zenon

-----------------------------------------------------------------------------
(* The registry's keys as fields.                                          *)

\* The strings and byte strings of a key are fields of codes 2 and 1, and the
\* number of a part is packed by encodeInt.
LEMMA PlainElements ==
    /\ \A b : encodePlain(Str(b), FALSE) = encodeBytes(2, b)
    /\ \A b : encodePlain(<<"bytes", b>>, FALSE) = encodeBytes(1, b)
    /\ \A i \in 0..((Word \div 2) - 1) : encodePlain(<<"int", i>>, FALSE) = encodeUint(i)
<1>1. /\ DOMAIN Terminated = {"bytes", "string"}
      /\ Terminated["bytes"] = 1 /\ Terminated["string"] = 2
      /\ DOMAIN Fixed = {"float", "double", "uuid", "versionstamp"}
  BY Zenon DEF Terminated, Fixed
<1>2. ASSUME NEW e, e[1] = "bytes" \/ e[1] = "string"
      PROVE  encodePlain(e, FALSE) = encodeBytes(Terminated[e[1]], e[2])
  BY <1>1, <1>2, Zenon DEF encodePlain
<1>3. \A b : Str(b)[1] = "string" /\ Str(b)[2] = b
  BY Zenon DEF Str
<1>4. \A b : <<"bytes", b>>[1] = "bytes" /\ <<"bytes", b>>[2] = b
  BY Zenon
<1>5. ASSUME NEW i \in 0..((Word \div 2) - 1)
      PROVE  encodePlain(<<"int", i>>, FALSE) = encodeUint(i)
  <2>1. Word \in Nat
    BY WordNat, Zenon
  <2>2. i \in -(Word \div 2)..((Word \div 2) - 1) /\ i >= 0
    BY <2>1
  <2>3. ASSUME NEW e, e[1] = "int", e[2] \in -(Word \div 2)..((Word \div 2) - 1)
        PROVE  encodePlain(e, FALSE) = encodeInt(e[2])
    BY <1>1, <2>3, Zenon DEF encodePlain
  <2>4. <<"int", i>>[1] = "int" /\ <<"int", i>>[2] = i
    BY Zenon
  <2>5. encodePlain(<<"int", i>>, FALSE) = encodeInt(i)
    BY <2>2, <2>3, <2>4, Zenon
  <2> QED
    BY <2>2, <2>5, Zenon DEF encodeInt
<1>6. ASSUME NEW b PROVE encodePlain(Str(b), FALSE) = encodeBytes(2, b)
  BY <1>1, <1>2, <1>3, ZenonT(30)
<1>7. ASSUME NEW b PROVE encodePlain(<<"bytes", b>>, FALSE) = encodeBytes(1, b)
  BY <1>1, <1>2, <1>4, Zenon
<1> QED
  BY <1>5, <1>6, <1>7, Zenon

\* The powers of the base grow.
LEMMA PowerGrows ==
    ASSUME NEW n \in 1..MaxDigits
    PROVE  Power[n] \in Nat /\ Power[n - 1] \in Nat \ {0} /\ Power[n - 1] < Power[n]
<1> DEFINE Bad == {m \in 0..MaxDigits : Power[m] = 0}
<1>1. MaxDigits \in Nat /\ IntBase \in Nat /\ IntBase >= 2
  BY ElementsAssumption
<1>2. Power[n] = IntBase * Power[n - 1] /\ Power[n] \in Nat /\ Power[n - 1] \in Nat
  BY <1>1, PowerDef
<1>3. Bad = {}
  <2> SUFFICES ASSUME Bad # {} PROVE FALSE
    BY Zenon
  <2>1. Bad \in SUBSET Nat
    BY <1>1
  <2>2. PICK m \in Bad : \A y \in Bad : m <= y
    BY <2>1, LeastExists, Zenon
  <2>3. m \in 1..MaxDigits
    BY <2>2, PowerDef
  <2>4. m - 1 \in 0..MaxDigits /\ m - 1 \notin Bad
    BY <1>1, <2>2, <2>3
  <2>5. Power[m - 1] # 0 /\ Power[m - 1] \in Nat
    BY <2>4, PowerDef, Zenon
  <2>6. Power[m] = IntBase * Power[m - 1]
    BY <2>3, PowerDef, Zenon
  <2>7. \A x \in Nat : x # 0 => IntBase * x # 0
    BY <1>1
  <2> QED
    BY <2>2, <2>5, <2>6, <2>7, Zenon
<1>4. Power[n - 1] # 0
  BY <1>1, <1>3
<1>5. \A x \in Nat : x # 0 => x < IntBase * x
  BY <1>1
<1> QED
  BY <1>2, <1>4, <1>5, Zenon

\* An unsigned integer is packed as the number of its digits and the digits.
LEMMA UintBytes ==
    ASSUME NEW i \in 0..(Word - 1)
    PROVE  /\ bisectLeft(i) \in 0..8 /\ i <= sizeLimits(bisectLeft(i))
           /\ \A n \in 0..8 : i <= sizeLimits(n) => bisectLeft(i) <= n
           /\ encodeUint(i) \in Bytes
           /\ Len(encodeUint(i)) = bisectLeft(i) + 1
           /\ encodeUint(i)[1] = intZeroCode + bisectLeft(i)
           /\ \A k \in 1..bisectLeft(i) :
                 encodeUint(i)[k + 1] = (i \div Power[bisectLeft(i) - k]) % IntBase
<1> DEFINE S == {n \in 0..8 : sizeLimits(n) >= i}
           n == bisectLeft(i)
<1>1. /\ MaxDigits \in Nat /\ MaxDigits >= 8 /\ IntBase \in Nat
      /\ IntBase >= 2 /\ IntBase <= 256
  BY ElementsAssumption
<1>2. \A m \in 0..8 : Power[m] \in Nat
  <2>1. \A m \in 0..8 : m \in 0..MaxDigits
    BY <1>1
  <2> QED
    BY <2>1, PowerDef, Zenon
<1>3. 8 \in S
  BY <1>2 DEF Word, sizeLimits
<1>4. PICK x \in S : \A y \in S : x <= y
  <2>1. S \in SUBSET Nat
    OBVIOUS
  <2> QED
    BY <1>3, <2>1, LeastExists, Zenon
<1>5. n \in S /\ \A y \in S : n <= y
  BY <1>4, Zenon DEF bisectLeft, Min
<1>6. /\ n \in 0..8 /\ i <= sizeLimits(n)
      /\ \A m \in 0..8 : i <= sizeLimits(m) => n <= m
  BY <1>2, <1>5, Zenon DEF sizeLimits
<1> HIDE DEF n, S
<1>7. ASSUME NEW k \in 1..n PROVE (i \div Power[n - k]) % IntBase \in Byte
  <2>1. n - k \in 0..(MaxDigits - 1) /\ n - k + 1 \in 1..MaxDigits /\ n - k + 1 - 1 = n - k
    BY <1>1, <1>6
  <2>2. Power[n - k] \in Nat \ {0}
    BY <2>1, PowerGrows
  <2>3. i \div Power[n - k] \in Nat
    BY <1>2, <2>2 DEF Word
  <2>4. \A q \in Nat : q % IntBase \in Byte
    BY <1>1 DEF Byte
  <2> QED
    BY <2>3, <2>4, Zenon
<1>8. /\ Digits(i, n) \in Bytes /\ Len(Digits(i, n)) = n
      /\ \A k \in 1..n : Digits(i, n)[k] = (i \div Power[n - k]) % IntBase
  BY <1>6, <1>7 DEF Digits, Bytes
<1>9. encodeUint(i) = <<intZeroCode + n>> \o Digits(i, n)
  BY Zenon DEF encodeUint, n
<1>10. intZeroCode + n \in Byte
  BY <1>6 DEF intZeroCode, Byte
<1> HIDE DEF Digits
<1>11. /\ encodeUint(i) \in Bytes /\ Len(encodeUint(i)) = n + 1
       /\ encodeUint(i)[1] = intZeroCode + n
       /\ \A k \in 1..n : encodeUint(i)[k + 1] = Digits(i, n)[k]
  BY <1>8, <1>9, <1>10, FirstByte
<1> QED
  BY <1>6, <1>8, <1>11, Zenon DEF n

\* The elements the registry puts into keys.
Plain == {Str(b) : b \in Bytes} \cup {<<"bytes", b>> : b \in Bytes}
         \cup {<<"int", i>> : i \in 0..((Word \div 2) - 1)}

\* A packed tuple is a byte string that begins with its first element.
LEMMA PackHead ==
    /\ PackPlain(<<>>) = <<>>
    /\ \A e \in Plain : encodePlain(e, FALSE) \in Bytes
    /\ \A t \in Seq(Plain) : PackPlain(t) \in Bytes
    /\ \A e \in Plain, t \in Seq(Plain) :
          /\ <<e>> \o t \in Seq(Plain)
          /\ PackPlain(<<e>> \o t) = encodePlain(e, FALSE) \o PackPlain(t)
<1> DEFINE Codes(t) == [k \in DOMAIN t |-> encodePlain(t[k], FALSE)]
<1>1. \A t : PackPlain(t) = Concat(Codes(t))
  BY Zenon DEF PackPlain
<1>2. ASSUME NEW e \in Plain PROVE encodePlain(e, FALSE) \in Bytes
  <2>1. 1 \in Byte /\ 2 \in Byte
    BY DEF Byte
  <2>2. <<>> \in Bytes
    BY DEF Bytes
  <2>3. ASSUME NEW b \in Bytes PROVE encodeBytes(1, b) \in Bytes /\ encodeBytes(2, b) \in Bytes
    BY <2>1, <2>2, FieldDef, Zenon
  <2>4. CASE e \in {Str(b) : b \in Bytes}
    BY <2>3, <2>4, PlainElements, Zenon
  <2>5. CASE e \in {<<"bytes", b>> : b \in Bytes}
    BY <2>3, <2>5, PlainElements, Zenon
  <2>6. CASE e \in {<<"int", i>> : i \in 0..((Word \div 2) - 1)}
    <3>1. PICK i \in 0..((Word \div 2) - 1) : e = <<"int", i>>
      BY <2>6, Zenon
    <3>2. encodePlain(e, FALSE) = encodeUint(i)
      BY <3>1, PlainElements, Zenon
    <3>3. i \in 0..(Word - 1)
      BY WordNat
    <3> QED
      BY <3>2, <3>3, UintBytes, Zenon
  <2> QED
    BY <2>4, <2>5, <2>6, Zenon DEF Plain
<1>3. ASSUME NEW t \in Seq(Plain)
      PROVE  /\ Codes(t) \in Seq(Bytes) /\ Len(Codes(t)) = Len(t)
             /\ \A k \in 1..Len(t) : Codes(t)[k] = encodePlain(t[k], FALSE)
  <2>1. DOMAIN t = 1..Len(t) /\ Len(t) \in Nat /\ \A k \in 1..Len(t) : t[k] \in Plain
    OBVIOUS
  <2>2. ASSUME NEW k \in 1..Len(t) PROVE encodePlain(t[k], FALSE) \in Bytes
    BY <1>2, <2>1, Zenon
  <2>3. Codes(t) = [k \in 1..Len(t) |-> encodePlain(t[k], FALSE)]
    BY <2>1, Zenon
  <2> HIDE DEF Codes
  <2>4. Codes(t) \in [1..Len(t) -> Bytes]
    BY <2>2, <2>3, Zenon
  <2>5. Codes(t) \in Seq(Bytes) /\ Len(Codes(t)) = Len(t)
    BY <2>1, <2>4
  <2> QED
    BY <2>3, <2>5, Zenon
<1>4. Codes(<<>>) = <<>>
  OBVIOUS
<1>5. ASSUME NEW e \in Plain, NEW t \in Seq(Plain)
      PROVE  <<e>> \o t \in Seq(Plain) /\ Codes(<<e>> \o t) = <<encodePlain(e, FALSE)>> \o Codes(t)
  <2> DEFINE u == <<e>> \o t
             x == encodePlain(e, FALSE)
             v == <<x>> \o Codes(t)
  <2>1. /\ u \in Seq(Plain) /\ Len(u) = Len(t) + 1 /\ u[1] = e /\ Len(t) \in Nat
        /\ \A k \in 1..Len(t) : u[k + 1] = t[k]
    OBVIOUS
  <2> HIDE DEF u
  <2>2. /\ Codes(u) \in Seq(Bytes) /\ Len(Codes(u)) = Len(t) + 1
        /\ \A k \in 1..(Len(t) + 1) : Codes(u)[k] = encodePlain(u[k], FALSE)
    BY <1>3, <2>1, Zenon
  <2>3. /\ Codes(t) \in Seq(Bytes) /\ Len(Codes(t)) = Len(t)
        /\ \A k \in 1..Len(t) : Codes(t)[k] = encodePlain(t[k], FALSE)
    BY <1>3, Zenon
  <2> HIDE DEF Codes
  <2>4. /\ v \in Seq(Bytes) /\ Len(v) = Len(t) + 1 /\ v[1] = x
        /\ \A k \in 1..Len(t) : v[k + 1] = Codes(t)[k]
    <3>1. x \in Bytes
      BY <1>2, Zenon
    <3> HIDE DEF x
    <3> QED
      BY <2>3, <3>1
  <2> HIDE DEF v
  <2>5. ASSUME NEW k \in 1..(Len(t) + 1) PROVE Codes(u)[k] = v[k]
    <3>1. CASE k = 1
      BY <2>1, <2>2, <2>4, <3>1, Zenon
    <3>2. CASE k # 1
      <4>1. k - 1 \in 1..Len(t) /\ k - 1 + 1 = k
        BY <2>1, <3>2
      <4>2. u[k] = t[k - 1] /\ v[k] = Codes(t)[k - 1]
        BY <2>1, <2>4, <4>1, Zenon
      <4> QED
        BY <2>2, <2>3, <4>1, <4>2, Zenon
    <3> QED
      BY <3>1, <3>2, Zenon
  <2>6. Codes(u) = v
    BY <2>1, <2>2, <2>4, <2>5
  <2> QED
    BY <2>1, <2>6, Zenon DEF u, v
<1> HIDE DEF Codes
<1>6. ASSUME NEW e \in Plain, NEW t \in Seq(Plain)
      PROVE  PackPlain(<<e>> \o t) = encodePlain(e, FALSE) \o PackPlain(t)
  <2> DEFINE x == encodePlain(e, FALSE)
  <2>1. x \in Bytes /\ Codes(t) \in Seq(Bytes)
    BY <1>2, <1>3, Zenon
  <2> HIDE DEF x
  <2>2. /\ <<x>> \o Codes(t) \in Seq(Bytes) /\ <<x>> \o Codes(t) # <<>>
        /\ (<<x>> \o Codes(t))[1] = x /\ Tail(<<x>> \o Codes(t)) = Codes(t)
    BY <2>1
  <2>3. Concat(<<x>> \o Codes(t)) = x \o Concat(Codes(t))
    BY <2>2, ConcatHead, Zenon
  <2> QED
    BY <1>1, <1>5, <2>3, Zenon DEF x
<1> QED
  BY <1>1, <1>2, <1>3, <1>4, <1>5, <1>6, ConcatNone, ConcatBytes, Zenon

\* The tuple t is packed as x.
Packs(t, x) == t \in Seq(Plain) /\ x \in Bytes /\ PackPlain(t) = x

\* The empty tuple is packed as no byte.
LEMMA PacksNone == Packs(<<>>, <<>>)
<1>1. <<>> \in Seq(Plain) /\ <<>> \in Bytes
  BY DEF Bytes
<1> QED
  BY <1>1, PackHead, Zenon DEF Packs

\* A string at the head of a tuple is a field of code 2.
LEMMA PacksString ==
    ASSUME NEW b \in Bytes, NEW t, NEW x, Packs(t, x)
    PROVE  Packs(<<Str(b)>> \o t, Field(2, b, x))
<1>1. 2 \in Byte /\ 2 # 255
  BY DEF Byte
<1>2. t \in Seq(Plain) /\ x \in Bytes /\ PackPlain(t) = x
  BY Zenon DEF Packs
<1>3. Str(b) \in Plain
  BY Zenon DEF Plain
<1>4. encodeBytes(2, b) \o x = Field(2, b, x) /\ Field(2, b, x) \in Bytes
  BY <1>1, <1>2, FieldDef, FieldUnmarked, Zenon
<1>5. encodePlain(Str(b), FALSE) = encodeBytes(2, b)
  BY PlainElements, Zenon
<1>6. /\ <<Str(b)>> \o t \in Seq(Plain)
      /\ PackPlain(<<Str(b)>> \o t) = encodePlain(Str(b), FALSE) \o PackPlain(t)
  BY <1>2, <1>3, PackHead, Zenon
<1> QED
  BY <1>2, <1>4, <1>5, <1>6, Zenon DEF Packs

\* A byte string at the head of a tuple is a field of code 1.
LEMMA PacksBytes ==
    ASSUME NEW b \in Bytes, NEW t, NEW x, Packs(t, x)
    PROVE  Packs(<<<<"bytes", b>>>> \o t, Field(1, b, x))
<1>1. 1 \in Byte /\ 1 # 255
  BY DEF Byte
<1>2. t \in Seq(Plain) /\ x \in Bytes /\ PackPlain(t) = x
  BY Zenon DEF Packs
<1>3. <<"bytes", b>> \in Plain
  BY Zenon DEF Plain
<1>4. encodeBytes(1, b) \o x = Field(1, b, x) /\ Field(1, b, x) \in Bytes
  BY <1>1, <1>2, FieldDef, FieldUnmarked, Zenon
<1>5. encodePlain(<<"bytes", b>>, FALSE) = encodeBytes(1, b)
  BY PlainElements, Zenon
<1>6. /\ <<<<"bytes", b>>>> \o t \in Seq(Plain)
      /\ PackPlain(<<<<"bytes", b>>>> \o t)
            = encodePlain(<<"bytes", b>>, FALSE) \o PackPlain(t)
  BY <1>2, <1>3, PackHead, Zenon
<1> QED
  BY <1>2, <1>4, <1>5, <1>6, Zenon DEF Packs

\* The number of a part is packed as an unsigned integer.
LEMMA PacksPart ==
    ASSUME NEW i \in 0..((Word \div 2) - 1)
    PROVE  Packs(<<<<"int", i>>>>, encodeUint(i))
<1>1. <<"int", i>> \in Plain
  BY Zenon DEF Plain
<1>2. Packs(<<>>, <<>>)
  BY PacksNone, Zenon
<1>3. encodeUint(i) \in Bytes
  <2>1. i \in 0..(Word - 1)
    BY WordNat
  <2> QED
    BY <2>1, UintBytes, Zenon
<1>4. encodePlain(<<"int", i>>, FALSE) = encodeUint(i)
  BY PlainElements, Zenon
<1>5. /\ <<<<"int", i>>>> \o <<>> \in Seq(Plain)
      /\ PackPlain(<<<<"int", i>>>> \o <<>>)
            = encodePlain(<<"int", i>>, FALSE) \o PackPlain(<<>>)
  BY <1>1, <1>2, PackHead, Zenon DEF Packs
<1>6. <<<<"int", i>>>> \o <<>> = <<<<"int", i>>>> /\ encodeUint(i) \o <<>> = encodeUint(i)
  BY <1>3 DEF Bytes
<1> QED
  BY <1>2, <1>3, <1>4, <1>5, <1>6, Zenon DEF Packs

\* The words of the keys are strings, and those that may stand in the same
\* place are different.
LEMMA Words ==
    /\ servers = Str(servers[2]) /\ servers[2] \in Bytes
    /\ modules = Str(modules[2]) /\ modules[2] \in Bytes
    /\ actors = Str(actors[2]) /\ actors[2] \in Bytes
    /\ state = Str(state[2]) /\ state[2] \in Bytes
    /\ kv = Str(kv[2]) /\ kv[2] \in Bytes
    /\ modules[2] # actors[2] /\ state[2] # kv[2]
<1>1. servers = Str(servers[2]) /\ servers[2] \in Bytes
  BY DEF servers, Str, Bytes, Byte
<1>2. modules = Str(modules[2]) /\ modules[2] \in Bytes /\ Len(modules[2]) = 7
  BY DEF modules, Str, Bytes, Byte
<1>3. actors = Str(actors[2]) /\ actors[2] \in Bytes /\ Len(actors[2]) = 6
  BY DEF actors, Str, Bytes, Byte
<1>4. state = Str(state[2]) /\ state[2] \in Bytes /\ Len(state[2]) = 5
  BY DEF state, Str, Bytes, Byte
<1>5. kv = Str(kv[2]) /\ kv[2] \in Bytes /\ Len(kv[2]) = 2
  BY DEF kv, Str, Bytes, Byte
<1> QED
  BY <1>1, <1>2, <1>3, <1>4, <1>5

\* A string w in front of up to five elements is packed in front of them.
LEMMA PacksMore ==
    ASSUME NEW b \in Bytes, NEW w, w = Str(b), NEW x
    PROVE  /\ Packs(<<>>, x) => Packs(<<w>>, Field(2, b, x))
           /\ \A c : Packs(<<c>>, x) => Packs(<<w, c>>, Field(2, b, x))
           /\ \A c, d : Packs(<<c, d>>, x) => Packs(<<w, c, d>>, Field(2, b, x))
           /\ \A c, d, e : Packs(<<c, d, e>>, x) => Packs(<<w, c, d, e>>, Field(2, b, x))
           /\ \A c, d, e, f :
                Packs(<<c, d, e, f>>, x) => Packs(<<w, c, d, e, f>>, Field(2, b, x))
           /\ \A c, d, e, f, g :
                Packs(<<c, d, e, f, g>>, x) => Packs(<<w, c, d, e, f, g>>, Field(2, b, x))
<1>1. ASSUME NEW t, NEW u, u = <<w>> \o t, Packs(t, x) PROVE Packs(u, Field(2, b, x))
  BY <1>1, PacksString, Zenon
<1>2. Packs(<<>>, x) => Packs(<<w>>, Field(2, b, x))
  <2>1. <<w>> = <<w>> \o <<>>
    OBVIOUS
  <2> QED
    BY <1>1, <2>1, Zenon
<1>3. ASSUME NEW c, Packs(<<c>>, x) PROVE Packs(<<w, c>>, Field(2, b, x))
  <2>1. <<w, c>> = <<w>> \o <<c>>
    OBVIOUS
  <2> QED
    BY <1>1, <1>3, <2>1, Zenon
<1>4. ASSUME NEW c, NEW d, Packs(<<c, d>>, x) PROVE Packs(<<w, c, d>>, Field(2, b, x))
  <2>1. <<w, c, d>> = <<w>> \o <<c, d>>
    OBVIOUS
  <2> QED
    BY <1>1, <1>4, <2>1, Zenon
<1>5. ASSUME NEW c, NEW d, NEW e, Packs(<<c, d, e>>, x) PROVE Packs(<<w, c, d, e>>, Field(2, b, x))
  <2>1. <<w, c, d, e>> = <<w>> \o <<c, d, e>>
    OBVIOUS
  <2> QED
    BY <1>1, <1>5, <2>1, Zenon
<1>6. ASSUME NEW c, NEW d, NEW e, NEW f, Packs(<<c, d, e, f>>, x)
      PROVE  Packs(<<w, c, d, e, f>>, Field(2, b, x))
  <2>1. <<w, c, d, e, f>> = <<w>> \o <<c, d, e, f>>
    OBVIOUS
  <2> QED
    BY <1>1, <1>6, <2>1, Zenon
<1>7. ASSUME NEW c, NEW d, NEW e, NEW f, NEW g, Packs(<<c, d, e, f, g>>, x)
      PROVE  Packs(<<w, c, d, e, f, g>>, Field(2, b, x))
  <2>1. <<w, c, d, e, f, g>> = <<w>> \o <<c, d, e, f, g>>
    OBVIOUS
  <2> QED
    BY <1>1, <1>7, <2>1, Zenon
<1> QED
  BY <1>2, <1>3, <1>4, <1>5, <1>6, <1>7, Zenon

\* The prefix of the servers and the keys under it.
LEMMA ServerFields ==
    ASSUME NEW s \in Bytes
    PROVE  /\ getServersPrefix = Field(2, servers[2], <<>>)
           /\ getServerKey(s) = Field(2, servers[2], Field(2, s, <<>>))
<1>1. Packs(<<servers>>, Field(2, servers[2], <<>>))
  BY PacksNone, PacksMore, Words, Zenon
<1>2. Packs(<<Str(s)>>, Field(2, s, <<>>))
  BY PacksNone, PacksMore, Zenon
<1>3. Packs(<<servers, Str(s)>>, Field(2, servers[2], Field(2, s, <<>>)))
  BY <1>2, PacksMore, Words, Zenon
<1> QED
  BY <1>1, <1>3, Zenon DEF Packs, getServersPrefix, getServerKey

\* The prefix of a module and the keys of its parts.
LEMMA ModuleFields ==
    ASSUME NEW ns \in Bytes, NEW m \in Bytes
    PROVE  /\ getModulePrefix(ns, m) = Field(2, ns, Field(2, modules[2], Field(2, m, <<>>)))
           /\ \A i \in 0..((Word \div 2) - 1) :
                getModulePartKey(ns, m, i)
                    = Field(2, ns, Field(2, modules[2], Field(2, m, encodeUint(i))))
<1>1. Packs(<<Str(m)>>, Field(2, m, <<>>))
  BY PacksNone, PacksMore, Zenon
<1>2. Packs(<<modules, Str(m)>>, Field(2, modules[2], Field(2, m, <<>>)))
  BY <1>1, PacksMore, Words, Zenon
<1>3. Packs(<<Str(ns), modules, Str(m)>>,
            Field(2, ns, Field(2, modules[2], Field(2, m, <<>>))))
  BY <1>2, PacksMore, Zenon
<1>4. ASSUME NEW i \in 0..((Word \div 2) - 1)
      PROVE  Packs(<<Str(ns), modules, Str(m), <<"int", i>>>>,
                   Field(2, ns, Field(2, modules[2], Field(2, m, encodeUint(i)))))
  <2>1. Packs(<<Str(m), <<"int", i>>>>, Field(2, m, encodeUint(i)))
    BY PacksPart, PacksMore, Zenon
  <2>2. Packs(<<modules, Str(m), <<"int", i>>>>, Field(2, modules[2], Field(2, m, encodeUint(i))))
    BY <2>1, PacksMore, Words, Zenon
  <2> QED
    BY <2>2, PacksMore, Zenon
<1> QED
  BY <1>3, <1>4, Zenon DEF Packs, getModulePrefix, getModulePartKey

\* The part of a key that names an actor.
ActorHead(ns, a, m, rest) ==
    Field(2, ns, Field(2, actors[2], Field(2, m, Field(2, a, rest))))

\* The key of what an actor stores begins as the actor's does.
StorageFields(ns, a, m, k) ==
    getActoKVKey(ns, a, m, k) = ActorHead(ns, a, m, Field(2, kv[2], Field(1, k, <<>>)))

\* The keys of an actor and of what it stores.
LEMMA ActorFields ==
    ASSUME NEW ns \in Bytes, NEW a \in Bytes, NEW m \in Bytes
    PROVE  /\ getActorKey(ns, a, m) = ActorHead(ns, a, m, Field(2, state[2], <<>>))
           /\ \A k \in Bytes : StorageFields(ns, a, m, k)
<1>1. getActorKey(ns, a, m) = ActorHead(ns, a, m, Field(2, state[2], <<>>))
  <2> DEFINE x == Field(2, state[2], <<>>)
  <2>1. Packs(<<state>>, x)
    BY PacksNone, PacksMore, Words, Zenon
  <2> HIDE DEF x
  <2>2. Packs(<<Str(a), state>>, Field(2, a, x))
    BY <2>1, PacksMore, Zenon
  <2>3. Packs(<<Str(m), Str(a), state>>, Field(2, m, Field(2, a, x)))
    BY <2>2, PacksMore, Zenon
  <2>4. Packs(<<actors, Str(m), Str(a), state>>, Field(2, actors[2], Field(2, m, Field(2, a, x))))
    BY <2>3, PacksMore, Words, Zenon
  <2>5. Packs(<<Str(ns), actors, Str(m), Str(a), state>>,
              Field(2, ns, Field(2, actors[2], Field(2, m, Field(2, a, x)))))
    BY <2>4, PacksMore, Zenon
  <2> QED
    BY <2>5, Zenon DEF Packs, getActorKey, ActorHead, x
<1>2. ASSUME NEW k \in Bytes
      PROVE  StorageFields(ns, a, m, k)
  <2> DEFINE e == <<"bytes", k>>
             x == Field(2, kv[2], Field(1, k, <<>>))
  <2>1. Packs(<<e>>, Field(1, k, <<>>))
    <3>1. <<e>> = <<e>> \o <<>>
      OBVIOUS
    <3> QED
      BY <3>1, PacksNone, PacksBytes, Zenon
  <2> HIDE DEF e
  <2>2. Packs(<<kv, e>>, x)
    BY <2>1, PacksMore, Words, Zenon
  <2> HIDE DEF x
  <2>3. Packs(<<Str(a), kv, e>>, Field(2, a, x))
    BY <2>2, PacksMore, Zenon
  <2>4. Packs(<<Str(m), Str(a), kv, e>>, Field(2, m, Field(2, a, x)))
    BY <2>3, PacksMore, Zenon
  <2>5. Packs(<<actors, Str(m), Str(a), kv, e>>, Field(2, actors[2], Field(2, m, Field(2, a, x))))
    BY <2>4, PacksMore, Words, Zenon
  <2>6. Packs(<<Str(ns), actors, Str(m), Str(a), kv, e>>,
              Field(2, ns, Field(2, actors[2], Field(2, m, Field(2, a, x)))))
    BY <2>5, PacksMore, Zenon
  <2> QED
    BY <2>6, Zenon DEF Packs, getActoKVKey, ActorHead, StorageFields, x, e
<1> QED
  BY <1>1, <1>2, Zenon

-----------------------------------------------------------------------------
(* The order of the parts.                                                 *)

\* Division with a remainder.
LEMMA Division ==
    ASSUME NEW x \in Nat, NEW d \in Nat, d > 0
    PROVE  x \div d \in Nat /\ x % d \in 0..(d - 1) /\ x = d * (x \div d) + (x % d)
<1>1. x \div d \in Nat
  OBVIOUS
<1>2. x % d \in 0..(d - 1)
  OBVIOUS
<1>3. x = d * (x \div d) + (x % d)
  OBVIOUS
<1> QED
  BY <1>1, <1>2, <1>3, Zenon

\* Of two integers with n digits, the smaller one has the smaller digit where
\* they first differ.
LEMMA DigitsOrder ==
    ASSUME NEW n \in 0..8, NEW i \in Nat, NEW j \in Nat, i < j, j < Power[n]
    PROVE  \E k \in 1..n :
              /\ (i \div Power[n - k]) % IntBase < (j \div Power[n - k]) % IntBase
              /\ \A l \in 1..(k - 1) :
                    (i \div Power[n - l]) % IntBase = (j \div Power[n - l]) % IntBase
<1> DEFINE Q(x, k) == x \div Power[n - k]
           Differ == {k \in 0..n : Q(i, k) # Q(j, k)}
<1>1. /\ MaxDigits \in Nat /\ MaxDigits >= 8 /\ IntBase \in Nat /\ IntBase > 1
  BY ElementsAssumption
<1>2. ASSUME NEW k \in 0..n PROVE Power[n - k] \in Nat /\ Power[n - k] > 0
  <2>1. n - k + 1 \in 1..MaxDigits \/ n - k \in 1..MaxDigits
    BY <1>1
  <2>2. n - k + 1 - 1 = n - k
    BY <1>1
  <2> QED
    BY <2>1, <2>2, PowerGrows
<1>3. n \in Differ
  <2>1. n - n = 0 /\ Power[0] = 1
    BY PowerDef
  <2>2. i \div 1 = i /\ j \div 1 = j
    OBVIOUS
  <2> QED
    BY <2>1, <2>2
<1>4. 0 \notin Differ
  <2>1. n - 0 = n /\ Power[n] \in Nat /\ Power[n] > 0
    BY <1>2
  <2>2. i \div Power[n] = 0 /\ j \div Power[n] = 0
    BY <2>1
  <2> QED
    BY <2>1, <2>2, Zenon
<1>5. PICK k \in Differ : \A l \in Differ : k <= l
  <2>1. Differ \in SUBSET Nat
    OBVIOUS
  <2> QED
    BY <1>3, <2>1, LeastExists, Zenon
<1>6. k \in 1..n /\ Q(i, k) # Q(j, k)
  BY <1>4, <1>5
<1>7. ASSUME NEW l \in 0..(k - 1) PROVE Q(i, l) = Q(j, l)
  BY <1>5, <1>6
<1>8. ASSUME NEW x \in Nat PROVE Q(x, k) \in Nat /\ Q(x, k - 1) = Q(x, k) \div IntBase
  <2> DEFINE d == Power[n - k]
  <2>1. d \in Nat /\ d > 0
    BY <1>2, <1>6, Zenon
  <2>2. n - (k - 1) \in 1..MaxDigits /\ n - (k - 1) - 1 = n - k
    BY <1>1, <1>6
  <2>3. Power[n - (k - 1)] = IntBase * d
    BY <2>2, PowerDef, Zenon
  <2> HIDE DEF d
  <2>4. x \div (IntBase * d) = (x \div d) \div IntBase /\ x \div d \in Nat
    BY <1>1, <2>1
  <2> QED
    BY <2>3, <2>4, Zenon DEF d
<1>9. Q(i, k) < Q(j, k)
  <2> DEFINE d == Power[n - k]
  <2>1. d \in Nat /\ d > 0
    BY <1>2, <1>6, Zenon
  <2> HIDE DEF d
  <2>2. i \div d <= j \div d
    BY <2>1
  <2> QED
    BY <1>6, <1>8, <2>2 DEF d
<1>10. Q(i, k - 1) = Q(j, k - 1)
  BY <1>6, <1>7
<1> HIDE DEF Q
<1>11. Q(i, k) % IntBase < Q(j, k) % IntBase
  <2> DEFINE p == Q(i, k)
             q == Q(j, k)
  <2>1. p \in Nat /\ q \in Nat /\ p < q /\ p \div IntBase = q \div IntBase
    BY <1>8, <1>9, <1>10, Zenon
  <2> HIDE DEF p, q
  <2>2. p = IntBase * (p \div IntBase) + (p % IntBase) /\ p % IntBase \in 0..(IntBase - 1)
    BY <1>1, <2>1, Division
  <2>3. q = IntBase * (q \div IntBase) + (q % IntBase) /\ q % IntBase \in 0..(IntBase - 1)
    BY <1>1, <2>1, Division
  <2> QED
    BY <1>1, <2>1, <2>2, <2>3 DEF p, q
<1>12. \A l \in 1..(k - 1) : Q(i, l) % IntBase = Q(j, l) % IntBase
  BY <1>6, <1>7
<1> QED
  BY <1>6, <1>11, <1>12, Zenon DEF Q

\* Unsigned integers are packed in their order, also when the second one takes
\* a digit more.
LEMMA UintOrder ==
    ASSUME NEW i \in 0..(Word - 1), NEW j \in 0..(Word - 1), i < j
    PROVE  BytesLess(encodeUint(i), encodeUint(j))
<1> DEFINE p == bisectLeft(i)
           q == bisectLeft(j)
           a == encodeUint(i)
           b == encodeUint(j)
<1>1. /\ p \in 0..8 /\ a \in Bytes /\ Len(a) = p + 1 /\ a[1] = intZeroCode + p
      /\ \A n \in 0..8 : i <= sizeLimits(n) => p <= n
      /\ \A k \in 1..p : a[k + 1] = (i \div Power[p - k]) % IntBase
  BY UintBytes, Zenon
<1>2. /\ q \in 0..8 /\ b \in Bytes /\ Len(b) = q + 1 /\ b[1] = intZeroCode + q
      /\ j <= sizeLimits(q)
      /\ \A k \in 1..q : b[k + 1] = (j \div Power[q - k]) % IntBase
  BY UintBytes, Zenon
<1>3. Power[q] \in Nat /\ Word \in Nat
  <2>1. q \in 0..MaxDigits /\ 8 \in 0..MaxDigits
    BY <1>2, ElementsAssumption
  <2> QED
    BY <2>1, PowerDef, Zenon DEF Word
<1>4. i \in Nat /\ j \in Nat /\ j < Power[q] /\ p <= q
  BY <1>1, <1>2, <1>3, SMTT(30) DEF sizeLimits
<1>5. DOMAIN a = 1..(p + 1) /\ DOMAIN b = 1..(q + 1)
  BY <1>1, <1>2 DEF Bytes
<1> HIDE DEF p, q, a, b
<1>6. CASE p < q
  <2>1. 1 \in DOMAIN a \cap DOMAIN b /\ a[1] < b[1]
    BY <1>1, <1>2, <1>5, <1>6 DEF intZeroCode
  <2>2. \A l \in 1..(1 - 1) : a[l] = b[l]
    OBVIOUS
  <2> QED
    BY <2>1, <2>2, Zenon DEF BytesLess, a, b
<1>7. CASE p = q
  <2>1. PICK k \in 1..q :
          /\ (i \div Power[q - k]) % IntBase < (j \div Power[q - k]) % IntBase
          /\ \A l \in 1..(k - 1) :
                (i \div Power[q - l]) % IntBase = (j \div Power[q - l]) % IntBase
    BY <1>2, <1>4, DigitsOrder, Zenon
  <2>2. k + 1 \in DOMAIN a \cap DOMAIN b /\ a[k + 1] < b[k + 1]
    BY <1>1, <1>2, <1>5, <1>7, <2>1
  <2>3. ASSUME NEW l \in 1..(k + 1 - 1) PROVE a[l] = b[l]
    <3>1. CASE l = 1
      BY <1>1, <1>2, <1>7, <3>1, Zenon
    <3>2. CASE l # 1
      <4>1. l - 1 \in 1..(k - 1) /\ l - 1 \in 1..q /\ l - 1 + 1 = l
        BY <1>2, <3>2
      <4> QED
        BY <1>1, <1>2, <1>7, <2>1, <4>1, Zenon
    <3> QED
      BY <3>1, <3>2, Zenon
  <2> QED
    BY <2>2, <2>3, SMTT(30) DEF BytesLess, a, b
<1> QED
  BY <1>1, <1>2, <1>4, <1>6, <1>7

-----------------------------------------------------------------------------
(* The order of byte strings.                                              *)

\* The places of a byte string hold natural numbers.
LEMMA BytesAre ==
    ASSUME NEW a \in Bytes
    PROVE  /\ Len(a) \in Nat /\ DOMAIN a = 1..Len(a)
           /\ \A k \in 1..Len(a) : a[k] \in Nat
<1>1. Len(a) \in Nat /\ DOMAIN a = 1..Len(a) /\ \A k \in 1..Len(a) : a[k] \in Byte
  BY DEF Bytes
<1>2. \A x \in Byte : x \in Nat
  BY DEF Byte
<1> QED
  BY <1>1, <1>2, Zenon

\* No byte string is before itself.
LEMMA LessIrreflexive ==
    ASSUME NEW a \in Bytes
    PROVE  ~ BytesLess(a, a)
<1>1. Len(a) \in Nat /\ \A k \in DOMAIN a : a[k] \in Nat
  BY BytesAre, Zenon
<1> QED
  BY <1>1 DEF BytesLess

\* The order is transitive.
LEMMA LessTransitive ==
    ASSUME NEW a \in Bytes, NEW b \in Bytes, NEW c \in Bytes, BytesLess(a, b), BytesLess(b, c)
    PROVE  BytesLess(a, c)
<1>1. /\ Len(a) \in Nat /\ Len(b) \in Nat /\ Len(c) \in Nat
      /\ DOMAIN a = 1..Len(a) /\ DOMAIN b = 1..Len(b) /\ DOMAIN c = 1..Len(c)
  BY DEF Bytes
<1>2. /\ \A k \in 1..Len(a) : a[k] \in Nat
      /\ \A k \in 1..Len(b) : b[k] \in Nat
      /\ \A k \in 1..Len(c) : c[k] \in Nat
  BY BytesAre, Zenon
<1>3. CASE Len(a) < Len(b) /\ HasPrefix(b, a) /\ Len(b) < Len(c) /\ HasPrefix(c, b)
  BY <1>1, <1>3 DEF BytesLess, HasPrefix
<1>4. ASSUME Len(a) < Len(b), HasPrefix(b, a), NEW l \in DOMAIN b \cap DOMAIN c, b[l] < c[l],
             \A j \in 1..(l - 1) : b[j] = c[j]
      PROVE  BytesLess(a, c)
  <2>1. \A j \in 1..Len(a) : a[j] = b[j]
    BY <1>1, <1>4, Zenon DEF HasPrefix
  <2>2. CASE l <= Len(a)
    <3>1. l \in DOMAIN a \cap DOMAIN c /\ a[l] < c[l] /\ \A j \in 1..(l - 1) : a[j] = c[j]
      BY <1>1, <1>4, <2>1, <2>2
    <3> QED
      BY <3>1, Zenon DEF BytesLess
  <2>3. CASE l > Len(a)
    <3>1. Len(a) < Len(c) /\ \A j \in 1..Len(a) : c[j] = a[j]
      BY <1>1, <1>4, <2>1, <2>3
    <3> QED
      BY <1>1, <3>1 DEF BytesLess, HasPrefix
  <2> QED
    BY <1>1, <2>2, <2>3
<1>5. ASSUME NEW k \in DOMAIN a \cap DOMAIN b, a[k] < b[k], \A j \in 1..(k - 1) : a[j] = b[j],
             Len(b) < Len(c), HasPrefix(c, b)
      PROVE  BytesLess(a, c)
  <2>1. \A j \in 1..Len(b) : b[j] = c[j]
    BY <1>1, <1>5, Zenon DEF HasPrefix
  <2>2. k \in DOMAIN a \cap DOMAIN c /\ a[k] < c[k] /\ \A j \in 1..(k - 1) : a[j] = c[j]
    BY <1>1, <1>5, <2>1
  <2> QED
    BY <2>2, Zenon DEF BytesLess
<1>6. ASSUME NEW k \in DOMAIN a \cap DOMAIN b, a[k] < b[k], \A j \in 1..(k - 1) : a[j] = b[j],
             NEW l \in DOMAIN b \cap DOMAIN c, b[l] < c[l], \A j \in 1..(l - 1) : b[j] = c[j]
      PROVE  BytesLess(a, c)
  <2> DEFINE m == IF k <= l THEN k ELSE l
  <2>1. m \in DOMAIN a \cap DOMAIN c /\ \A j \in 1..(m - 1) : a[j] = c[j]
    BY <1>1, <1>6
  <2>2. a[m] < c[m]
    <3>1. CASE k < l
      BY <1>1, <1>2, <1>6, <3>1, SMTT(30)
    <3>2. CASE k = l
      BY <1>1, <1>2, <1>6, <3>2
    <3>3. CASE k > l
      BY <1>1, <1>2, <1>6, <3>3, SMTT(30)
    <3> QED
      BY <1>1, <3>1, <3>2, <3>3
  <2> QED
    BY <2>1, <2>2, Zenon DEF BytesLess
<1> QED
  BY <1>3, <1>4, <1>5, <1>6, Zenon DEF BytesLess

\* Of two different byte strings, one is before the other.
LEMMA LessTotal ==
    ASSUME NEW a \in Bytes, NEW b \in Bytes, a # b
    PROVE  BytesLess(a, b) \/ BytesLess(b, a)
<1> DEFINE Differ == {k \in 1..Len(a) : k \in 1..Len(b) /\ a[k] # b[k]}
<1>1. /\ Len(a) \in Nat /\ Len(b) \in Nat
      /\ DOMAIN a = 1..Len(a) /\ DOMAIN b = 1..Len(b)
  BY DEF Bytes
<1>2. /\ \A k \in 1..Len(a) : a[k] \in Nat
      /\ \A k \in 1..Len(b) : b[k] \in Nat
  BY BytesAre, Zenon
<1>3. CASE Differ = {}
  <2>1. Len(a) # Len(b)
    <3> SUFFICES ASSUME Len(a) = Len(b) PROVE FALSE
      BY Zenon
    <3>1. \A k \in 1..Len(a) : a[k] = b[k]
      BY <1>3, Zenon
    <3> QED
      BY <3>1 DEF Bytes
  <2>2. CASE Len(a) < Len(b)
    <3>1. \A k \in 1..Len(a) : b[k] = a[k]
      BY <1>1, <1>3, <2>2
    <3> QED
      BY <1>1, <2>2, <3>1 DEF BytesLess, HasPrefix
  <2>3. CASE Len(b) < Len(a)
    <3>1. \A k \in 1..Len(b) : a[k] = b[k]
      BY <1>1, <1>3, <2>3
    <3> QED
      BY <1>1, <2>3, <3>1 DEF BytesLess, HasPrefix
  <2>4. Len(a) < Len(b) \/ Len(b) < Len(a)
    BY <1>1, <2>1, NatTotal, Zenon
  <2> QED
    BY <2>2, <2>3, <2>4, Zenon
<1>4. CASE Differ # {}
  <2>1. Differ \in SUBSET Nat
    OBVIOUS
  <2>2. PICK k \in Differ : \A l \in Differ : k <= l
    BY <1>4, <2>1, LeastExists, Zenon
  <2>3. k \in 1..Len(a) /\ k \in 1..Len(b) /\ a[k] # b[k]
    BY <2>2, Zenon
  <2>4. \A j \in 1..(k - 1) : a[j] = b[j]
    BY <1>1, <2>2, <2>3
  <2>5. a[k] < b[k] \/ b[k] < a[k]
    BY <1>2, <2>3
  <2> QED
    <3>1. k \in DOMAIN a \cap DOMAIN b /\ k \in DOMAIN b \cap DOMAIN a
      BY <1>1, <2>3, Zenon
    <3>2. CASE a[k] < b[k]
      BY <2>4, <3>1, <3>2, Zenon DEF BytesLess
    <3>3. CASE b[k] < a[k]
      BY <2>4, <3>1, <3>3, Zenon DEF BytesLess
    <3> QED
      BY <2>5, <3>2, <3>3, Zenon
<1> QED
  BY <1>3, <1>4, Zenon

\* Byte strings after the same bytes are in the order they have by themselves.
LEMMA LessAfter ==
    ASSUME NEW w \in Bytes, NEW a \in Bytes, NEW b \in Bytes, BytesLess(a, b)
    PROVE  w \o a \in Bytes /\ w \o b \in Bytes /\ BytesLess(w \o a, w \o b)
<1> DEFINE p == w \o a
           q == w \o b
           n == Len(w)
<1>1. /\ n \in Nat /\ Len(a) \in Nat /\ Len(b) \in Nat
      /\ DOMAIN a = 1..Len(a) /\ DOMAIN b = 1..Len(b)
  BY DEF Bytes
<1>2. /\ p \in Bytes /\ Len(p) = n + Len(a)
      /\ \A k \in 1..n : p[k] = w[k]
      /\ \A k \in 1..Len(a) : p[n + k] = a[k]
  BY DEF Bytes
<1>3. /\ q \in Bytes /\ Len(q) = n + Len(b)
      /\ \A k \in 1..n : q[k] = w[k]
      /\ \A k \in 1..Len(b) : q[n + k] = b[k]
  BY DEF Bytes
<1>4. DOMAIN p = 1..(n + Len(a)) /\ DOMAIN q = 1..(n + Len(b))
  BY <1>2, <1>3 DEF Bytes
<1> HIDE DEF p, q, n
<1>5. ASSUME NEW m \in Nat, m <= Len(a), m <= Len(b), \A j \in 1..m : a[j] = b[j]
      PROVE  \A j \in 1..(n + m) : p[j] = q[j]
  <2> SUFFICES ASSUME NEW j \in 1..(n + m) PROVE p[j] = q[j]
    BY Zenon
  <2>1. CASE j <= n
    BY <1>1, <1>2, <1>3, <2>1
  <2>2. CASE j > n
    <3>1. j - n \in 1..m /\ j - n \in 1..Len(a) /\ j - n \in 1..Len(b) /\ n + (j - n) = j
      BY <1>1, <1>5, <2>2
    <3> QED
      BY <1>2, <1>3, <1>5, <3>1
  <2> QED
    BY <1>1, <2>1, <2>2
<1>6. CASE Len(a) < Len(b) /\ HasPrefix(b, a)
  <2>1. \A j \in 1..Len(a) : a[j] = b[j]
    BY <1>1, <1>6, Zenon DEF HasPrefix
  <2>2. \A j \in 1..(n + Len(a)) : p[j] = q[j]
    BY <1>1, <1>5, <1>6, <2>1
  <2> QED
    BY <1>1, <1>2, <1>3, <1>4, <1>6, <2>2 DEF BytesLess, HasPrefix, p, q
<1>7. ASSUME NEW k \in DOMAIN a \cap DOMAIN b, a[k] < b[k], \A j \in 1..(k - 1) : a[j] = b[j]
      PROVE  BytesLess(p, q)
  <2> DEFINE m == n + k
  <2>1. k - 1 \in Nat /\ k - 1 <= Len(a) /\ k - 1 <= Len(b) /\ n + (k - 1) = m - 1
    BY <1>1, <1>7
  <2>2. \A j \in 1..(m - 1) : p[j] = q[j]
    BY <1>5, <1>7, <2>1, Zenon
  <2>3. m \in DOMAIN p \cap DOMAIN q /\ p[m] < q[m]
    BY <1>1, <1>2, <1>3, <1>4, <1>7
  <2> HIDE DEF m
  <2> QED
    BY <2>2, <2>3, Zenon DEF BytesLess
<1> QED
  BY <1>2, <1>3, <1>6, <1>7, Zenon DEF BytesLess, p, q

-----------------------------------------------------------------------------
(* Every record has a key of its own.                                      *)

\* The part numbers: the naturals of an int.
PartNumbers == 0..((Word \div 2) - 1)

\* What may follow a string in a key.
LEMMA Follows ==
    /\ Unmarked(<<>>)
    /\ \A b \in Bytes : \A s : Unmarked(s) => Unmarked(Field(2, b, s)) /\ Field(2, b, s) # <<>>
    /\ \A b \in Bytes : Unmarked(Field(1, b, <<>>)) /\ Field(1, b, <<>>) # <<>>
    /\ \A i \in PartNumbers : Unmarked(encodeUint(i)) /\ encodeUint(i) # <<>>
<1>1. Unmarked(<<>>)
  BY DEF Unmarked, Bytes
<1>2. ASSUME NEW code \in {1, 2}, NEW b \in Bytes, NEW s, Unmarked(s)
      PROVE  Unmarked(Field(code, b, s)) /\ Field(code, b, s) # <<>>
  <2>1. code \in Byte /\ code # 255
    BY DEF Byte
  <2>2. s \in Bytes
    BY <1>2, Zenon DEF Unmarked
  <2>3. Text(b, s) \in Bytes
    BY <2>2, TextHead, Zenon
  <2>4. <<code>> \o Text(b, s) # <<>>
    BY <2>1, <2>3 DEF Bytes
  <2> QED
    BY <2>1, <2>2, <2>4, FieldUnmarked, Zenon DEF Field
<1>3. ASSUME NEW i \in PartNumbers PROVE Unmarked(encodeUint(i)) /\ encodeUint(i) # <<>>
  <2>1. i \in 0..(Word - 1)
    <3>1. Word \in Nat
      BY WordNat, Zenon
    <3> QED
      BY <3>1 DEF PartNumbers
  <2>2. /\ encodeUint(i) \in Bytes /\ Len(encodeUint(i)) = bisectLeft(i) + 1
        /\ encodeUint(i)[1] = intZeroCode + bisectLeft(i) /\ bisectLeft(i) \in 0..8
    BY <2>1, UintBytes, Zenon
  <2>3. encodeUint(i)[1] # 255
    BY <2>2 DEF intZeroCode
  <2>4. encodeUint(i) # <<>>
    BY <2>2 DEF Bytes
  <2> QED
    BY <2>2, <2>3, <2>4, Zenon DEF Unmarked
<1> QED
  BY <1>1, <1>2, <1>3, Zenon

\* Two strings in the same place of the same key are the same.
LEMMA StringInjective ==
    ASSUME NEW b \in Bytes, NEW c \in Bytes, NEW s, NEW t, Unmarked(s), Unmarked(t),
           Field(2, b, s) = Field(2, c, t)
    PROVE  b = c /\ s = t
<1>1. 2 \in Byte
  BY DEF Byte
<1> QED
  BY <1>1, FieldInjective

\* Part numbers are packed in their order, each in its own way.
LEMMA PartOrder ==
    ASSUME NEW i \in PartNumbers, NEW j \in PartNumbers
    PROVE  /\ encodeUint(i) \in Bytes /\ encodeUint(j) \in Bytes
           /\ i < j => BytesLess(encodeUint(i), encodeUint(j))
           /\ encodeUint(i) = encodeUint(j) => i = j
<1>1. Word \in Nat
  BY WordNat, Zenon
<1>2. i \in 0..(Word - 1) /\ j \in 0..(Word - 1) /\ i \in Nat /\ j \in Nat
  BY <1>1 DEF PartNumbers
<1>3. encodeUint(i) \in Bytes /\ encodeUint(j) \in Bytes
  BY <1>2, UintBytes, Zenon
<1>4. i < j => BytesLess(encodeUint(i), encodeUint(j))
  BY <1>2, UintOrder, Zenon
<1>5. j < i => BytesLess(encodeUint(j), encodeUint(i))
  BY <1>2, UintOrder, Zenon
<1>6. encodeUint(i) = encodeUint(j) => i = j
  BY <1>2, <1>3, <1>4, <1>5, LessIrreflexive, NatTotal, Zenon
<1> QED
  BY <1>3, <1>4, <1>6, Zenon

\* Two parts with one key are the same part of the same module.
LEMMA PartKeyInjective ==
    ASSUME NEW ns \in Bytes, NEW m \in Bytes, NEW i \in PartNumbers,
           NEW ns2 \in Bytes, NEW m2 \in Bytes, NEW i2 \in PartNumbers,
           getModulePartKey(ns, m, i) = getModulePartKey(ns2, m2, i2)
    PROVE  ns = ns2 /\ m = m2 /\ i = i2
<1> DEFINE a1 == encodeUint(i)
           b1 == encodeUint(i2)
           a2 == Field(2, m, a1)
           b2 == Field(2, m2, b1)
           a3 == Field(2, modules[2], a2)
           b3 == Field(2, modules[2], b2)
<1>1. Unmarked(a1) /\ Unmarked(b1)
  BY Follows, Zenon
<1>2. Field(2, ns, a3) = Field(2, ns2, b3)
  BY ModuleFields DEF PartNumbers
<1> HIDE DEF a1, b1
<1>3. Unmarked(a2) /\ Unmarked(b2)
  BY <1>1, Follows, Zenon
<1> HIDE DEF a2, b2
<1>4. Unmarked(a3) /\ Unmarked(b3)
  BY <1>3, Follows, Words, Zenon
<1> HIDE DEF a3, b3
<1>5. ns = ns2 /\ a3 = b3
  BY <1>2, <1>4, StringInjective, Zenon
<1>6. a2 = b2
  <2>1. Field(2, modules[2], a2) = Field(2, modules[2], b2)
    BY <1>5, Zenon DEF a3, b3
  <2>2. modules[2] \in Bytes
    BY Words, Zenon
  <2> QED
    BY <1>3, <2>1, <2>2, StringInjective
<1>7. m = m2 /\ a1 = b1
  BY <1>1, <1>6, StringInjective, Zenon DEF a2, b2
<1>8. i = i2
  BY <1>7, PartOrder, Zenon DEF a1, b1
<1> QED
  BY <1>5, <1>7, <1>8, Zenon

\* Two keys that name actors are the same.
HeadsMeet(ns, a, m, s, ns2, a2, m2, t) ==
    /\ ns \in Bytes /\ a \in Bytes /\ m \in Bytes /\ Unmarked(s)
    /\ ns2 \in Bytes /\ a2 \in Bytes /\ m2 \in Bytes /\ Unmarked(t)
    /\ ActorHead(ns, a, m, s) = ActorHead(ns2, a2, m2, t)

\* Then they name the same actor.
LEMMA ActorHeadInjective ==
    ASSUME NEW ns, NEW a, NEW m, NEW s, NEW ns2, NEW a2, NEW m2, NEW t,
           HeadsMeet(ns, a, m, s, ns2, a2, m2, t)
    PROVE  ns = ns2 /\ a = a2 /\ m = m2 /\ s = t
<1> DEFINE s1 == Field(2, a, s)
           t1 == Field(2, a2, t)
           s2 == Field(2, m, s1)
           t2 == Field(2, m2, t1)
           s3 == Field(2, actors[2], s2)
           t3 == Field(2, actors[2], t2)
<1>0. /\ ns \in Bytes /\ a \in Bytes /\ m \in Bytes /\ Unmarked(s)
      /\ ns2 \in Bytes /\ a2 \in Bytes /\ m2 \in Bytes /\ Unmarked(t)
  BY Zenon DEF HeadsMeet
<1>1. Field(2, ns, s3) = Field(2, ns2, t3)
  BY Zenon DEF HeadsMeet, ActorHead
<1>2. Unmarked(s1) /\ Unmarked(t1)
  BY <1>0, Follows, Zenon
<1> HIDE DEF s1, t1
<1>3. Unmarked(s2) /\ Unmarked(t2)
  BY <1>0, <1>2, Follows, Zenon
<1> HIDE DEF s2, t2
<1>4. Unmarked(s3) /\ Unmarked(t3)
  BY <1>3, Follows, Words, Zenon
<1> HIDE DEF s3, t3
<1>5. ns = ns2 /\ s3 = t3
  BY <1>0, <1>1, <1>4, StringInjective
<1>6. s2 = t2
  <2>1. Field(2, actors[2], s2) = Field(2, actors[2], t2)
    BY <1>5, Zenon DEF s3, t3
  <2>2. actors[2] \in Bytes
    BY Words, Zenon
  <2> QED
    BY <1>3, <2>1, <2>2, StringInjective
<1>7. m = m2 /\ s1 = t1
  BY <1>0, <1>2, <1>6, StringInjective, Zenon DEF s2, t2
<1>8. a = a2 /\ s = t
  BY <1>0, <1>7, StringInjective DEF s1, t1
<1> QED
  BY <1>5, <1>7, <1>8, Zenon

\* Two actors with one key are the same.
LEMMA ActorKeyInjective ==
    ASSUME NEW ns \in Bytes, NEW a \in Bytes, NEW m \in Bytes,
           NEW ns2 \in Bytes, NEW a2 \in Bytes, NEW m2 \in Bytes,
           getActorKey(ns, a, m) = getActorKey(ns2, a2, m2)
    PROVE  ns = ns2 /\ a = a2 /\ m = m2
<1> DEFINE x == Field(2, state[2], <<>>)
<1>1. Unmarked(x)
  BY Follows, Words, Zenon
<1>2. ActorHead(ns, a, m, x) = ActorHead(ns2, a2, m2, x)
  <2>1. getActorKey(ns, a, m) = ActorHead(ns, a, m, x)
    BY ActorFields, Zenon
  <2>2. getActorKey(ns2, a2, m2) = ActorHead(ns2, a2, m2, x)
    BY ActorFields, Zenon
  <2> HIDE DEF x
  <2> QED
    BY <2>1, <2>2, Zenon
<1> HIDE DEF x
<1>3. HeadsMeet(ns, a, m, x, ns2, a2, m2, x)
  BY <1>1, <1>2, Zenon DEF HeadsMeet
<1> QED
  BY <1>3, ActorHeadInjective, Zenon

\* Two values are stored under one key.
StoragesMeet(ns, a, m, k, ns2, a2, m2, k2) ==
    /\ ns \in Bytes /\ a \in Bytes /\ m \in Bytes /\ k \in Bytes
    /\ ns2 \in Bytes /\ a2 \in Bytes /\ m2 \in Bytes /\ k2 \in Bytes
    /\ getActoKVKey(ns, a, m, k) = getActoKVKey(ns2, a2, m2, k2)

\* Then they are of the same actor and storage key.
LEMMA StorageKeyInjective ==
    ASSUME NEW ns, NEW a, NEW m, NEW k, NEW ns2, NEW a2, NEW m2, NEW k2,
           StoragesMeet(ns, a, m, k, ns2, a2, m2, k2)
    PROVE  ns = ns2 /\ a = a2 /\ m = m2 /\ k = k2
<1> DEFINE x1 == Field(1, k, <<>>)
           y1 == Field(1, k2, <<>>)
           x2 == Field(2, kv[2], x1)
           y2 == Field(2, kv[2], y1)
<1>0. /\ ns \in Bytes /\ a \in Bytes /\ m \in Bytes /\ k \in Bytes
      /\ ns2 \in Bytes /\ a2 \in Bytes /\ m2 \in Bytes /\ k2 \in Bytes
  BY Zenon DEF StoragesMeet
<1>1. Unmarked(x1) /\ Unmarked(y1)
  BY <1>0, Follows, Zenon
<1>2. Unmarked(x2) /\ Unmarked(y2)
  BY <1>1, Follows, Words, Zenon
<1>3. ActorHead(ns, a, m, x2) = ActorHead(ns2, a2, m2, y2)
  <2>1. getActoKVKey(ns, a, m, k) = ActorHead(ns, a, m, x2)
    <3>1. StorageFields(ns, a, m, k)
      BY <1>0, ActorFields, Zenon
    <3> QED
      BY <3>1, Zenon DEF StorageFields
  <2>2. getActoKVKey(ns2, a2, m2, k2) = ActorHead(ns2, a2, m2, y2)
    <3>1. StorageFields(ns2, a2, m2, k2)
      BY <1>0, ActorFields, Zenon
    <3> QED
      BY <3>1, Zenon DEF StorageFields
  <2> HIDE DEF x1, y1, x2, y2
  <2> QED
    BY <2>1, <2>2, Zenon DEF StoragesMeet
<1> HIDE DEF x1, y1, x2, y2
<1>4. ns = ns2 /\ a = a2 /\ m = m2 /\ x2 = y2
  <2>1. HeadsMeet(ns, a, m, x2, ns2, a2, m2, y2)
    BY <1>0, <1>2, <1>3, Zenon DEF HeadsMeet
  <2> QED
    BY <2>1, ActorHeadInjective, Zenon
<1>5. x1 = y1
  <2>1. Field(2, kv[2], x1) = Field(2, kv[2], y1) /\ kv[2] \in Bytes
    BY <1>4, Words, Zenon DEF x2, y2
  <2> QED
    BY <1>1, <2>1, StringInjective
<1>6. k = k2
  <2>1. 1 \in Byte /\ Unmarked(<<>>)
    BY Follows DEF Byte
  <2> QED
    BY <1>0, <1>5, <2>1, FieldInjective DEF x1, y1
<1> QED
  BY <1>4, <1>6, Zenon

\* Two servers with one key are the same.
LEMMA ServerKeyInjective ==
    ASSUME NEW s \in Bytes, NEW t \in Bytes, getServerKey(s) = getServerKey(t)
    PROVE  s = t
<1> DEFINE x == Field(2, s, <<>>)
           y == Field(2, t, <<>>)
<1>1. Unmarked(x) /\ Unmarked(y) /\ Unmarked(<<>>)
  BY Follows, Zenon
<1>2. Field(2, servers[2], x) = Field(2, servers[2], y) /\ servers[2] \in Bytes
  BY ServerFields, Words, Zenon
<1> HIDE DEF x, y
<1>3. x = y
  BY <1>1, <1>2, StringInjective
<1> QED
  BY <1>1, <1>3, StringInjective, Zenon DEF x, y

\* A key of a server is no key of a namespace, not even of one that is called
\* "servers".
LEMMA ServerKeyApart ==
    ASSUME NEW s \in Bytes, NEW ns \in Bytes, NEW b \in Bytes, NEW rest, Unmarked(rest),
           rest # <<>>
    PROVE  getServerKey(s) # Field(2, ns, Field(2, b, rest))
<1> DEFINE x == Field(2, s, <<>>)
           y == Field(2, b, rest)
<1> SUFFICES ASSUME getServerKey(s) = Field(2, ns, y) PROVE FALSE
  BY Zenon
<1>1. Unmarked(x) /\ Unmarked(y) /\ Unmarked(<<>>)
  BY Follows, Zenon
<1>2. Field(2, servers[2], x) = Field(2, ns, y) /\ servers[2] \in Bytes
  BY ServerFields, Words, Zenon
<1> HIDE DEF x, y
<1>3. x = y
  BY <1>1, <1>2, StringInjective
<1>4. <<>> = rest
  BY <1>1, <1>3, StringInjective, Zenon DEF x, y
<1> QED
  BY <1>4, Zenon

\* A part of a module lies under no key of an actor or of its storage.
LEMMA PartKeyApart ==
    ASSUME NEW ns \in Bytes, NEW m \in Bytes, NEW i \in PartNumbers,
           NEW ns2 \in Bytes, NEW a \in Bytes, NEW m2 \in Bytes, NEW rest, Unmarked(rest)
    PROVE  getModulePartKey(ns, m, i) # ActorHead(ns2, a, m2, rest)
<1> DEFINE x == Field(2, m, encodeUint(i))
           y == Field(2, m2, Field(2, a, rest))
           x2 == Field(2, modules[2], x)
           y2 == Field(2, actors[2], y)
<1> SUFFICES ASSUME getModulePartKey(ns, m, i) = ActorHead(ns2, a, m2, rest) PROVE FALSE
  BY Zenon
<1>1. Unmarked(x) /\ Unmarked(y)
  BY Follows, Zenon
<1>2. Field(2, ns, x2) = Field(2, ns2, y2)
  <2>1. getModulePartKey(ns, m, i) = Field(2, ns, x2)
    BY ModuleFields, Zenon DEF PartNumbers
  <2>2. ActorHead(ns2, a, m2, rest) = Field(2, ns2, y2)
    BY Zenon DEF ActorHead
  <2> QED
    BY <2>1, <2>2, Zenon
<1> HIDE DEF x, y
<1>3. modules[2] \in Bytes /\ actors[2] \in Bytes /\ modules[2] # actors[2]
  BY Words, Zenon
<1>4. Unmarked(x2) /\ Unmarked(y2)
  BY <1>1, <1>3, Follows, Zenon
<1> HIDE DEF x2, y2
<1>5. x2 = y2
  BY <1>2, <1>4, StringInjective, Zenon
<1>6. Field(2, modules[2], x) = Field(2, actors[2], y)
  BY <1>5, Zenon DEF x2, y2
<1>7. modules[2] = actors[2]
  BY <1>1, <1>3, <1>6, StringInjective
<1> QED
  BY <1>3, <1>7, Zenon

\* An actor lies under no key of a storage.
LEMMA ActorKeyApart ==
    ASSUME NEW ns \in Bytes, NEW a \in Bytes, NEW m \in Bytes, NEW k \in Bytes,
           NEW ns2 \in Bytes, NEW a2 \in Bytes, NEW m2 \in Bytes
    PROVE  getActoKVKey(ns, a, m, k) # getActorKey(ns2, a2, m2)
<1> DEFINE x1 == Field(1, k, <<>>)
           x == Field(2, kv[2], x1)
           y == Field(2, state[2], <<>>)
<1> SUFFICES ASSUME getActoKVKey(ns, a, m, k) = getActorKey(ns2, a2, m2) PROVE FALSE
  BY Zenon
<1>1. Unmarked(x1) /\ Unmarked(<<>>)
  BY Follows, Zenon
<1>2. kv[2] \in Bytes /\ state[2] \in Bytes /\ state[2] # kv[2]
  BY Words, Zenon
<1>3. StorageFields(ns, a, m, k)
  BY ActorFields, Zenon
<1>4. getActoKVKey(ns, a, m, k) = ActorHead(ns, a, m, x)
  BY <1>3, Zenon DEF StorageFields
<1>5. getActorKey(ns2, a2, m2) = ActorHead(ns2, a2, m2, y)
  BY ActorFields, Zenon
<1> HIDE DEF x1
<1>6. Unmarked(x) /\ Unmarked(y)
  BY <1>1, <1>2, Follows, Zenon
<1> HIDE DEF x, y
<1>7. HeadsMeet(ns, a, m, x, ns2, a2, m2, y)
  BY <1>4, <1>5, <1>6, Zenon DEF HeadsMeet
<1>8. x = y
  BY <1>7, ActorHeadInjective, Zenon
<1>9. Field(2, kv[2], x1) = Field(2, state[2], <<>>)
  BY <1>8, Zenon DEF x, y
<1>10. kv[2] = state[2]
  BY <1>1, <1>2, <1>9, StringInjective
<1> QED
  BY <1>2, <1>10, Zenon

\* A server lies under no key of a part, of an actor or of its storage.
LEMMA ServerKeyOwn ==
    ASSUME NEW s \in Bytes, NEW ns \in Bytes, NEW m \in Bytes
    PROVE  /\ \A i \in PartNumbers : getServerKey(s) # getModulePartKey(ns, m, i)
           /\ \A a \in Bytes : \A rest :
                Unmarked(rest) => getServerKey(s) # ActorHead(ns, a, m, rest)
<1>1. modules[2] \in Bytes /\ actors[2] \in Bytes
  BY Words, Zenon
<1>2. ASSUME NEW i \in PartNumbers
      PROVE  getServerKey(s) # getModulePartKey(ns, m, i)
  <2> DEFINE x == Field(2, m, encodeUint(i))
  <2>1. Unmarked(x) /\ x # <<>>
    BY Follows, Zenon
  <2>2. getModulePartKey(ns, m, i) = Field(2, ns, Field(2, modules[2], x))
    BY ModuleFields, Zenon DEF PartNumbers
  <2> HIDE DEF x
  <2> QED
    BY <1>1, <2>1, <2>2, ServerKeyApart, Zenon
<1>3. ASSUME NEW a \in Bytes, NEW rest, Unmarked(rest)
      PROVE  getServerKey(s) # ActorHead(ns, a, m, rest)
  <2> DEFINE y == Field(2, a, rest)
             x == Field(2, m, y)
  <2>1. Unmarked(y)
    BY <1>3, Follows, Zenon
  <2>2. ActorHead(ns, a, m, rest) = Field(2, ns, Field(2, actors[2], x))
    BY Zenon DEF ActorHead
  <2> HIDE DEF y
  <2>3. Unmarked(x) /\ x # <<>>
    BY <2>1, Follows, Zenon
  <2> HIDE DEF x
  <2> QED
    BY <1>1, <2>2, <2>3, ServerKeyApart, Zenon
<1> QED
  BY <1>2, <1>3, Zenon

-----------------------------------------------------------------------------
(* What may lie under a key.                                               *)

\* A module's part under its key.
PartLies(r, k) ==
    \E ns \in Namespaces, m \in Modules, n \in PartCounts : \E i \in 0..(n - 1) :
        r = Part(ns, m, n, i) /\ k = getModulePartKey(ns, m, i)

\* An actor's record under its key.
ActorRecord(ns, a, m) == [type |-> "actor", namespace |-> ns, id |-> a, module |-> m]
ActorLies(r, k) ==
    \E ns \in Namespaces, a \in ActorIDs, m \in Modules :
        r = ActorRecord(ns, a, m) /\ k = getActorKey(ns, a, m)

\* An actor's stored value under its key.
StorageRecord(ns, a, m, key) ==
    [type |-> "storage", namespace |-> ns, id |-> a, module |-> m, key |-> key]
StorageLies(r, k) ==
    \E ns \in Namespaces, a \in ActorIDs, m \in Modules, key \in StorageKeys :
        r = StorageRecord(ns, a, m, key) /\ k = getActoKVKey(ns, a, m, key)

\* A server's heartbeat under its key.
ServerRecord(s) == [type |-> "server", id |-> s]
ServerLies(r, k) == \E s \in Servers : r = ServerRecord(s) /\ k = getServerKey(s)

\* A record under the key the registry builds for it.
Lies(r, k) == PartLies(r, k) \/ ActorLies(r, k) \/ StorageLies(r, k) \/ ServerLies(r, k)

\* Names are byte strings, numbers of parts are in the range of int.
LEMMA Names ==
    /\ Namespaces \subseteq Bytes /\ Modules \subseteq Bytes /\ ActorIDs \subseteq Bytes
    /\ Servers \subseteq Bytes /\ StorageKeys \subseteq Bytes
    /\ PartCounts \subseteq Nat \ {0}
    /\ \A n \in PartCounts : 0 \in 0..(n - 1) /\ 0..(n - 1) \subseteq PartNumbers
<1>1. Word \in Nat
  BY WordNat, Zenon
<1> QED
  BY <1>1, KeyspaceAssumption DEF Bytes, PartNumbers

\* Under the key of a part lies that part.
LEMMA AtPartKey ==
    ASSUME NEW ns \in Bytes, NEW m \in Bytes, NEW i \in PartNumbers, NEW r,
           Lies(r, getModulePartKey(ns, m, i))
    PROVE  /\ ns \in Namespaces /\ m \in Modules
           /\ \E n \in PartCounts : i \in 0..(n - 1) /\ r = Part(ns, m, n, i)
<1> DEFINE k == getModulePartKey(ns, m, i)
<1>1. ASSUME PartLies(r, k)
      PROVE  /\ ns \in Namespaces /\ m \in Modules
             /\ \E n \in PartCounts : i \in 0..(n - 1) /\ r = Part(ns, m, n, i)
  <2>1. PICK ns2 \in Namespaces, m2 \in Modules, n \in PartCounts : \E j \in 0..(n - 1) :
          r = Part(ns2, m2, n, j) /\ k = getModulePartKey(ns2, m2, j)
    BY <1>1, Zenon DEF PartLies
  <2>2. PICK j \in 0..(n - 1) : r = Part(ns2, m2, n, j) /\ k = getModulePartKey(ns2, m2, j)
    BY <2>1, Zenon
  <2>3. ns2 \in Bytes /\ m2 \in Bytes /\ j \in PartNumbers
    BY Names, Zenon
  <2>4. ns = ns2 /\ m = m2 /\ i = j
    BY <2>2, <2>3, PartKeyInjective
  <2> QED
    BY <2>2, <2>4, Zenon
<1>2. ASSUME ActorLies(r, k) PROVE FALSE
  <2>1. PICK ns2 \in Namespaces, a \in ActorIDs, m2 \in Modules : k = getActorKey(ns2, a, m2)
    BY <1>2, Zenon DEF ActorLies
  <2>2. ns2 \in Bytes /\ a \in Bytes /\ m2 \in Bytes /\ state[2] \in Bytes
    BY Names, Words, Zenon
  <2> DEFINE x == Field(2, state[2], <<>>)
  <2>3. Unmarked(x)
    BY <2>2, Follows, Zenon
  <2>4. getActorKey(ns2, a, m2) = ActorHead(ns2, a, m2, x)
    BY <2>2, ActorFields, Zenon
  <2> HIDE DEF x
  <2> QED
    BY <2>1, <2>2, <2>3, <2>4, PartKeyApart, Zenon
<1>3. ASSUME StorageLies(r, k) PROVE FALSE
  <2>1. PICK ns2 \in Namespaces, a \in ActorIDs, m2 \in Modules, key \in StorageKeys :
          k = getActoKVKey(ns2, a, m2, key)
    BY <1>3, Zenon DEF StorageLies
  <2>2. ns2 \in Bytes /\ a \in Bytes /\ m2 \in Bytes /\ key \in Bytes /\ kv[2] \in Bytes
    BY Names, Words, Zenon
  <2> DEFINE y == Field(1, key, <<>>)
             x == Field(2, kv[2], y)
  <2>3. Unmarked(y)
    BY <2>2, Follows, Zenon
  <2>4. StorageFields(ns2, a, m2, key)
    BY <2>2, ActorFields, Zenon
  <2>5. getActoKVKey(ns2, a, m2, key) = ActorHead(ns2, a, m2, x)
    BY <2>4, Zenon DEF StorageFields
  <2> HIDE DEF y
  <2>6. Unmarked(x)
    BY <2>2, <2>3, Follows, Zenon
  <2> HIDE DEF x
  <2> QED
    BY <2>1, <2>2, <2>5, <2>6, PartKeyApart, Zenon
<1>4. ASSUME ServerLies(r, k) PROVE FALSE
  <2>1. PICK s \in Servers : k = getServerKey(s)
    BY <1>4, Zenon DEF ServerLies
  <2>2. s \in Bytes
    BY Names, Zenon
  <2> QED
    BY <2>1, <2>2, ServerKeyOwn, Zenon
<1> QED
  BY <1>1, <1>2, <1>3, <1>4, Zenon DEF Lies

\* Under the key of a stored value lies that value.
LEMMA AtStorageKey ==
    ASSUME NEW ns \in Bytes, NEW a \in Bytes, NEW m \in Bytes, NEW key \in Bytes, NEW r,
           Lies(r, getActoKVKey(ns, a, m, key))
    PROVE  r = StorageRecord(ns, a, m, key)
<1> DEFINE k == getActoKVKey(ns, a, m, key)
           y == Field(1, key, <<>>)
           x == Field(2, kv[2], y)
<1>1. Unmarked(y) /\ kv[2] \in Bytes
  BY Follows, Words, Zenon
<1>2. StorageFields(ns, a, m, key)
  BY ActorFields, Zenon
<1>3. k = ActorHead(ns, a, m, x)
  BY <1>2, Zenon DEF StorageFields
<1> HIDE DEF y
<1>4. Unmarked(x)
  BY <1>1, Follows, Zenon
<1> HIDE DEF x
<1>5. ASSUME StorageLies(r, k) PROVE r = StorageRecord(ns, a, m, key)
  <2>1. PICK ns2 \in Namespaces, a2 \in ActorIDs, m2 \in Modules, key2 \in StorageKeys :
          r = StorageRecord(ns2, a2, m2, key2) /\ k = getActoKVKey(ns2, a2, m2, key2)
    BY <1>5, Zenon DEF StorageLies
  <2>2. ns2 \in Bytes /\ a2 \in Bytes /\ m2 \in Bytes /\ key2 \in Bytes
    BY Names, Zenon
  <2>3. ns = ns2 /\ a = a2 /\ m = m2 /\ key = key2
    <3>1. StoragesMeet(ns, a, m, key, ns2, a2, m2, key2)
      BY <2>1, <2>2, Zenon DEF StoragesMeet
    <3> QED
      BY <3>1, StorageKeyInjective, Zenon
  <2> QED
    BY <2>1, <2>3, Zenon
<1>6. ASSUME PartLies(r, k) PROVE FALSE
  <2>1. PICK ns2 \in Namespaces, m2 \in Modules, n \in PartCounts : \E j \in 0..(n - 1) :
          k = getModulePartKey(ns2, m2, j)
    BY <1>6, Zenon DEF PartLies
  <2>2. PICK j \in 0..(n - 1) : k = getModulePartKey(ns2, m2, j)
    BY <2>1, Zenon
  <2>3. ns2 \in Bytes /\ m2 \in Bytes /\ j \in PartNumbers
    BY Names, Zenon
  <2> HIDE DEF k
  <2> QED
    BY <1>3, <1>4, <2>2, <2>3, PartKeyApart, Zenon
<1>7. ASSUME ActorLies(r, k) PROVE FALSE
  <2>1. PICK ns2 \in Namespaces, a2 \in ActorIDs, m2 \in Modules : k = getActorKey(ns2, a2, m2)
    BY <1>7, Zenon DEF ActorLies
  <2>2. ns2 \in Bytes /\ a2 \in Bytes /\ m2 \in Bytes
    BY Names, Zenon
  <2> QED
    BY <2>1, <2>2, ActorKeyApart, Zenon
<1>8. ASSUME ServerLies(r, k) PROVE FALSE
  <2>1. PICK s \in Servers : k = getServerKey(s)
    BY <1>8, Zenon DEF ServerLies
  <2>2. s \in Bytes
    BY Names, Zenon
  <2> HIDE DEF k
  <2> QED
    BY <1>3, <1>4, <2>1, <2>2, ServerKeyOwn, Zenon
<1> QED
  BY <1>5, <1>6, <1>7, <1>8, Zenon DEF Lies

\* Under the key of a server lies that server.
LEMMA AtServerKey ==
    ASSUME NEW s \in Bytes, NEW r, Lies(r, getServerKey(s))
    PROVE  r = ServerRecord(s) /\ s \in Servers
<1> DEFINE k == getServerKey(s)
<1>1. ASSUME ServerLies(r, k) PROVE r = ServerRecord(s) /\ s \in Servers
  <2>1. PICK t \in Servers : r = ServerRecord(t) /\ k = getServerKey(t)
    BY <1>1, Zenon DEF ServerLies
  <2>2. t \in Bytes
    BY Names, Zenon
  <2>3. s = t
    BY <2>1, <2>2, ServerKeyInjective, Zenon
  <2> QED
    BY <2>1, <2>3, Zenon
<1>2. ASSUME PartLies(r, k) PROVE FALSE
  <2>1. PICK ns2 \in Namespaces, m2 \in Modules, n \in PartCounts : \E j \in 0..(n - 1) :
          k = getModulePartKey(ns2, m2, j)
    BY <1>2, Zenon DEF PartLies
  <2>2. PICK j \in 0..(n - 1) : k = getModulePartKey(ns2, m2, j)
    BY <2>1, Zenon
  <2>3. ns2 \in Bytes /\ m2 \in Bytes /\ j \in PartNumbers
    BY Names, Zenon
  <2> QED
    BY <2>2, <2>3, ServerKeyOwn, Zenon
<1>3. ASSUME ActorLies(r, k) PROVE FALSE
  <2>1. PICK ns2 \in Namespaces, a \in ActorIDs, m2 \in Modules : k = getActorKey(ns2, a, m2)
    BY <1>3, Zenon DEF ActorLies
  <2>2. ns2 \in Bytes /\ a \in Bytes /\ m2 \in Bytes /\ state[2] \in Bytes
    BY Names, Words, Zenon
  <2> DEFINE x == Field(2, state[2], <<>>)
  <2>3. Unmarked(x)
    BY <2>2, Follows, Zenon
  <2>4. getActorKey(ns2, a, m2) = ActorHead(ns2, a, m2, x)
    BY <2>2, ActorFields, Zenon
  <2> HIDE DEF x
  <2> QED
    BY <2>1, <2>2, <2>3, <2>4, ServerKeyOwn, Zenon
<1>4. ASSUME StorageLies(r, k) PROVE FALSE
  <2>1. PICK ns2 \in Namespaces, a \in ActorIDs, m2 \in Modules, key \in StorageKeys :
          k = getActoKVKey(ns2, a, m2, key)
    BY <1>4, Zenon DEF StorageLies
  <2>2. ns2 \in Bytes /\ a \in Bytes /\ m2 \in Bytes /\ key \in Bytes /\ kv[2] \in Bytes
    BY Names, Words, Zenon
  <2> DEFINE y == Field(1, key, <<>>)
             x == Field(2, kv[2], y)
  <2>3. Unmarked(y)
    BY <2>2, Follows, Zenon
  <2>4. StorageFields(ns2, a, m2, key)
    BY <2>2, ActorFields, Zenon
  <2>5. getActoKVKey(ns2, a, m2, key) = ActorHead(ns2, a, m2, x)
    BY <2>4, Zenon DEF StorageFields
  <2> HIDE DEF y
  <2>6. Unmarked(x)
    BY <2>2, <2>3, Follows, Zenon
  <2> HIDE DEF x
  <2> QED
    BY <2>1, <2>2, <2>5, <2>6, ServerKeyOwn, Zenon
<1> QED
  BY <1>1, <1>2, <1>3, <1>4, Zenon DEF Lies

-----------------------------------------------------------------------------
(* The store.                                                              *)

\* The records of f lie under their keys, and those of a module all together.
Lie(f) == \A k \in DOMAIN f : Lies(f[k], k)
Whole(f) ==
    \A k \in DOMAIN f : f[k].type = "part" => \A j \in 0..(f[k].parts - 1) :
        LET key == getModulePartKey(f[k].namespace, f[k].id, j)
        IN  key \in DOMAIN f /\ f[key] = Part(f[k].namespace, f[k].id, f[k].parts, j)

\* What the registry's operations keep: the store is a finite function, its
\* records lie under their keys, modules are whole, and nothing is lost.
KeyInv ==
    /\ store = [k \in DOMAIN store |-> store[k]] /\ IsFiniteSet(DOMAIN store)
    /\ Lie(store)
    /\ Whole(store)
    /\ RecordsKeepTheirKeys

\* The entries of g put over those of f.
Joined(f, g) == [k \in DOMAIN f \cup DOMAIN g |-> IF k \in DOMAIN g THEN g[k] ELSE f[k]]
Agree(f, g) == \A k \in DOMAIN f \cap DOMAIN g : f[k] = g[k]

\* h has the entries of both.
Both(h, f, g) ==
    /\ DOMAIN h = DOMAIN f \cup DOMAIN g
    /\ \A k \in DOMAIN f : h[k] = f[k]
    /\ \A k \in DOMAIN g : h[k] = g[k]

\* Entries that agree with what is there hide none of it.
LEMMA JoinedIs ==
    ASSUME NEW f, NEW g, Agree(f, g)
    PROVE  Both(Joined(f, g), f, g)
BY Zenon DEF Joined, Agree, Both

\* A step that puts whole records under their keys and changes none that is there.
Grows(new) ==
    /\ store' = Joined(store, new)
    /\ written' = written \cup {new[k] : k \in DOMAIN new}
    /\ IsFiniteSet(DOMAIN new)
    /\ Lie(new) /\ Whole(new) /\ Agree(store, new)

\* What is whole stays so when it is joined.
LEMMA JoinedWhole ==
    ASSUME NEW f, NEW g, Agree(f, g), Whole(f), Whole(g)
    PROVE  Whole(Joined(f, g))
<1> DEFINE h == Joined(f, g)
<1>1. /\ DOMAIN h = DOMAIN f \cup DOMAIN g
      /\ \A k \in DOMAIN f : h[k] = f[k]
      /\ \A k \in DOMAIN g : h[k] = g[k]
  <2>1. Both(h, f, g)
    BY JoinedIs, Zenon
  <2> HIDE DEF h
  <2> QED
    BY <2>1, Zenon DEF Both
<1> HIDE DEF h
<1>2. ASSUME NEW e, Whole(e), DOMAIN e \subseteq DOMAIN h, \A k \in DOMAIN e : h[k] = e[k],
             NEW k \in DOMAIN e, h[k].type = "part", NEW j \in 0..(h[k].parts - 1)
      PROVE  LET key == getModulePartKey(h[k].namespace, h[k].id, j)
             IN  key \in DOMAIN h /\ h[key] = Part(h[k].namespace, h[k].id, h[k].parts, j)
  <2>1. h[k] = e[k]
    BY <1>2, Zenon
  <2> DEFINE key == getModulePartKey(e[k].namespace, e[k].id, j)
  <2>2. key \in DOMAIN e /\ e[key] = Part(e[k].namespace, e[k].id, e[k].parts, j)
    BY <1>2, <2>1, Zenon DEF Whole
  <2> HIDE DEF key
  <2>3. key \in DOMAIN h /\ h[key] = Part(e[k].namespace, e[k].id, e[k].parts, j)
    BY <1>2, <2>2, Zenon
  <2> QED
    BY <2>1, <2>3, Zenon DEF key
<1>3. ASSUME NEW k \in DOMAIN h, h[k].type = "part", NEW j \in 0..(h[k].parts - 1)
      PROVE  LET key == getModulePartKey(h[k].namespace, h[k].id, j)
             IN  key \in DOMAIN h /\ h[key] = Part(h[k].namespace, h[k].id, h[k].parts, j)
  <2>1. DOMAIN f \subseteq DOMAIN h /\ DOMAIN g \subseteq DOMAIN h
    BY <1>1, Zenon
  <2>2. CASE k \in DOMAIN f
    BY <1>1, <1>2, <1>3, <2>1, <2>2, Zenon
  <2>3. CASE k \in DOMAIN g
    BY <1>1, <1>2, <1>3, <2>1, <2>3, Zenon
  <2> QED
    BY <1>1, <2>2, <2>3, Zenon
<1> QED
  BY <1>3, Zenon DEF Whole, h

\* The invariant outlives such a step.
LEMMA GrowsKeeps ==
    ASSUME NEW new, KeyInv, Grows(new)
    PROVE  KeyInv'
<1>1. /\ DOMAIN store' = DOMAIN store \cup DOMAIN new
      /\ \A k \in DOMAIN store : store'[k] = store[k]
      /\ \A k \in DOMAIN new : store'[k] = new[k]
  <2>1. Both(store', store, new)
    BY JoinedIs, Zenon DEF Grows
  <2> QED
    BY <2>1, Zenon DEF Both
<1>2. store' = [k \in DOMAIN store' |-> store'[k]]
  BY Zenon DEF Grows, Joined
<1>3. IsFiniteSet(DOMAIN store')
  <2>1. IsFiniteSet(DOMAIN store) /\ IsFiniteSet(DOMAIN new)
    BY Zenon DEF Grows, KeyInv
  <2>2. IsFiniteSet(DOMAIN store \cup DOMAIN new)
    BY <2>1, FS_Union, Zenon
  <2> QED
    BY <1>1, <2>2, Zenon
<1>4. Lie(store')
  BY <1>1, Zenon DEF Grows, KeyInv, Lie
<1>5. Whole(store')
  BY JoinedWhole, Zenon DEF Grows, KeyInv
<1>6. {store'[k] : k \in DOMAIN store'} = written'
  <2>1. {store[k] : k \in DOMAIN store} = written
    BY Zenon DEF KeyInv, RecordsKeepTheirKeys
  <2>2. written' = written \cup {new[k] : k \in DOMAIN new}
    BY Zenon DEF Grows
  <2> QED
    BY <1>1, <2>1, <2>2, Zenon
<1> QED
  BY <1>2, <1>3, <1>4, <1>5, <1>6, Zenon DEF KeyInv, RecordsKeepTheirKeys, Lie, Whole

-----------------------------------------------------------------------------
(* The operations as such steps.                                           *)

\* A single record.
One(key, record) == [k \in {key} |-> record]

\* One record put under its key, where nothing or the same lies.
LEMMA PutGrows ==
    ASSUME NEW key, NEW record, Lies(record, key), record.type # "part",
           key \in DOMAIN store => store[key] = record,
           store' = Put(store, key, record), written' = written \cup {record}
    PROVE  Grows(One(key, record))
<1> DEFINE g == One(key, record)
<1>1. DOMAIN g = {key} /\ g[key] = record
  BY Zenon DEF One
<1> HIDE DEF g
<1>2. Joined(store, g) = Put(store, key, record)
  BY <1>1, Zenon DEF Joined, Put
<1>3. {g[k] : k \in DOMAIN g} = {record}
  BY <1>1, Zenon
<1>4. IsFiniteSet(DOMAIN g)
  BY <1>1, FS_Singleton, Zenon
<1>5. Lie(g) /\ Whole(g) /\ Agree(store, g)
  BY <1>1, Zenon DEF Lie, Whole, Agree
<1> QED
  BY <1>2, <1>3, <1>4, <1>5, Zenon DEF Grows, g

\* The first n of the keys K with the first n of the records R.
Keyed(K, R, n) == [k \in {K[i] : i \in 0..(n - 1)} |-> R[CHOOSE i \in 0..(n - 1) : K[i] = k]]
Distinct(K, n) == \A i, j \in 0..(n - 1) : K[i] = K[j] => i = j

\* f is that: under each key, the record of its number.
Keys(f, K, R, n) ==
    DOMAIN f = {K[i] : i \in 0..(n - 1)} /\ \A i \in 0..(n - 1) : f[K[i]] = R[i]

\* Under each of these keys lies its record.
LEMMA KeyedIs ==
    ASSUME NEW n, NEW K, NEW R, Distinct(K, n)
    PROVE  Keys(Keyed(K, R, n), K, R, n)
<1>1. DOMAIN Keyed(K, R, n) = {K[i] : i \in 0..(n - 1)}
  BY Zenon DEF Keyed
<1>2. ASSUME NEW i \in 0..(n - 1) PROVE Keyed(K, R, n)[K[i]] = R[i]
  <2> DEFINE j == CHOOSE j \in 0..(n - 1) : K[j] = K[i]
  <2>1. j \in 0..(n - 1) /\ K[j] = K[i]
    BY Zenon
  <2>2. j = i
    BY <2>1, Zenon DEF Distinct
  <2>3. K[i] \in {K[l] : l \in 0..(n - 1)}
    BY Zenon
  <2>4. Keyed(K, R, n)[K[i]] = R[j]
    BY <2>3, Zenon DEF Keyed
  <2> QED
    BY <2>2, <2>4, Zenon
<1> QED
  BY <1>1, <1>2, Zenon DEF Keys

\* One record after the other.
LEMMA KeyedStep ==
    ASSUME NEW f, NEW n \in Nat, n > 0, NEW K, NEW R, Distinct(K, n)
    PROVE  Joined(f, Keyed(K, R, n)) = Put(Joined(f, Keyed(K, R, n - 1)), K[n - 1], R[n - 1])
<1> DEFINE g == Keyed(K, R, n)
           h == Keyed(K, R, n - 1)
           p == Put(Joined(f, h), K[n - 1], R[n - 1])
<1>1. /\ n - 1 \in Nat /\ n - 1 \in 0..(n - 1) /\ 0..((n - 1) - 1) \subseteq 0..(n - 1)
      /\ \A i \in 0..((n - 1) - 1) : i # n - 1
      /\ \A i \in 0..(n - 1) : i # n - 1 => i \in 0..((n - 1) - 1)
  OBVIOUS
<1>2. Distinct(K, n - 1)
  BY <1>1, Zenon DEF Distinct
<1>3. DOMAIN g = {K[i] : i \in 0..(n - 1)} /\ \A i \in 0..(n - 1) : g[K[i]] = R[i]
  <2>1. Keys(g, K, R, n)
    BY KeyedIs, Zenon
  <2> HIDE DEF g
  <2> QED
    BY <2>1, Zenon DEF Keys
<1>4. DOMAIN h = {K[i] : i \in 0..((n - 1) - 1)} /\ \A i \in 0..((n - 1) - 1) : h[K[i]] = R[i]
  <2>1. Keys(h, K, R, n - 1)
    BY <1>2, KeyedIs, Zenon
  <2> HIDE DEF h
  <2> QED
    BY <2>1, Zenon DEF Keys
<1> HIDE DEF g, h
<1>5. DOMAIN g = DOMAIN h \cup {K[n - 1]}
  BY <1>1, <1>3, <1>4, Zenon
<1>6. \A k \in DOMAIN h : k # K[n - 1] /\ g[k] = h[k]
  BY <1>1, <1>3, <1>4 DEF Distinct
<1>7. g[K[n - 1]] = R[n - 1]
  BY <1>1, <1>3, Zenon
<1>8. Joined(f, g) = p
  BY <1>5, <1>6, <1>7, Zenon DEF Joined, Put
<1> QED
  BY <1>8, Zenon DEF g, h

\* What RegisterModule puts: the parts' keys, their records, the one under the other.
PartKeys(ns, m, parts) == [i \in 0..(parts - 1) |-> getModulePartKey(ns, m, i)]
PartRecords(ns, m, parts) == [i \in 0..(parts - 1) |-> Part(ns, m, parts, i)]
NewParts(ns, m, parts) == Keyed(PartKeys(ns, m, parts), PartRecords(ns, m, parts), parts)

\* The parts of a module have keys of their own.
LEMMA PartsDistinct ==
    ASSUME NEW ns \in Namespaces, NEW m \in Modules, NEW parts \in PartCounts
    PROVE  Distinct(PartKeys(ns, m, parts), parts)
<1> SUFFICES ASSUME NEW i \in 0..(parts - 1), NEW j \in 0..(parts - 1),
                    getModulePartKey(ns, m, i) = getModulePartKey(ns, m, j)
             PROVE  i = j
  BY Zenon DEF Distinct, PartKeys
<1>1. ns \in Bytes /\ m \in Bytes /\ i \in PartNumbers /\ j \in PartNumbers
  BY Names, Zenon
<1> QED
  BY <1>1, PartKeyInjective

\* RegisterModule puts the parts one after the other and so all of them.
LEMMA RegisterPuts ==
    ASSUME NEW ns \in Namespaces, NEW m \in Modules, NEW parts \in PartCounts,
           store = [k \in DOMAIN store |-> store[k]], RegisterModule(ns, m, parts)
    PROVE  store' = Joined(store, NewParts(ns, m, parts))
<1> DEFINE K == PartKeys(ns, m, parts)
           R == PartRecords(ns, m, parts)
           f == [n \in 0..parts |-> Joined(store, Keyed(K, R, n))]
           Filled(p) == p = [n \in 0..parts |->
                               IF n = 0
                               THEN store
                               ELSE Put(p[n - 1], getModulePartKey(ns, m, n - 1),
                                        Part(ns, m, parts, n - 1))]
<1>1. parts \in Nat \ {0}
  BY Names, Zenon
<1>2. Distinct(K, parts)
  BY PartsDistinct, Zenon
<1>3. \A n \in 1..parts : /\ K[n - 1] = getModulePartKey(ns, m, n - 1)
                          /\ R[n - 1] = Part(ns, m, parts, n - 1)
  BY <1>1 DEF PartKeys, PartRecords
<1> HIDE DEF K, R
<1>4. f[0] = store
  <2>1. DOMAIN Keyed(K, R, 0) = {}
    BY DEF Keyed
  <2>2. Joined(store, Keyed(K, R, 0)) = [k \in DOMAIN store |-> store[k]]
    BY <2>1, Zenon DEF Joined
  <2>3. 0 \in 0..parts
    BY <1>1
  <2> QED
    BY <2>2, <2>3, Zenon
<1>5. ASSUME NEW n \in 1..parts
      PROVE  f[n] = Put(f[n - 1], getModulePartKey(ns, m, n - 1), Part(ns, m, parts, n - 1))
  <2>1. n \in Nat /\ n > 0 /\ 0..(n - 1) \subseteq 0..(parts - 1)
    BY <1>1
  <2>2. Distinct(K, n)
    BY <1>2, <2>1, Zenon DEF Distinct
  <2>3. Joined(store, Keyed(K, R, n)) = Put(Joined(store, Keyed(K, R, n - 1)), K[n - 1], R[n - 1])
    BY <2>1, <2>2, KeyedStep
  <2>4. n \in 0..parts /\ n - 1 \in 0..parts
    BY <1>1
  <2> QED
    BY <1>3, <2>3, <2>4, Zenon
<1> HIDE DEF f
<1>6. Filled(f)
  <2>1. f = [n \in 0..parts |-> f[n]]
    BY Zenon DEF f
  <2>2. \A n \in 0..parts : f[n] = IF n = 0 THEN store
                               ELSE Put(f[n - 1], getModulePartKey(ns, m, n - 1),
                                        Part(ns, m, parts, n - 1))
    <3> SUFFICES ASSUME NEW n \in 0..parts
                 PROVE  f[n] = IF n = 0 THEN store
                               ELSE Put(f[n - 1], getModulePartKey(ns, m, n - 1),
                                        Part(ns, m, parts, n - 1))
      BY Zenon
    <3>1. n # 0 => n \in 1..parts
      BY <1>1
    <3> QED
      BY <1>4, <1>5, <3>1, Zenon
  <2> QED
    BY <2>1, <2>2, Zenon
<1> DEFINE put == CHOOSE p : Filled(p)
<1>7. Filled(put)
  BY <1>6, Zenon
<1>8. store' = put[parts]
  BY Zenon DEF RegisterModule
<1> HIDE DEF put
<1>9. put[0] = f[0]
  <2>1. 0 \in 0..parts
    BY <1>1
  <2> QED
    BY <1>4, <1>7, <2>1, Zenon
<1>10. ASSUME NEW n \in 1..parts, put[n - 1] = f[n - 1] PROVE put[n] = f[n]
  <2>1. n \in 0..parts /\ n # 0
    BY <1>1
  <2>2. put[n] = Put(put[n - 1], getModulePartKey(ns, m, n - 1), Part(ns, m, parts, n - 1))
    BY <1>7, <2>1, Zenon
  <2> QED
    BY <1>5, <1>10, <2>2, Zenon
<1>11. put[parts] = f[parts]
  <2>1. parts \in Nat /\ parts \in 0..parts
    BY <1>1
  <2>2. \A n \in 0..parts : put[n] = f[n]
    BY <1>9, <1>10, <2>1, StepwiseUnique
  <2> QED
    BY <2>1, <2>2, Zenon
<1>12. f[parts] = Joined(store, Keyed(K, R, parts))
  <2>1. parts \in 0..parts
    BY <1>1
  <2> QED
    BY <2>1, Zenon DEF f
<1> QED
  BY <1>8, <1>11, <1>12, Zenon DEF NewParts, K, R

\* What RegisterModule puts.
LEMMA NewPartsAre ==
    ASSUME NEW ns \in Namespaces, NEW m \in Modules, NEW parts \in PartCounts
    PROVE  /\ DOMAIN NewParts(ns, m, parts)
                = {getModulePartKey(ns, m, i) : i \in 0..(parts - 1)}
           /\ \A i \in 0..(parts - 1) :
                NewParts(ns, m, parts)[getModulePartKey(ns, m, i)] = Part(ns, m, parts, i)
<1> DEFINE K == PartKeys(ns, m, parts)
           R == PartRecords(ns, m, parts)
           f == NewParts(ns, m, parts)
<1>1. Keys(f, K, R, parts)
  BY PartsDistinct, KeyedIs, Zenon DEF NewParts
<1>2. \A i \in 0..(parts - 1) : K[i] = getModulePartKey(ns, m, i) /\ R[i] = Part(ns, m, parts, i)
  BY Zenon DEF PartKeys, PartRecords
<1> HIDE DEF K, R, f
<1>3. DOMAIN f = {getModulePartKey(ns, m, i) : i \in 0..(parts - 1)}
  BY <1>1, <1>2 DEF Keys
<1>4. \A i \in 0..(parts - 1) : f[getModulePartKey(ns, m, i)] = Part(ns, m, parts, i)
  BY <1>1, <1>2, Zenon DEF Keys
<1> QED
  BY <1>3, <1>4, Zenon DEF f

\* A module of which no first part is there has no part there.
LEMMA NoneOfModule ==
    ASSUME KeyInv, NEW ns \in Bytes, NEW m \in Bytes,
           getModulePartKey(ns, m, 0) \notin DOMAIN store, NEW i \in PartNumbers
    PROVE  getModulePartKey(ns, m, i) \notin DOMAIN store
<1> DEFINE k == getModulePartKey(ns, m, i)
<1> SUFFICES ASSUME k \in DOMAIN store PROVE FALSE
  BY Zenon
<1>1. Lies(store[k], k)
  BY Zenon DEF KeyInv, Lie
<1>2. PICK n \in PartCounts : i \in 0..(n - 1) /\ store[k] = Part(ns, m, n, i)
  BY <1>1, AtPartKey
<1>3. 0 \in 0..(n - 1)
  BY Names, Zenon
<1>4. /\ store[k].type = "part" /\ store[k].namespace = ns /\ store[k].id = m
      /\ store[k].parts = n
  BY <1>2 DEF Part
<1> HIDE DEF k
<1>5. getModulePartKey(store[k].namespace, store[k].id, 0) \in DOMAIN store
  BY <1>3, <1>4, Zenon DEF KeyInv, Whole
<1> QED
  BY <1>4, <1>5, Zenon

\* RegisterModule puts a whole module where none of it lies.
LEMMA RegisterGrows ==
    ASSUME KeyInv, NEW ns \in Namespaces, NEW m \in Modules, NEW parts \in PartCounts,
           RegisterModule(ns, m, parts)
    PROVE  Grows(NewParts(ns, m, parts))
<1> DEFINE f == NewParts(ns, m, parts)
<1>1. store' = Joined(store, f)
  BY RegisterPuts, Zenon DEF KeyInv
<1>2. /\ DOMAIN f = {getModulePartKey(ns, m, i) : i \in 0..(parts - 1)}
      /\ \A i \in 0..(parts - 1) : f[getModulePartKey(ns, m, i)] = Part(ns, m, parts, i)
  BY NewPartsAre, Zenon
<1> HIDE DEF f
<1>3. written' = written \cup {f[k] : k \in DOMAIN f}
  <2>1. {f[k] : k \in DOMAIN f} = {Part(ns, m, parts, i) : i \in 0..(parts - 1)}
    BY <1>2, Zenon
  <2> QED
    BY <2>1, Zenon DEF RegisterModule
<1>4. IsFiniteSet(DOMAIN f)
  <2>1. IsFiniteSet(0..(parts - 1))
    BY Names, FS_Interval
  <2> DEFINE g == [i \in 0..(parts - 1) |-> getModulePartKey(ns, m, i)]
  <2>2. g \in Surjection(0..(parts - 1), DOMAIN f)
    BY <1>2, Zenon DEF Surjection
  <2> HIDE DEF g
  <2> QED
    BY <2>1, <2>2, FS_Surjection, Zenon
<1>5. Lie(f)
  BY <1>2, Zenon DEF Lie, Lies, PartLies
<1>6. Whole(f)
  <2> SUFFICES ASSUME NEW k \in DOMAIN f, NEW j \in 0..(f[k].parts - 1)
               PROVE  LET key == getModulePartKey(f[k].namespace, f[k].id, j)
                      IN  key \in DOMAIN f
                          /\ f[key] = Part(f[k].namespace, f[k].id, f[k].parts, j)
    BY Zenon DEF Whole
  <2>1. PICK i \in 0..(parts - 1) : k = getModulePartKey(ns, m, i)
    BY <1>2, Zenon
  <2>2. f[k] = Part(ns, m, parts, i)
    BY <1>2, <2>1, Zenon
  <2>3. f[k].namespace = ns /\ f[k].id = m /\ f[k].parts = parts
    BY <2>2 DEF Part
  <2>4. getModulePartKey(ns, m, j) \in DOMAIN f
        /\ f[getModulePartKey(ns, m, j)] = Part(ns, m, parts, j)
    BY <1>2, <2>3, Zenon
  <2> QED
    BY <2>3, <2>4, Zenon
<1>7. Agree(store, f)
  <2> SUFFICES ASSUME NEW k \in DOMAIN f PROVE k \notin DOMAIN store
    BY Zenon DEF Agree
  <2>1. PICK i \in 0..(parts - 1) : k = getModulePartKey(ns, m, i)
    BY <1>2, Zenon
  <2>2. ns \in Bytes /\ m \in Bytes /\ i \in PartNumbers
    BY Names, Zenon
  <2>3. getModulePartKey(ns, m, 0) \notin DOMAIN store
    BY Zenon DEF RegisterModule, Exists
  <2> QED
    BY <2>1, <2>2, <2>3, NoneOfModule, Zenon
<1> QED
  BY <1>1, <1>3, <1>4, <1>5, <1>6, <1>7, Zenon DEF Grows, f

\* CreateActor puts an actor where none lies.
LEMMA CreateGrows ==
    ASSUME NEW ns \in Namespaces, NEW a \in ActorIDs, NEW m \in Modules, CreateActor(ns, a, m)
    PROVE  \E new : Grows(new)
<1> DEFINE key == getActorKey(ns, a, m)
           record == ActorRecord(ns, a, m)
<1>1. /\ key \notin DOMAIN store
      /\ store' = Put(store, key, record) /\ written' = written \cup {record}
  BY Zenon DEF CreateActor, Exists, ActorRecord
<1>2. Lies(record, key)
  BY Zenon DEF Lies, ActorLies
<1>3. record.type # "part"
  BY Zenon DEF ActorRecord
<1> HIDE DEF key, record
<1> QED
  BY <1>1, <1>2, <1>3, PutGrows, Zenon

\* A put of a storage finds nothing or what it puts.
LEMMA StorageGrows ==
    ASSUME KeyInv, NEW ns \in Namespaces, NEW a \in ActorIDs, NEW m \in Modules,
           NEW k \in StorageKeys, PutStorage(ns, a, m, k)
    PROVE  \E new : Grows(new)
<1> DEFINE key == getActoKVKey(ns, a, m, k)
           record == StorageRecord(ns, a, m, k)
<1>1. store' = Put(store, key, record) /\ written' = written \cup {record}
  BY Zenon DEF PutStorage, StorageRecord
<1>2. Lies(record, key)
  BY Zenon DEF Lies, StorageLies
<1>3. record.type # "part"
  BY Zenon DEF StorageRecord
<1>4. key \in DOMAIN store => store[key] = record
  <2>1. ns \in Bytes /\ a \in Bytes /\ m \in Bytes /\ k \in Bytes
    BY Names, Zenon
  <2>2. key \in DOMAIN store => Lies(store[key], key)
    BY Zenon DEF KeyInv, Lie
  <2> QED
    BY <2>1, <2>2, AtStorageKey, Zenon
<1> HIDE DEF key, record
<1> QED
  BY <1>1, <1>2, <1>3, <1>4, PutGrows, Zenon

\* And so does a heartbeat.
LEMMA HeartbeatGrows ==
    ASSUME KeyInv, NEW s \in Servers, Heartbeat(s)
    PROVE  \E new : Grows(new)
<1> DEFINE key == getServerKey(s)
           record == ServerRecord(s)
<1>1. store' = Put(store, key, record) /\ written' = written \cup {record}
  BY Zenon DEF Heartbeat, ServerRecord
<1>2. Lies(record, key)
  BY Zenon DEF Lies, ServerLies
<1>3. record.type # "part"
  BY Zenon DEF ServerRecord
<1>4. key \in DOMAIN store => store[key] = record
  <2>1. s \in Bytes
    BY Names, Zenon
  <2>2. key \in DOMAIN store => Lies(store[key], key)
    BY Zenon DEF KeyInv, Lie
  <2> QED
    BY <2>1, <2>2, AtServerKey, Zenon
<1> HIDE DEF key, record
<1> QED
  BY <1>1, <1>2, <1>3, <1>4, PutGrows, Zenon

\* Whatever the registry does adds to the store.
LEMMA NextGrows ==
    ASSUME KeyInv, Next
    PROVE  \E new : Grows(new)
<1>1. CASE \E ns \in Namespaces, m \in Modules, n \in PartCounts : RegisterModule(ns, m, n)
  BY <1>1, RegisterGrows, Zenon
<1>2. CASE \E ns \in Namespaces, a \in ActorIDs, m \in Modules : CreateActor(ns, a, m)
  BY <1>2, CreateGrows, Zenon
<1>3. CASE \E ns \in Namespaces, a \in ActorIDs, m \in Modules, k \in StorageKeys :
             PutStorage(ns, a, m, k)
  BY <1>3, StorageGrows, Zenon
<1>4. CASE \E s \in Servers : Heartbeat(s)
  BY <1>4, HeartbeatGrows, Zenon
<1> QED
  BY <1>1, <1>2, <1>3, <1>4, Zenon DEF Next

\* The invariant is inductive.
LEMMA KeyInvHolds == Spec => []KeyInv
<1>1. Init => KeyInv
  <2> SUFFICES ASSUME Init PROVE KeyInv
    BY Zenon
  <2>1. store = <<>> /\ DOMAIN store = {} /\ written = {}
    BY DEF Init
  <2>2. store = [k \in DOMAIN store |-> store[k]]
    BY <2>1
  <2>3. IsFiniteSet(DOMAIN store)
    BY <2>1, FS_EmptySet, Zenon
  <2>4. Lie(store) /\ Whole(store) /\ RecordsKeepTheirKeys
    BY <2>1, Zenon DEF Lie, Whole, RecordsKeepTheirKeys
  <2> QED
    BY <2>2, <2>3, <2>4, Zenon DEF KeyInv
<1>2. KeyInv /\ [Next]_vars => KeyInv'
  <2>1. ASSUME KeyInv, Next PROVE KeyInv'
    BY <2>1, NextGrows, GrowsKeeps, Zenon
  <2>2. ASSUME KeyInv, UNCHANGED vars PROVE KeyInv'
    BY <2>2, Zenon DEF vars, KeyInv, Lie, Whole, RecordsKeepTheirKeys
  <2> QED
    BY <2>1, <2>2, Zenon
<1> QED
  BY <1>1, <1>2, PTL DEF Spec

\* Whatever byte strings the names are and however many parts a module takes,
\* no two records share a key: what RegisterModule, CreateActor, a put of an
\* actor's storage or a heartbeat has written stays in the store.
THEOREM KeysAreApart == Spec => []RecordsKeepTheirKeys
<1>1. KeyInv => RecordsKeepTheirKeys
  BY Zenon DEF KeyInv
<1> QED
  BY <1>1, KeyInvHolds, PTL

\* A key keeps the record it was first used for: the store's values stand for whose
\* record it is, so a later heartbeat or put of the same entry changes nothing here.
RecordsStay == \A k \in DOMAIN store : k \in DOMAIN store' /\ store'[k] = store[k]

\* RegisterModule, createActor, a put of an actor and Heartbeat (kv_registry.go) remove
\* no record from the store, and put no other's in its place.
THEOREM NothingIsOverwritten == Spec => [][RecordsStay]_vars
<1>1. KeyInv /\ [Next]_vars => [RecordsStay]_vars
  <2> SUFFICES ASSUME KeyInv, Next PROVE RecordsStay
    BY Zenon
  <2>1. PICK new : Grows(new)
    BY NextGrows, Zenon
  <2>2. Both(store', store, new)
    BY <2>1, JoinedIs, Zenon DEF Grows
  <2>3. DOMAIN store' = DOMAIN store \cup DOMAIN new
    BY <2>2, Zenon DEF Both
  <2> QED
    BY <2>2, <2>3, Zenon DEF Both, RecordsStay
<1> QED
  BY <1>1, KeyInvHolds, PTL DEF Spec

-----------------------------------------------------------------------------
(* Prefixes and the order of the keys.                                     *)

\* A byte string that begins with p does not come before it.
LEMMA PrefixNotLess ==
    ASSUME NEW p \in Bytes, NEW k \in Bytes, HasPrefix(k, p)
    PROVE  ~ BytesLess(k, p)
<1>1. /\ Len(p) \in Nat /\ DOMAIN p = 1..Len(p) /\ \A i \in 1..Len(p) : p[i] \in Nat
      /\ Len(k) \in Nat /\ DOMAIN k = 1..Len(k) /\ \A i \in 1..Len(k) : k[i] \in Nat
  BY BytesAre, Zenon
<1> QED
  BY <1>1 DEF HasPrefix, BytesLess

\* Whatever lies from p up to a byte string that begins with p begins with it too.
LEMMA PrefixBetween ==
    ASSUME NEW p \in Bytes, NEW j \in Bytes, NEW k \in Bytes, HasPrefix(k, p),
           ~ BytesLess(j, p), ~ BytesLess(k, j)
    PROVE  HasPrefix(j, p)
<1> SUFFICES ASSUME ~ HasPrefix(j, p) PROVE FALSE
  BY Zenon
<1>1. j # p
  BY PrefixSelf, Zenon
<1>2. BytesLess(p, j)
  BY <1>1, LessTotal, Zenon
<1>3. PICK i \in DOMAIN p \cap DOMAIN j : p[i] < j[i] /\ \A l \in 1..(i - 1) : p[l] = j[l]
  BY <1>2, Zenon DEF BytesLess
<1>4. /\ Len(p) \in Nat /\ DOMAIN p = 1..Len(p)
      /\ Len(k) \in Nat /\ DOMAIN k = 1..Len(k)
  BY BytesAre, Zenon
<1>5. Len(p) <= Len(k) /\ \A l \in 1..Len(p) : k[l] = p[l]
  BY <1>4, Zenon DEF HasPrefix
<1>6. i \in DOMAIN k \cap DOMAIN j /\ k[i] < j[i] /\ \A l \in 1..(i - 1) : k[l] = j[l]
  BY <1>3, <1>4, <1>5
<1> QED
  BY <1>6, Zenon DEF BytesLess

\* The iteration over a prefix takes the keys that begin with it.
LEMMA KeysFromPrefix ==
    ASSUME DOMAIN store \subseteq Bytes, NEW p \in Bytes
    PROVE  KeysFrom(p) = {k \in DOMAIN store : HasPrefix(k, p)}
<1>1. ASSUME NEW k \in KeysFrom(p) PROVE k \in DOMAIN store /\ HasPrefix(k, p)
  <2>1. /\ k \in DOMAIN store /\ ~ BytesLess(k, p)
        /\ \A j \in {j \in DOMAIN store : ~ BytesLess(j, p)} :
              ~ BytesLess(k, j) => HasPrefix(j, p)
    BY Zenon DEF KeysFrom
  <2>2. ~ BytesLess(k, k)
    BY <2>1, LessIrreflexive, Zenon
  <2> QED
    BY <2>1, <2>2, Zenon
<1>2. ASSUME NEW k \in DOMAIN store, HasPrefix(k, p) PROVE k \in KeysFrom(p)
  <2>1. ~ BytesLess(k, p)
    BY <1>2, PrefixNotLess, Zenon
  <2>2. \A j \in DOMAIN store : ~ BytesLess(j, p) /\ ~ BytesLess(k, j) => HasPrefix(j, p)
    BY <1>2, PrefixBetween, Zenon
  <2> QED
    BY <2>1, <2>2, Zenon DEF KeysFrom
<1> QED
  BY <1>1, <1>2, Zenon

\* The keys below a key.
Below(k, keys) == {j \in keys : BytesLess(j, k)}

\* Finitely many keys have different ranks, from 1 up to their number.
LEMMA RankBijection ==
    ASSUME NEW keys, keys \subseteq Bytes, IsFiniteSet(keys)
    PROVE  /\ Cardinality(keys) \in Nat
           /\ \A k \in keys : Rank(k, keys) \in 1..Cardinality(keys)
           /\ \A n \in 1..Cardinality(keys) : \E k \in keys : Rank(k, keys) = n
           /\ \A j, k \in keys : Rank(j, keys) = Rank(k, keys) => j = k
<1> DEFINE N == Cardinality(keys)
           R == [k \in keys |-> Rank(k, keys)]
<1>1. N \in Nat
  BY FS_CardinalityType, Zenon
<1>2. ASSUME NEW k \in keys
      PROVE  /\ IsFiniteSet(Below(k, keys)) /\ Cardinality(Below(k, keys)) \in Nat
             /\ Cardinality(Below(k, keys)) < N
  <2>1. k \notin Below(k, keys) /\ Below(k, keys) \in SUBSET keys
    BY LessIrreflexive, Zenon DEF Below
  <2>2. /\ IsFiniteSet(Below(k, keys)) /\ Cardinality(Below(k, keys)) <= N
        /\ (N = Cardinality(Below(k, keys)) => keys = Below(k, keys))
    BY <2>1, FS_Subset, Zenon
  <2>3. Cardinality(Below(k, keys)) \in Nat
    BY <2>2, FS_CardinalityType, Zenon
  <2>4. Cardinality(Below(k, keys)) # N
    BY <2>1, <2>2, Zenon
  <2> HIDE DEF N
  <2> QED
    BY <1>1, <2>2, <2>3, <2>4
<1>3. ASSUME NEW j \in keys, NEW k \in keys, BytesLess(j, k)
      PROVE  Cardinality(Below(j, keys)) # Cardinality(Below(k, keys))
  <2>1. j \in Below(k, keys) /\ j \notin Below(j, keys)
    BY <1>3, LessIrreflexive, Zenon DEF Below
  <2>2. Below(j, keys) \in SUBSET Below(k, keys)
    <3> SUFFICES ASSUME NEW i \in keys, BytesLess(i, j) PROVE BytesLess(i, k)
      BY Zenon DEF Below
    <3> QED
      BY <1>3, LessTransitive, Zenon
  <2>3. IsFiniteSet(Below(k, keys))
    BY <1>2, Zenon
  <2>4. Cardinality(Below(k, keys)) = Cardinality(Below(j, keys))
          => Below(k, keys) = Below(j, keys)
    BY <2>2, <2>3, FS_Subset, Zenon
  <2> QED
    BY <2>1, <2>4, Zenon
<1>4. \A j, k \in keys : Rank(j, keys) = Rank(k, keys) => j = k
  <2> SUFFICES ASSUME NEW j \in keys, NEW k \in keys, Rank(j, keys) = Rank(k, keys), j # k
               PROVE  FALSE
    BY Zenon
  <2>1. BytesLess(j, k) \/ BytesLess(k, j)
    BY LessTotal, Zenon
  <2>2. Cardinality(Below(j, keys)) # Cardinality(Below(k, keys))
    BY <1>3, <2>1, Zenon
  <2>3. Cardinality(Below(j, keys)) \in Nat /\ Cardinality(Below(k, keys)) \in Nat
    BY <1>2, Zenon
  <2>4. Cardinality(Below(j, keys)) + 1 = Cardinality(Below(k, keys)) + 1
    BY Zenon DEF Rank, Below
  <2> QED
    BY <2>2, <2>3, <2>4
<1>5. \A k \in keys : Rank(k, keys) \in 1..N
  <2> SUFFICES ASSUME NEW k \in keys PROVE Rank(k, keys) \in 1..N
    BY Zenon
  <2>1. Cardinality(Below(k, keys)) \in Nat /\ Cardinality(Below(k, keys)) < N
    BY <1>2, Zenon
  <2>2. Rank(k, keys) = Cardinality(Below(k, keys)) + 1
    BY Zenon DEF Rank, Below
  <2> HIDE DEF N
  <2> QED
    BY <1>1, <2>1, <2>2
<1>6. R \in Injection(keys, 1..N)
  BY <1>4, <1>5, Zenon DEF Injection, IsInjective
<1>7. IsFiniteSet(1..N) /\ Cardinality(1..N) = N
  <2> HIDE DEF N
  <2> QED
    BY <1>1, FS_Interval
<1> HIDE DEF R
<1>8. R \in Surjection(keys, 1..N)
  BY <1>6, <1>7, FS_Injection, Zenon
<1>9. \A n \in 1..N : \E k \in keys : R[k] = n
  BY <1>8, Zenon DEF Surjection
<1>10. \A n \in 1..N : \E k \in keys : Rank(k, keys) = n
  BY <1>9, Zenon DEF R
<1> QED
  BY <1>1, <1>4, <1>5, <1>10, Zenon

\* What IterPrefix reads: the records under the keys, each at its key's place.
Iterates(found, keys) ==
    /\ DOMAIN found = 1..Cardinality(keys)
    /\ Len(found) = Cardinality(keys)
    /\ \A k \in keys : found[Rank(k, keys)] = store[k]
    /\ Range(found) = {store[k] : k \in keys}

\* That is what IterPrefix computes from a finite store.
LEMMA IterIs ==
    ASSUME DOMAIN store \subseteq Bytes, IsFiniteSet(DOMAIN store), NEW p
    PROVE  Iterates(IterPrefix(p), KeysFrom(p))
<1> DEFINE keys == KeysFrom(p)
           N == Cardinality(keys)
           At(n) == CHOOSE k \in keys : Rank(k, keys) = n
           found == [n \in 1..N |-> store[At(n)]]
<1>1. keys \subseteq DOMAIN store
  BY Zenon DEF KeysFrom
<1>2. IsFiniteSet(keys) /\ keys \subseteq Bytes
  BY <1>1, FS_Subset, Zenon
<1>3. IterPrefix(p) = found
  BY Zenon DEF IterPrefix
<1> HIDE DEF keys
<1>4. /\ N \in Nat
      /\ \A k \in keys : Rank(k, keys) \in 1..N
      /\ \A n \in 1..N : \E k \in keys : Rank(k, keys) = n
      /\ \A j, k \in keys : Rank(j, keys) = Rank(k, keys) => j = k
  BY <1>2, RankBijection, Zenon
<1> HIDE DEF N
<1>5. \A n \in 1..N : At(n) \in keys /\ Rank(At(n), keys) = n
  BY <1>4, Zenon
<1>6. \A k \in keys : At(Rank(k, keys)) = k
  BY <1>4, <1>5, Zenon
<1> HIDE DEF At
<1>7. DOMAIN found = 1..N /\ \A n \in 1..N : found[n] = store[At(n)]
  BY Zenon
<1>8. Len(found) = N
  BY <1>4
<1> HIDE DEF found
<1>9. \A k \in keys : found[Rank(k, keys)] = store[k]
  BY <1>4, <1>6, <1>7, Zenon
<1>10. {found[n] : n \in DOMAIN found} = {store[k] : k \in keys}
  <2>1. ASSUME NEW n \in 1..N PROVE found[n] \in {store[k] : k \in keys}
    BY <1>5, <1>7, Zenon
  <2>2. ASSUME NEW k \in keys PROVE store[k] \in {found[n] : n \in DOMAIN found}
    BY <1>4, <1>7, <1>9, Zenon
  <2> QED
    BY <1>7, <2>1, <2>2, Zenon
<1>11. Range(found) = {store[k] : k \in keys}
  BY <1>10, Zenon DEF Range
<1>12. Iterates(found, keys)
  BY <1>7, <1>8, <1>9, <1>11, Zenon DEF Iterates, N
<1> QED
  BY <1>3, <1>12, Zenon DEF keys

\* A byte string in front of both changes nothing about a prefix.
LEMMA PrefixAfter ==
    ASSUME NEW w \in Bytes, NEW s \in Bytes, NEW t \in Bytes, HasPrefix(t, s)
    PROVE  HasPrefix(w \o t, w \o s)
<1>1. /\ Len(w \o t) = Len(w) + Len(t) /\ Len(w \o s) = Len(w) + Len(s)
      /\ Len(w) \in Nat /\ Len(s) \in Nat /\ Len(t) \in Nat
      /\ DOMAIN (w \o s) = 1..(Len(w) + Len(s)) /\ DOMAIN s = 1..Len(s)
  BY DEF Bytes
<1>2. Len(s) <= Len(t) /\ \A i \in 1..Len(s) : t[i] = s[i]
  BY <1>1, Zenon DEF HasPrefix
<1>3. ASSUME NEW i \in 1..(Len(w) + Len(s)) PROVE (w \o t)[i] = (w \o s)[i]
  <2>1. CASE i <= Len(w)
    BY <1>1, <1>2, <2>1 DEF Bytes
  <2>2. CASE i > Len(w)
    <3>1. i - Len(w) \in 1..Len(s)
      BY <1>1, <2>2
    <3>2. (w \o t)[i] = t[i - Len(w)] /\ (w \o s)[i] = s[i - Len(w)]
      BY <1>1, <1>2, <2>2, <3>1 DEF Bytes
    <3> QED
      BY <1>2, <3>1, <3>2, Zenon
  <2>3. i <= Len(w) \/ i > Len(w)
    BY <1>1
  <2> QED
    BY <2>1, <2>2, <2>3, Zenon
<1> QED
  BY <1>1, <1>2, <1>3 DEF HasPrefix

\* A field in front of both changes neither a prefix nor the order.
LEMMA FieldAfter ==
    ASSUME NEW b \in Bytes, NEW s \in Bytes, NEW t \in Bytes
    PROVE  /\ Field(2, b, s) \in Bytes /\ Field(2, b, t) \in Bytes
           /\ HasPrefix(t, s) => HasPrefix(Field(2, b, t), Field(2, b, s))
           /\ BytesLess(s, t) => BytesLess(Field(2, b, s), Field(2, b, t))
<1> DEFINE w == encodeBytes(2, b)
<1>1. 2 \in Byte
  BY DEF Byte
<1>2. w \in Bytes /\ w \o s = Field(2, b, s) /\ w \o t = Field(2, b, t)
  BY <1>1, FieldDef, Zenon
<1> HIDE DEF w
<1>3. w \o s \in Bytes /\ w \o t \in Bytes
  <2>1. w \in Bytes
    BY <1>2, Zenon
  <2> QED
    BY <2>1 DEF Bytes
<1>4. HasPrefix(t, s) => HasPrefix(w \o t, w \o s)
  BY <1>2, PrefixAfter, Zenon
<1>5. BytesLess(s, t) => BytesLess(w \o s, w \o t)
  BY <1>2, LessAfter, Zenon
<1> QED
  BY <1>2, <1>3, <1>4, <1>5, Zenon

\* Where a string that goes on begins with one, it is that one.
LEMMA StringPrefix ==
    ASSUME NEW b \in Bytes, NEW c \in Bytes, NEW s, Unmarked(s), s # <<>>, NEW t, Unmarked(t),
           HasPrefix(Field(2, c, t), Field(2, b, s))
    PROVE  b = c /\ HasPrefix(t, s)
<1>1. 2 \in Byte /\ s \in Bytes
  BY DEF Byte, Unmarked
<1>2. Reads(b, c, s, t)
  BY <1>1, FieldPrefix, Zenon
<1> QED
  BY <1>2, Zenon DEF Reads

\* The last string of a prefix is the one at its place, or that goes on after it
\* with a zero byte.
LEMMA LastPrefix ==
    ASSUME NEW b \in Bytes, NEW c \in Bytes, NEW t, Unmarked(t),
           HasPrefix(Field(2, c, t), Field(2, b, <<>>))
    PROVE  b = c \/ HasPrefix(c, b \o <<0>>)
<1>1. 2 \in Byte /\ <<>> \in Bytes
  BY DEF Byte, Bytes
<1>2. Reads(b, c, <<>>, t)
  BY <1>1, FieldPrefix, Zenon
<1> QED
  BY <1>2, Zenon DEF Reads

-----------------------------------------------------------------------------
(* What lies under a prefix.                                               *)

\* Every key but a server's is a namespace and a word, and something after it.
Named(k, ns, word, rest) ==
    /\ ns \in Namespaces /\ word \in Bytes /\ Unmarked(rest)
    /\ k = Field(2, ns, Field(2, word, rest))

\* An actor and its storage are named by the word "actors".
LEMMA ActorNamed ==
    ASSUME NEW r, NEW k, ActorLies(r, k) \/ StorageLies(r, k)
    PROVE  /\ \E ns, rest : Named(k, ns, actors[2], rest)
           /\ r.type # "part" /\ r.type # "server"
<1>1. actors[2] \in Bytes /\ state[2] \in Bytes /\ kv[2] \in Bytes
  BY Words, Zenon
<1>2. ASSUME NEW ns \in Namespaces, NEW a \in ActorIDs, NEW m \in Modules, NEW x, Unmarked(x),
             k = ActorHead(ns, a, m, x)
      PROVE  \E n, rest : Named(k, n, actors[2], rest)
  <2> DEFINE x1 == Field(2, a, x)
             x2 == Field(2, m, x1)
  <2>1. ns \in Bytes /\ a \in Bytes /\ m \in Bytes
    BY Names, Zenon
  <2>2. Unmarked(x1)
    BY <1>2, <2>1, Follows, Zenon
  <2>3. k = Field(2, ns, Field(2, actors[2], x2))
    BY <1>2, Zenon DEF ActorHead
  <2> HIDE DEF x1
  <2>4. Unmarked(x2)
    BY <2>1, <2>2, Follows, Zenon
  <2> HIDE DEF x2
  <2>5. Named(k, ns, actors[2], x2)
    BY <1>1, <2>3, <2>4, Zenon DEF Named
  <2> QED
    BY <2>5, Zenon
<1>3. CASE ActorLies(r, k)
  <2>1. PICK ns \in Namespaces, a \in ActorIDs, m \in Modules :
          r = ActorRecord(ns, a, m) /\ k = getActorKey(ns, a, m)
    BY <1>3, Zenon DEF ActorLies
  <2>2. ns \in Bytes /\ a \in Bytes /\ m \in Bytes
    BY Names, Zenon
  <2> DEFINE x == Field(2, state[2], <<>>)
  <2>3. getActorKey(ns, a, m) = ActorHead(ns, a, m, x)
    BY <2>2, ActorFields, Zenon
  <2>4. Unmarked(x)
    BY <1>1, Follows, Zenon
  <2> HIDE DEF x
  <2>5. \E n, rest : Named(k, n, actors[2], rest)
    BY <1>2, <2>1, <2>3, <2>4, Zenon
  <2>6. r.type # "part" /\ r.type # "server"
    BY <2>1, Zenon DEF ActorRecord
  <2> QED
    BY <2>5, <2>6, Zenon
<1>4. CASE StorageLies(r, k)
  <2>1. PICK ns \in Namespaces, a \in ActorIDs, m \in Modules, key \in StorageKeys :
          r = StorageRecord(ns, a, m, key) /\ k = getActoKVKey(ns, a, m, key)
    BY <1>4, Zenon DEF StorageLies
  <2>2. ns \in Bytes /\ a \in Bytes /\ m \in Bytes /\ key \in Bytes
    BY Names, Zenon
  <2> DEFINE y == Field(1, key, <<>>)
             x == Field(2, kv[2], y)
  <2>3. StorageFields(ns, a, m, key)
    BY <2>2, ActorFields, Zenon
  <2>4. getActoKVKey(ns, a, m, key) = ActorHead(ns, a, m, x)
    BY <2>3, Zenon DEF StorageFields
  <2>5. Unmarked(y)
    BY <2>2, Follows, Zenon
  <2> HIDE DEF y
  <2>6. Unmarked(x)
    BY <1>1, <2>5, Follows, Zenon
  <2> HIDE DEF x
  <2>7. \E n, rest : Named(k, n, actors[2], rest)
    BY <1>2, <2>1, <2>4, <2>6, Zenon
  <2>8. r.type # "part" /\ r.type # "server"
    BY <2>1, Zenon DEF StorageRecord
  <2> QED
    BY <2>7, <2>8, Zenon
<1> QED
  BY <1>3, <1>4, Zenon

\* A part is named by the word "modules".
LEMMA PartNamed ==
    ASSUME NEW r, NEW k, PartLies(r, k)
    PROVE  \E ns, m, n, i : /\ ns \in Namespaces /\ m \in Modules
                            /\ n \in PartCounts /\ i \in 0..(n - 1)
                            /\ r = Part(ns, m, n, i) /\ k = getModulePartKey(ns, m, i)
                            /\ Unmarked(encodeUint(i))
                            /\ Named(k, ns, modules[2], Field(2, m, encodeUint(i)))
<1>1. PICK ns \in Namespaces, m \in Modules, n \in PartCounts : \E i \in 0..(n - 1) :
        r = Part(ns, m, n, i) /\ k = getModulePartKey(ns, m, i)
  BY Zenon DEF PartLies
<1>2. PICK i \in 0..(n - 1) : r = Part(ns, m, n, i) /\ k = getModulePartKey(ns, m, i)
  BY <1>1, Zenon
<1>3. ns \in Bytes /\ m \in Bytes /\ i \in PartNumbers /\ modules[2] \in Bytes
  BY Names, Words, Zenon
<1>4. Unmarked(encodeUint(i))
  BY <1>3, Follows, Zenon
<1> DEFINE x == Field(2, m, encodeUint(i))
<1>5. Unmarked(x)
  BY <1>3, <1>4, Follows, Zenon
<1>6. getModulePartKey(ns, m, i) = Field(2, ns, Field(2, modules[2], x))
  BY <1>3, ModuleFields, Zenon DEF PartNumbers
<1>7. Named(k, ns, modules[2], x)
  <2> HIDE DEF x
  <2> QED
    BY <1>2, <1>3, <1>5, <1>6, Zenon DEF Named
<1> QED
  BY <1>2, <1>4, <1>7, Zenon

\* The record r is a part of the module and lies under its key k.
IsPartOf(r, k, ns, m) ==
    \E n \in PartCounts : \E i \in 0..(n - 1) :
        r = Part(ns, m, n, i) /\ k = getModulePartKey(ns, m, i)

\* Under the prefix of a module lie the parts of that module only.
LEMMA UnderModule ==
    ASSUME NamesApart, NEW ns \in Namespaces, NEW m \in Modules, NEW r, NEW k, Lies(r, k),
           HasPrefix(k, getModulePrefix(ns, m))
    PROVE  IsPartOf(r, k, ns, m)
<1> DEFINE s1 == Field(2, m, <<>>)
           s2 == Field(2, modules[2], s1)
<1>1. ns \in Bytes /\ m \in Bytes
  BY Names, Zenon
<1>2. /\ modules[2] \in Bytes /\ actors[2] \in Bytes /\ modules[2] # actors[2]
      /\ servers[2] \in Bytes
  BY Words, Zenon
<1>3. Unmarked(<<>>) /\ Unmarked(s1) /\ s1 # <<>>
  BY <1>1, Follows, Zenon
<1>4. getModulePrefix(ns, m) = Field(2, ns, s2)
  BY <1>1, ModuleFields, Zenon
<1> HIDE DEF s1
<1>5. Unmarked(s2) /\ s2 # <<>>
  BY <1>2, <1>3, Follows, Zenon
<1> HIDE DEF s2
<1>6. ASSUME NEW n, NEW word, NEW rest, Named(k, n, word, rest)
      PROVE  n = ns /\ word = modules[2] /\ HasPrefix(rest, s1)
  <2> DEFINE t == Field(2, word, rest)
  <2>1. n \in Bytes /\ word \in Bytes /\ Unmarked(rest)
    BY <1>6, Names, Zenon DEF Named
  <2>2. Unmarked(t)
    BY <2>1, Follows, Zenon
  <2>3. k = Field(2, n, t)
    BY <1>6, Zenon DEF Named
  <2> HIDE DEF t
  <2>4. HasPrefix(Field(2, n, t), Field(2, ns, s2))
    BY <1>4, <2>3, Zenon
  <2>5. ns = n /\ HasPrefix(t, s2)
    BY <1>1, <1>5, <2>1, <2>2, <2>4, StringPrefix, Zenon
  <2>6. HasPrefix(Field(2, word, rest), Field(2, modules[2], s1))
    BY <2>5, Zenon DEF t, s2
  <2>7. modules[2] = word /\ HasPrefix(rest, s1)
    BY <1>2, <1>3, <2>1, <2>6, StringPrefix, Zenon
  <2> QED
    BY <2>5, <2>7, Zenon
<1>7. ASSUME ActorLies(r, k) \/ StorageLies(r, k) PROVE FALSE
  BY <1>2, <1>6, <1>7, ActorNamed, Zenon
<1>8. ASSUME ServerLies(r, k) PROVE FALSE
  <2>1. PICK s \in Servers : k = getServerKey(s)
    BY <1>8, Zenon DEF ServerLies
  <2>2. s \in Bytes
    BY Names, Zenon
  <2> DEFINE t == Field(2, s, <<>>)
  <2>3. Unmarked(t)
    BY <1>3, <2>2, Follows, Zenon
  <2>4. getServerKey(s) = Field(2, servers[2], t)
    BY <2>2, ServerFields, Zenon
  <2> HIDE DEF t
  <2>5. HasPrefix(Field(2, servers[2], t), Field(2, ns, s2))
    BY <1>4, <2>1, <2>4, Zenon
  <2>6. HasPrefix(t, s2)
    BY <1>1, <1>2, <1>5, <2>3, <2>5, StringPrefix, SMTT(30)
  <2>7. HasPrefix(Field(2, s, <<>>), Field(2, modules[2], s1))
    BY <2>6, Zenon DEF t, s2
  <2>8. HasPrefix(<<>>, s1)
    BY <1>2, <1>3, <2>2, <2>7, StringPrefix, Zenon
  <2>9. s1 \in Bytes
    BY <1>3, Zenon DEF Unmarked
  <2> QED
    BY <1>3, <2>8, <2>9 DEF HasPrefix, Bytes
<1>9. ASSUME PartLies(r, k) PROVE IsPartOf(r, k, ns, m)
  <2>1. PICK ns2, m2, n, i : /\ ns2 \in Namespaces /\ m2 \in Modules
                             /\ n \in PartCounts /\ i \in 0..(n - 1)
                             /\ r = Part(ns2, m2, n, i) /\ k = getModulePartKey(ns2, m2, i)
                             /\ Unmarked(encodeUint(i))
                             /\ Named(k, ns2, modules[2], Field(2, m2, encodeUint(i)))
    BY <1>9, PartNamed, Zenon
  <2>2. ns2 = ns /\ HasPrefix(Field(2, m2, encodeUint(i)), s1)
    BY <1>6, <2>1, Zenon
  <2>3. HasPrefix(Field(2, m2, encodeUint(i)), Field(2, m, <<>>))
    BY <2>2, Zenon DEF s1
  <2>4. m2 \in Bytes
    BY <2>1, Names, Zenon
  <2>5. m = m2 \/ HasPrefix(m2, m \o <<0>>)
    BY <1>1, <2>1, <2>3, <2>4, LastPrefix, Zenon
  <2>6. m = m2
    BY <2>1, <2>5, Zenon DEF NamesApart
  <2> QED
    BY <2>1, <2>2, <2>6, Zenon DEF IsPartOf
<1> QED
  BY <1>7, <1>8, <1>9, Zenon DEF Lies

\* Under the prefix of the servers lie servers only.
LEMMA UnderServers ==
    ASSUME NamesApart, NEW r, NEW k, Lies(r, k), HasPrefix(k, getServersPrefix)
    PROVE  ServerLies(r, k)
<1>1. servers[2] \in Bytes /\ modules[2] \in Bytes /\ actors[2] \in Bytes
  BY Words, Zenon
<1>2. getServersPrefix = Field(2, servers[2], <<>>)
  BY <1>1, ServerFields, Zenon
<1>3. ASSUME NEW n, NEW word, NEW rest, Named(k, n, word, rest) PROVE FALSE
  <2> DEFINE t == Field(2, word, rest)
  <2>1. n \in Bytes /\ word \in Bytes /\ Unmarked(rest)
    BY <1>3, Names, Zenon DEF Named
  <2>2. Unmarked(t)
    BY <2>1, Follows, Zenon
  <2>3. k = Field(2, n, t)
    BY <1>3, Zenon DEF Named
  <2> HIDE DEF t
  <2>4. HasPrefix(Field(2, n, t), Field(2, servers[2], <<>>))
    BY <1>2, <2>3, Zenon
  <2>5. servers[2] = n \/ HasPrefix(n, servers[2] \o <<0>>)
    BY <1>1, <2>1, <2>2, <2>4, LastPrefix, Zenon
  <2> QED
    BY <1>3, <2>5, Zenon DEF NamesApart, Named
<1>4. ASSUME ActorLies(r, k) \/ StorageLies(r, k) PROVE FALSE
  BY <1>3, <1>4, ActorNamed, Zenon
<1>5. ASSUME PartLies(r, k) PROVE FALSE
  <2>1. PICK ns, m, i : Named(k, ns, modules[2], Field(2, m, encodeUint(i)))
    BY <1>5, PartNamed, Zenon
  <2> QED
    BY <1>3, <2>1, Zenon
<1> QED
  BY <1>4, <1>5, Zenon DEF Lies

\* A key under which a record may lie is a byte string.
LEMMA KeysAreBytes ==
    ASSUME NEW r, NEW k, Lies(r, k)
    PROVE  k \in Bytes
<1>1. servers[2] \in Bytes
  BY Words, Zenon
<1>2. ASSUME NEW n, NEW word, NEW rest, Named(k, n, word, rest) PROVE k \in Bytes
  <2> DEFINE t == Field(2, word, rest)
  <2>1. n \in Bytes /\ word \in Bytes /\ Unmarked(rest)
    BY <1>2, Names, Zenon DEF Named
  <2>2. Unmarked(t)
    BY <2>1, Follows, Zenon
  <2>3. k = Field(2, n, t)
    BY <1>2, Zenon DEF Named
  <2> HIDE DEF t
  <2>4. Unmarked(k)
    BY <2>1, <2>2, <2>3, Follows, Zenon
  <2> QED
    BY <2>4, Zenon DEF Unmarked
<1>3. CASE ActorLies(r, k) \/ StorageLies(r, k)
  BY <1>2, <1>3, ActorNamed, Zenon
<1>4. CASE PartLies(r, k)
  <2>1. PICK ns, m, i : Named(k, ns, modules[2], Field(2, m, encodeUint(i)))
    BY <1>4, PartNamed, Zenon
  <2> QED
    BY <1>2, <2>1, Zenon
<1>5. CASE ServerLies(r, k)
  <2>1. PICK s \in Servers : k = getServerKey(s)
    BY <1>5, Zenon DEF ServerLies
  <2>2. s \in Bytes
    BY Names, Zenon
  <2> DEFINE t == Field(2, s, <<>>)
  <2>3. Unmarked(t)
    BY <2>2, Follows, Zenon
  <2>4. k = Field(2, servers[2], t)
    BY <2>1, <2>2, ServerFields, Zenon
  <2> HIDE DEF t
  <2>5. Unmarked(k)
    BY <1>1, <2>3, <2>4, Follows, Zenon
  <2> QED
    BY <2>5, Zenon DEF Unmarked
<1> QED
  BY <1>3, <1>4, <1>5, Zenon DEF Lies

\* The keys of parts begin with the prefix of their module, and lie in the order
\* of the parts.
LEMMA PartKeysLie ==
    ASSUME NEW ns \in Bytes, NEW m \in Bytes, NEW i \in PartNumbers
    PROVE  /\ getModulePrefix(ns, m) \in Bytes /\ getModulePartKey(ns, m, i) \in Bytes
           /\ HasPrefix(getModulePartKey(ns, m, i), getModulePrefix(ns, m))
           /\ \A j \in PartNumbers :
                i < j => BytesLess(getModulePartKey(ns, m, i), getModulePartKey(ns, m, j))
<1> DEFINE F1(x) == Field(2, m, x)
           F2(x) == Field(2, modules[2], F1(x))
           F3(x) == Field(2, ns, F2(x))
<1>1. modules[2] \in Bytes
  BY Words, Zenon
<1>2. ASSUME NEW s \in Bytes, NEW t \in Bytes
      PROVE  /\ F3(s) \in Bytes /\ F3(t) \in Bytes
             /\ HasPrefix(t, s) => HasPrefix(F3(t), F3(s))
             /\ BytesLess(s, t) => BytesLess(F3(s), F3(t))
  <2>1. /\ F1(s) \in Bytes /\ F1(t) \in Bytes
        /\ HasPrefix(t, s) => HasPrefix(F1(t), F1(s))
        /\ BytesLess(s, t) => BytesLess(F1(s), F1(t))
    BY FieldAfter, Zenon
  <2> HIDE DEF F1
  <2>2. /\ F2(s) \in Bytes /\ F2(t) \in Bytes
        /\ HasPrefix(F1(t), F1(s)) => HasPrefix(F2(t), F2(s))
        /\ BytesLess(F1(s), F1(t)) => BytesLess(F2(s), F2(t))
    BY <1>1, <2>1, FieldAfter, Zenon
  <2> HIDE DEF F2
  <2>3. /\ F3(s) \in Bytes /\ F3(t) \in Bytes
        /\ HasPrefix(F2(t), F2(s)) => HasPrefix(F3(t), F3(s))
        /\ BytesLess(F2(s), F2(t)) => BytesLess(F3(s), F3(t))
    BY <2>2, FieldAfter, Zenon
  <2> HIDE DEF F3
  <2> QED
    BY <2>1, <2>2, <2>3, Zenon
<1>3. getModulePrefix(ns, m) = F3(<<>>)
  BY ModuleFields, Zenon
<1>4. \A j \in PartNumbers : getModulePartKey(ns, m, j) = F3(encodeUint(j))
  BY ModuleFields, Zenon DEF PartNumbers
<1> HIDE DEF F3
<1>5. <<>> \in Bytes /\ \A j \in PartNumbers : encodeUint(j) \in Bytes
  BY PartOrder DEF Bytes
<1>6. HasPrefix(encodeUint(i), <<>>)
  <2>1. encodeUint(i) \in Seq(Byte)
    BY <1>5, Zenon DEF Bytes
  <2>2. Len(encodeUint(i)) >= 0
    BY <2>1
  <2> QED
    BY <2>2 DEF HasPrefix
<1>7. F3(<<>>) \in Bytes /\ F3(encodeUint(i)) \in Bytes /\ HasPrefix(F3(encodeUint(i)), F3(<<>>))
  BY <1>2, <1>5, <1>6, Zenon
<1>8. ASSUME NEW j \in PartNumbers, i < j
      PROVE  BytesLess(F3(encodeUint(i)), F3(encodeUint(j)))
  <2>1. BytesLess(encodeUint(i), encodeUint(j))
    BY <1>8, PartOrder, Zenon
  <2> QED
    BY <1>2, <1>5, <2>1, Zenon
<1> QED
  BY <1>3, <1>4, <1>7, <1>8, Zenon

\* The keys of the first n parts of a module.
FirstKeys(ns, m, n) == {getModulePartKey(ns, m, i) : i \in 0..(n - 1)}

\* They are n.
LEMMA FirstKeysNumber ==
    ASSUME NEW ns \in Bytes, NEW m \in Bytes, NEW n \in Nat, 0..(n - 1) \subseteq PartNumbers
    PROVE  Cardinality(FirstKeys(ns, m, n)) = n
<1> DEFINE f == [i \in 0..(n - 1) |-> getModulePartKey(ns, m, i)]
<1>1. IsFiniteSet(0..(n - 1)) /\ Cardinality(0..(n - 1)) = n
  BY FS_Interval
<1>2. f \in Surjection(0..(n - 1), FirstKeys(ns, m, n))
  BY Zenon DEF Surjection, FirstKeys
<1>3. \A i, j \in 0..(n - 1) : f[i] = f[j] => i = j
  <2> SUFFICES ASSUME NEW i \in 0..(n - 1), NEW j \in 0..(n - 1),
                      getModulePartKey(ns, m, i) = getModulePartKey(ns, m, j)
               PROVE  i = j
    BY Zenon
  <2>1. i \in PartNumbers /\ j \in PartNumbers
    BY Zenon
  <2> QED
    BY <2>1, PartKeyInjective
<1> HIDE DEF f
<1>4. f \in Injection(0..(n - 1), FirstKeys(ns, m, n))
  BY <1>2, <1>3, Zenon DEF Surjection, Injection, IsInjective
<1>5. Cardinality(FirstKeys(ns, m, n)) = Cardinality(0..(n - 1))
  BY <1>1, <1>2, <1>4, FS_Surjection, Zenon
<1> QED
  BY <1>1, <1>5, Zenon

\* A part has as many keys below it as its number says.
LEMMA PartRank ==
    ASSUME NEW ns \in Bytes, NEW m \in Bytes, NEW n \in Nat, 0..(n - 1) \subseteq PartNumbers,
           NEW i \in 0..(n - 1)
    PROVE  Rank(getModulePartKey(ns, m, i), FirstKeys(ns, m, n)) = i + 1
<1> DEFINE K(j) == getModulePartKey(ns, m, j)
           keys == FirstKeys(ns, m, n)
<1>1. i \in Nat /\ 0..(i - 1) \subseteq 0..(n - 1)
  OBVIOUS
<1>2. \A j \in 0..(n - 1) : K(j) \in Bytes /\ j \in PartNumbers /\ j \in Nat
  BY PartKeysLie
<1>3. \A j \in 0..(n - 1), l \in 0..(n - 1) : j < l => BytesLess(K(j), K(l))
  BY PartKeysLie, Zenon
<1> HIDE DEF K
<1>4. ASSUME NEW j \in 0..(n - 1) PROVE BytesLess(K(j), K(i)) <=> j \in 0..(i - 1)
  <2>1. CASE j < i
    BY <1>1, <1>3, <2>1
  <2>2. CASE j = i
    <3>1. ~ BytesLess(K(j), K(i))
      BY <1>2, <2>2, LessIrreflexive, Zenon
    <3> QED
      BY <1>1, <2>2, <3>1
  <2>3. CASE i < j
    <3>1. BytesLess(K(i), K(j))
      BY <1>3, <2>3, Zenon
    <3>2. ~ BytesLess(K(j), K(i))
      BY <1>2, <3>1, LessIrreflexive, LessTransitive, Zenon
    <3> QED
      BY <1>1, <2>3, <3>2
  <2>4. j < i \/ j = i \/ i < j
    BY <1>1
  <2> QED
    BY <2>1, <2>2, <2>3, <2>4, Zenon
<1>5. {k \in keys : BytesLess(k, K(i))} = FirstKeys(ns, m, i)
  <2>1. keys = {K(j) : j \in 0..(n - 1)} /\ FirstKeys(ns, m, i) = {K(j) : j \in 0..(i - 1)}
    BY Zenon DEF FirstKeys, K
  <2> HIDE DEF keys
  <2> QED
    BY <1>1, <1>4, <2>1, Zenon
<1>6. Cardinality(FirstKeys(ns, m, i)) = i
  <2>1. 0..(i - 1) \subseteq PartNumbers
    BY <1>1, Zenon
  <2> QED
    BY <1>1, <2>1, FirstKeysNumber, Zenon
<1> QED
  BY <1>5, <1>6, Zenon DEF Rank, K

\* The records of a module, and those of servers.
PartsOf(ns, m) == {r \in written : r.type = "part" /\ r.namespace = ns /\ r.id = m}

\* A module is in the store with all its n parts, or not at all.
Present(ns, m, n) ==
    /\ n \in Nat /\ 0..(n - 1) \subseteq PartNumbers
    /\ \A i \in PartNumbers : getModulePartKey(ns, m, i) \in DOMAIN store <=> i \in 0..(n - 1)
    /\ \A i \in 0..(n - 1) : store[getModulePartKey(ns, m, i)] = Part(ns, m, n, i)

\* If a part of a module is there, so are the others.
LEMMA PartsTogether ==
    ASSUME KeyInv, NEW ns \in Bytes, NEW m \in Bytes, NEW i \in PartNumbers,
           getModulePartKey(ns, m, i) \in DOMAIN store
    PROVE  \E n \in PartCounts :
              /\ i \in 0..(n - 1)
              /\ \A j \in 0..(n - 1) : /\ getModulePartKey(ns, m, j) \in DOMAIN store
                                      /\ store[getModulePartKey(ns, m, j)] = Part(ns, m, n, j)
<1> DEFINE k == getModulePartKey(ns, m, i)
<1>1. Lies(store[k], k)
  BY Zenon DEF KeyInv, Lie
<1>2. PICK n \in PartCounts : i \in 0..(n - 1) /\ store[k] = Part(ns, m, n, i)
  BY <1>1, AtPartKey
<1>3. /\ store[k].type = "part" /\ store[k].namespace = ns /\ store[k].id = m
      /\ store[k].parts = n
  BY <1>2 DEF Part
<1>4. k \in DOMAIN store
  BY Zenon
<1> HIDE DEF k
<1>5. ASSUME NEW j \in 0..(n - 1)
      PROVE  /\ getModulePartKey(ns, m, j) \in DOMAIN store
             /\ store[getModulePartKey(ns, m, j)] = Part(ns, m, n, j)
  <2>1. LET key == getModulePartKey(store[k].namespace, store[k].id, j)
        IN  key \in DOMAIN store
            /\ store[key] = Part(store[k].namespace, store[k].id, store[k].parts, j)
    BY <1>3, <1>4, Zenon DEF KeyInv, Whole
  <2> QED
    BY <1>3, <2>1, Zenon
<1> QED
  BY <1>2, <1>5, Zenon

\* So a module is there with all its parts or not at all.
LEMMA ModulePresent ==
    ASSUME KeyInv, NEW ns \in Bytes, NEW m \in Bytes
    PROVE  \E n : Present(ns, m, n)
<1> DEFINE K(i) == getModulePartKey(ns, m, i)
<1>1. CASE K(0) \notin DOMAIN store
  <2>1. \A i \in PartNumbers : K(i) \notin DOMAIN store
    BY <1>1, NoneOfModule, Zenon
  <2>2. 0 \in Nat /\ 0..(0 - 1) = {}
    OBVIOUS
  <2>3. Present(ns, m, 0)
    BY <2>1, <2>2, Zenon DEF Present
  <2> QED
    BY <2>3, Zenon
<1>2. CASE K(0) \in DOMAIN store /\ 0 \in PartNumbers
  <2>1. PICK n \in PartCounts : \A j \in 0..(n - 1) : K(j) \in DOMAIN store
                                                    /\ store[K(j)] = Part(ns, m, n, j)
    BY <1>2, PartsTogether, Zenon
  <2>2. n \in Nat /\ 0 \in 0..(n - 1) /\ 0..(n - 1) \subseteq PartNumbers
    BY Names, Zenon
  <2>3. ASSUME NEW i \in PartNumbers, K(i) \in DOMAIN store PROVE i \in 0..(n - 1)
    <3>1. PICK n2 \in PartCounts : /\ i \in 0..(n2 - 1)
                                   /\ \A j \in 0..(n2 - 1) : store[K(j)] = Part(ns, m, n2, j)
      BY <2>3, PartsTogether, Zenon
    <3>2. 0 \in 0..(n2 - 1)
      BY Names, Zenon
    <3>3. Part(ns, m, n2, 0) = Part(ns, m, n, 0)
      BY <2>1, <2>2, <3>1, <3>2, Zenon
    <3>4. n2 = n
      <4>1. Part(ns, m, n2, 0).parts = n2 /\ Part(ns, m, n, 0).parts = n
        BY Zenon DEF Part
      <4> QED
        BY <3>3, <4>1, Zenon
    <3> QED
      BY <3>1, <3>4, Zenon
  <2>4. Present(ns, m, n)
    BY <2>1, <2>2, <2>3, Zenon DEF Present
  <2> QED
    BY <2>4, Zenon
<1>3. 0 \in PartNumbers \/ PartNumbers = {}
  <2>1. Word \in Nat
    BY WordNat, Zenon
  <2> QED
    BY <2>1 DEF PartNumbers
<1>4. CASE PartNumbers = {}
  <2>1. 0 \in Nat /\ 0..(0 - 1) = {}
    OBVIOUS
  <2>2. Present(ns, m, 0)
    BY <1>4, <2>1, Zenon DEF Present
  <2> QED
    BY <2>2, Zenon
<1> QED
  BY <1>1, <1>2, <1>3, <1>4, Zenon

\* The parts that were written are those that are there.
LEMMA PartsWritten ==
    ASSUME KeyInv, NEW ns \in Namespaces, NEW m \in Modules, NEW n, Present(ns, m, n)
    PROVE  PartsOf(ns, m) = {Part(ns, m, n, i) : i \in 0..(n - 1)}
<1>1. {store[k] : k \in DOMAIN store} = written
  BY Zenon DEF KeyInv, RecordsKeepTheirKeys
<1>2. ASSUME NEW r \in written, r.type = "part", r.namespace = ns, r.id = m
      PROVE  r \in {Part(ns, m, n, i) : i \in 0..(n - 1)}
  <2>1. PICK k \in DOMAIN store : store[k] = r
    BY <1>1, <1>2, Zenon
  <2>2. Lies(r, k)
    BY <2>1, Zenon DEF KeyInv, Lie
  <2>3. PartLies(r, k)
    <3>1. ~ (ActorLies(r, k) \/ StorageLies(r, k))
      BY <1>2, ActorNamed, Zenon
    <3>2. ~ ServerLies(r, k)
      BY <1>2 DEF ServerLies, ServerRecord
    <3> QED
      BY <2>2, <3>1, <3>2, Zenon DEF Lies
  <2>4. PICK ns2 \in Namespaces, m2 \in Modules, n2 \in PartCounts : \E i \in 0..(n2 - 1) :
          r = Part(ns2, m2, n2, i) /\ k = getModulePartKey(ns2, m2, i)
    BY <2>3, Zenon DEF PartLies
  <2>5. PICK i \in 0..(n2 - 1) : r = Part(ns2, m2, n2, i) /\ k = getModulePartKey(ns2, m2, i)
    BY <2>4, Zenon
  <2>6. ns2 = ns /\ m2 = m
    BY <1>2, <2>5, Zenon DEF Part
  <2>7. i \in PartNumbers
    BY Names, Zenon
  <2>8. i \in 0..(n - 1)
    BY <2>1, <2>5, <2>6, <2>7, Zenon DEF Present
  <2>9. store[getModulePartKey(ns, m, i)] = Part(ns, m, n, i)
    BY <2>8, Zenon DEF Present
  <2> QED
    BY <2>1, <2>5, <2>6, <2>8, <2>9, Zenon
<1>3. ASSUME NEW i \in 0..(n - 1)
      PROVE  Part(ns, m, n, i) \in PartsOf(ns, m)
  <2>1. /\ getModulePartKey(ns, m, i) \in DOMAIN store
        /\ store[getModulePartKey(ns, m, i)] = Part(ns, m, n, i)
    BY Zenon DEF Present
  <2>2. Part(ns, m, n, i) \in written
    BY <1>1, <2>1, Zenon
  <2>3. /\ Part(ns, m, n, i).type = "part" /\ Part(ns, m, n, i).namespace = ns
        /\ Part(ns, m, n, i).id = m
    BY Zenon DEF Part
  <2> QED
    BY <2>2, <2>3, Zenon DEF PartsOf
<1> QED
  BY <1>2, <1>3, Zenon DEF PartsOf

\* GetModule reads the parts of a module, in their order.
LEMMA ModuleRead ==
    ASSUME NamesApart, KeyInv, NEW ns \in Namespaces, NEW m \in Modules
    PROVE  LET parts == PartsOf(ns, m)
               found == GetModule(ns, m)
           IN  /\ Range(found) = parts
               /\ \A i \in DOMAIN found : found[i].part = i - 1
               /\ parts # {} => Len(found) = found[1].parts
<1> DEFINE K(i) == getModulePartKey(ns, m, i)
           p == getModulePrefix(ns, m)
           found == IterPrefix(p)
           keys == KeysFrom(p)
<1>1. ns \in Bytes /\ m \in Bytes
  BY Names, Zenon
<1>2. PICK n : Present(ns, m, n)
  BY <1>1, ModulePresent, Zenon
<1>3. /\ n \in Nat /\ 0..(n - 1) \subseteq PartNumbers
      /\ \A i \in PartNumbers : K(i) \in DOMAIN store <=> i \in 0..(n - 1)
      /\ \A i \in 0..(n - 1) : store[K(i)] = Part(ns, m, n, i)
  BY <1>2, Zenon DEF Present
<1>4. DOMAIN store \subseteq Bytes /\ IsFiniteSet(DOMAIN store)
  BY KeysAreBytes, Zenon DEF KeyInv, Lie
<1>5. p \in Bytes
  <2>1. modules[2] \in Bytes /\ <<>> \in Bytes
    BY Words DEF Bytes
  <2>2. Field(2, m, <<>>) \in Bytes
    BY <1>1, <2>1, FieldAfter, Zenon
  <2>3. Field(2, modules[2], Field(2, m, <<>>)) \in Bytes
    BY <2>1, <2>2, FieldAfter, Zenon
  <2>4. Field(2, ns, Field(2, modules[2], Field(2, m, <<>>))) \in Bytes
    BY <1>1, <2>3, FieldAfter, Zenon
  <2> QED
    BY <1>1, <2>4, ModuleFields, Zenon
<1>6. keys = FirstKeys(ns, m, n)
  <2>1. keys = {k \in DOMAIN store : HasPrefix(k, p)}
    BY <1>4, <1>5, KeysFromPrefix, Zenon
  <2>2. ASSUME NEW k \in DOMAIN store, HasPrefix(k, p) PROVE k \in FirstKeys(ns, m, n)
    <3>1. Lies(store[k], k)
      BY Zenon DEF KeyInv, Lie
    <3>2. IsPartOf(store[k], k, ns, m)
      BY <2>2, <3>1, UnderModule, Zenon
    <3>3. PICK n2 \in PartCounts, i \in Nat : i \in 0..(n2 - 1) /\ k = K(i)
      BY <3>2 DEF IsPartOf
    <3>4. i \in PartNumbers
      BY <3>3, Names, Zenon
    <3>5. i \in 0..(n - 1)
      BY <1>3, <3>3, <3>4, Zenon
    <3> QED
      BY <3>3, <3>5, Zenon DEF FirstKeys
  <2>3. ASSUME NEW i \in 0..(n - 1) PROVE K(i) \in DOMAIN store /\ HasPrefix(K(i), p)
    BY <1>1, <1>3, PartKeysLie, Zenon
  <2> HIDE DEF keys
  <2> QED
    BY <2>1, <2>2, <2>3, Zenon DEF FirstKeys
<1>7. Iterates(found, keys)
  BY <1>4, IterIs, Zenon
<1>8. Cardinality(keys) = n /\ \A i \in 0..(n - 1) : Rank(K(i), keys) = i + 1
  <2> HIDE DEF keys
  <2>1. Cardinality(keys) = n
    BY <1>1, <1>3, <1>6, FirstKeysNumber, Zenon
  <2>2. \A i \in 0..(n - 1) : Rank(K(i), FirstKeys(ns, m, n)) = i + 1
    BY <1>1, <1>3, PartRank, Zenon
  <2> QED
    BY <1>6, <2>1, <2>2, Zenon
<1>9. keys = {K(i) : i \in 0..(n - 1)}
  BY <1>6, Zenon DEF FirstKeys
<1>10. GetModule(ns, m) = found
  BY Zenon DEF GetModule
<1>11. PartsOf(ns, m) = {Part(ns, m, n, i) : i \in 0..(n - 1)}
  BY <1>2, PartsWritten, Zenon
<1> HIDE DEF K, keys, found
<1>12. /\ DOMAIN found = 1..n /\ Len(found) = n
       /\ \A i \in 0..(n - 1) : found[i + 1] = Part(ns, m, n, i)
       /\ Range(found) = {store[k] : k \in keys}
  <2>1. \A i \in 0..(n - 1) : K(i) \in keys
    BY <1>9, Zenon
  <2> QED
    BY <1>3, <1>7, <1>8, <2>1, Zenon DEF Iterates
<1>13. Range(found) = PartsOf(ns, m)
  BY <1>3, <1>9, <1>11, <1>12
<1>14. \A i \in 1..n : found[i] = Part(ns, m, n, i - 1)
  <2> SUFFICES ASSUME NEW i \in 1..n PROVE found[i] = Part(ns, m, n, i - 1)
    BY Zenon
  <2>1. i - 1 \in 0..(n - 1) /\ (i - 1) + 1 = i
    BY <1>3
  <2>2. found[(i - 1) + 1] = Part(ns, m, n, i - 1)
    BY <1>12, <2>1, Zenon
  <2> QED
    BY <2>1, <2>2, Zenon
<1>15. \A i \in DOMAIN found : found[i].part = i - 1 /\ found[i].parts = n
  BY <1>12, <1>14 DEF Part
<1>16. PartsOf(ns, m) # {} => Len(found) = found[1].parts
  <2>1. PartsOf(ns, m) # {} => 1 \in 1..n
    BY <1>3, <1>11
  <2> QED
    BY <1>12, <1>15, <2>1, Zenon
<1> QED
  BY <1>10, <1>13, <1>15, <1>16, Zenon

\* EnsureActivation reads the servers.
LEMMA ServersRead ==
    ASSUME NamesApart, KeyInv
    PROVE  Range(IterPrefix(getServersPrefix)) = {r \in written : r.type = "server"}
<1> DEFINE p == getServersPrefix
           keys == KeysFrom(p)
<1>1. DOMAIN store \subseteq Bytes /\ IsFiniteSet(DOMAIN store)
  BY KeysAreBytes, Zenon DEF KeyInv, Lie
<1>2. servers[2] \in Bytes /\ <<>> \in Bytes
  BY Words DEF Bytes
<1>3. p \in Bytes /\ p = Field(2, servers[2], <<>>)
  BY <1>2, ServerFields, FieldAfter, Zenon
<1>4. keys = {k \in DOMAIN store : HasPrefix(k, p)}
  BY <1>1, <1>3, KeysFromPrefix, Zenon
<1>5. Range(IterPrefix(p)) = {store[k] : k \in keys}
  <2>1. Iterates(IterPrefix(p), keys)
    BY <1>1, IterIs, Zenon
  <2> QED
    BY <2>1, Zenon DEF Iterates
<1>6. {store[k] : k \in DOMAIN store} = written
  BY Zenon DEF KeyInv, RecordsKeepTheirKeys
<1>7. ASSUME NEW k \in DOMAIN store
      PROVE  HasPrefix(k, p) <=> store[k].type = "server"
  <2>1. Lies(store[k], k)
    BY Zenon DEF KeyInv, Lie
  <2>2. ASSUME HasPrefix(k, p) PROVE store[k].type = "server"
    <3>1. ServerLies(store[k], k)
      BY <2>1, <2>2, UnderServers, Zenon
    <3> QED
      BY <3>1 DEF ServerLies, ServerRecord
  <2>3. ASSUME store[k].type = "server" PROVE HasPrefix(k, p)
    <3>1. ~ PartLies(store[k], k)
      BY <2>3 DEF PartLies, Part
    <3>2. ~ (ActorLies(store[k], k) \/ StorageLies(store[k], k))
      BY <2>3, ActorNamed, Zenon
    <3>3. ServerLies(store[k], k)
      BY <2>1, <3>1, <3>2, Zenon DEF Lies
    <3>4. PICK s \in Servers : k = getServerKey(s)
      BY <3>3, Zenon DEF ServerLies
    <3>5. s \in Bytes
      BY Names, Zenon
    <3>6. k = Field(2, servers[2], Field(2, s, <<>>))
      BY <3>4, <3>5, ServerFields, Zenon
    <3>7. Field(2, s, <<>>) \in Bytes
      BY <1>2, <3>5, FieldAfter, Zenon
    <3>8. HasPrefix(Field(2, s, <<>>), <<>>)
      BY <3>7 DEF HasPrefix, Bytes
    <3> QED
      BY <1>2, <1>3, <3>6, <3>7, <3>8, FieldAfter, Zenon
  <2> QED
    BY <2>2, <2>3, Zenon
<1> HIDE DEF keys
<1> QED
  BY <1>4, <1>5, <1>6, <1>7, Zenon

\* Whatever the names are, as long as no module ID goes on after another one
\* with a zero byte and no namespace is taken for the servers, GetModule reads
\* the parts of its module and no other, all of them and in their order, and
\* EnsureActivation the servers that have sent a heartbeat.
THEOREM PrefixesReadTheirRecords ==
    ASSUME NamesApart
    PROVE  Spec => []PrefixReadsItsRecords
<1>1. KeyInv => PrefixReadsItsRecords
  <2> SUFFICES ASSUME KeyInv PROVE PrefixReadsItsRecords
    BY Zenon
  <2>1. ASSUME NEW ns \in Namespaces, NEW m \in Modules
        PROVE  LET parts == PartsOf(ns, m)
                   found == GetModule(ns, m)
               IN  /\ Range(found) = parts
                   /\ \A i \in DOMAIN found : found[i].part = i - 1
                   /\ parts # {} => Len(found) = found[1].parts
    BY ModuleRead, Zenon
  <2>2. Range(IterPrefix(getServersPrefix)) = {r \in written : r.type = "server"}
    BY ServersRead, Zenon
  <2> QED
    BY <2>1, <2>2, Zenon DEF PrefixReadsItsRecords, PartsOf
<1> QED
  BY <1>1, KeyInvHolds, PTL
=============================================================================
