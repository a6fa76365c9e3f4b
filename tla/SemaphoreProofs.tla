-------------------------- MODULE SemaphoreProofs --------------------------
(***************************************************************************)
(* Proofs about module Semaphore, for any keys, limits, requests, lists of *)
(* wishes, TTLs and periods.                                               *)
(***************************************************************************)
EXTENDS Semaphore, FiniteSetTheorems, WellFoundedInduction, TLAPS

\* Counts, holders and limits together: LimitRespected needs the holders to be
\* finitely many and the requests to be what they were granted.
SlotInv ==
    /\ TypeOK
    /\ \A k \in KVs : IsFiniteSet(Slots(Requests, k))
    /\ LimitRespected

\* One timer, t before it fires.
Single(t) == [u \in 0 .. Period |-> IF u = t THEN 1 ELSE 0]
NoTimers == [t \in 0 .. Period |-> 0]

\* HousecleanIsScheduled needs the timer and the idle time together, and that an
\* actor that is not in memory has left no timer behind.
TimerInv ==
    /\ timers \in [0 .. Period -> Nat] /\ idle \in Nat /\ gcAfter \in Nat
    /\ active => \E t \in 0 .. Period : timers[t] > 0
    /\ timely /\ gcAfter >= Period =>
         /\ active => \E t \in 0 .. Period : timers = Single(t) /\ idle + t <= Period
         /\ ~active => timers = NoTimers

-----------------------------------------------------------------------------
\* A set of positions has a least element.
LEMMA MinFinds ==
    ASSUME NEW T \in SUBSET Nat, T # {}
    PROVE  Min(T) \in T /\ \A y \in T : Min(T) <= y
<1>1. PICK x \in T : \A y \in T : ~(<<y, x>> \in OpToRel(<, Nat))
  BY NatLessThanWellFounded, WFMin, Zenon
<1>2. \A y \in T : x <= y
  <2> SUFFICES ASSUME NEW y \in T, ~(x <= y) PROVE FALSE
    BY Zenon
  <2>1. y \in Nat /\ x \in Nat /\ y < x
    OBVIOUS
  <2>2. <<y, x>> \in OpToRel(<, Nat)
    BY <2>1, Zenon DEF OpToRel
  <2> QED
    BY <1>1, <2>2, Zenon
<1> QED
  BY <1>2, Zenon DEF Min

\* The places of k in a list are finitely many; one more item of the list adds
\* one place or none.
LEMMA PositionsGrow ==
    ASSUME NEW kvs \in Seq(KVs), NEW n \in 0 .. Len(kvs), NEW k \in KVs
    PROVE  /\ IsFiniteSet(Positions(kvs, n, k))
           /\ Taken(kvs, n)[k] \in Nat
           /\ Taken(kvs, n)[k] = Cardinality(Positions(kvs, n, k))
           /\ n = 0 => Taken(kvs, n)[k] = 0
           /\ n > 0 => Taken(kvs, n)[k] = Taken(kvs, n - 1)[k] + (IF kvs[n] = k THEN 1 ELSE 0)
<1>1. \A m \in 0 .. Len(kvs) : IsFiniteSet(Positions(kvs, m, k))
  <2> SUFFICES ASSUME NEW m \in 0 .. Len(kvs) PROVE IsFiniteSet(Positions(kvs, m, k))
    BY Zenon
  <2>1. IsFiniteSet(1 .. m)
    BY FS_Interval
  <2> QED
    BY <2>1, FS_Subset, Zenon DEF Positions
<1>2. Taken(kvs, n)[k] = Cardinality(Positions(kvs, n, k))
  BY Zenon DEF Taken
<1>3. Taken(kvs, n)[k] \in Nat
  BY <1>1, <1>2, FS_CardinalityType, Zenon
<1>4. ASSUME n = 0 PROVE Taken(kvs, n)[k] = 0
  <2>1. Positions(kvs, n, k) = {}
    BY <1>4 DEF Positions
  <2> QED
    BY <1>2, <2>1, FS_EmptySet, Zenon
<1>5. ASSUME n > 0
      PROVE  Taken(kvs, n)[k] = Taken(kvs, n - 1)[k] + (IF kvs[n] = k THEN 1 ELSE 0)
  <2>1. n - 1 \in 0 .. Len(kvs) /\ n \notin Positions(kvs, n - 1, k)
    BY <1>5 DEF Positions
  <2>2. Taken(kvs, n - 1)[k] = Cardinality(Positions(kvs, n - 1, k))
    BY Zenon DEF Taken
  <2>3. IsFiniteSet(Positions(kvs, n - 1, k)) /\ Cardinality(Positions(kvs, n - 1, k)) \in Nat
    BY <1>1, <2>1, FS_CardinalityType, Zenon
  <2>4. CASE kvs[n] = k
    <3>1. Positions(kvs, n, k) = Positions(kvs, n - 1, k) \cup {n}
      BY <1>5, <2>4 DEF Positions
    <3>2. Cardinality(Positions(kvs, n - 1, k) \cup {n}) = Cardinality(Positions(kvs, n - 1, k)) + 1
      BY <2>1, <2>3, FS_AddElement, Zenon
    <3> QED
      BY <1>2, <2>2, <2>4, <3>1, <3>2, Zenon
  <2>5. CASE kvs[n] # k
    <3>1. Positions(kvs, n, k) = Positions(kvs, n - 1, k)
      BY <1>5, <2>5 DEF Positions
    <3> QED
      BY <1>2, <2>2, <2>3, <2>5, <3>1
  <2> QED
    BY <2>4, <2>5, Zenon
<1> QED
  BY <1>1, <1>2, <1>3, <1>4, <1>5, Zenon

\* A longer part of a list takes no fewer slots.
LEMMA TakenMonotone ==
    ASSUME NEW kvs \in Seq(KVs), NEW n \in 0 .. Len(kvs), NEW m \in 0 .. n, NEW k \in KVs
    PROVE  Taken(kvs, m)[k] <= Taken(kvs, n)[k]
<1>1. Positions(kvs, m, k) \in SUBSET Positions(kvs, n, k)
  BY DEF Positions
<1>2. m \in 0 .. Len(kvs)
  OBVIOUS
<1> QED
  BY <1>1, <1>2, PositionsGrow, FS_Subset

\* The last place of k in a list: what the loop of acquire takes for k it has
\* taken when it has passed that place.
LEMMA LastPlace ==
    ASSUME NEW kvs \in Seq(KVs), NEW k \in KVs, Taken(kvs, Len(kvs))[k] # 0
    PROVE  \E j \in 1 .. Len(kvs) :
              kvs[j] = k /\ Taken(kvs, Len(kvs))[k] = Taken(kvs, j - 1)[k] + 1
<1> DEFINE n == Len(kvs)
           T == {m \in 0 .. n : Taken(kvs, m)[k] = Taken(kvs, n)[k]}
<1>1. n \in Nat /\ n \in T /\ T \in SUBSET Nat
  OBVIOUS
<1>2. PICK j \in T : \A m \in T : j <= m
  BY <1>1, MinFinds, Zenon
<1>3. j \in 0 .. n /\ Taken(kvs, j)[k] = Taken(kvs, n)[k]
  BY <1>2, Zenon
<1>4. j > 0
  BY <1>1, <1>3, PositionsGrow
<1>5. j - 1 \in 0 .. n /\ j - 1 \notin T
  BY <1>1, <1>2, <1>3, <1>4
<1>6. Taken(kvs, j - 1)[k] # Taken(kvs, n)[k]
  BY <1>5, Zenon
<1>7. /\ Taken(kvs, j)[k] = Taken(kvs, j - 1)[k] + (IF kvs[j] = k THEN 1 ELSE 0)
      /\ Taken(kvs, j - 1)[k] \in Nat
  BY <1>3, <1>4, <1>5, PositionsGrow, Zenon
<1>8. kvs[j] = k /\ Taken(kvs, n)[k] = Taken(kvs, j - 1)[k] + 1
  BY <1>3, <1>6, <1>7
<1> QED
  BY <1>1, <1>3, <1>4, <1>8

-----------------------------------------------------------------------------
\* What a request holds: a list, empty when the request is unknown.
LEMMA RequestFields ==
    ASSUME TypeOK, NEW r \in Requests
    PROVE  /\ requestIDToKVs[r].kvs \in Seq(KVs)
           /\ requestIDToKVs[r] = NoRequest => requestIDToKVs[r].kvs = <<>>
<1>1. requestIDToKVs[r] \in [kvs : Wishes, left : 0 .. MaxTTL] \cup {NoRequest}
  BY Zenon DEF TypeOK
<1>2. CASE requestIDToKVs[r] = NoRequest
  BY <1>2 DEF NoRequest
<1>3. CASE requestIDToKVs[r] # NoRequest
  <2>1. requestIDToKVs[r].kvs \in Wishes
    BY <1>1, <1>3, Zenon
  <2> QED
    BY <1>3, <2>1, SemaphoreAssumption, Zenon
<1> QED
  BY <1>2, <1>3, Zenon

\* The slots of a request carry its ID, and are as many as its list says.
LEMMA SlotsOfOne ==
    ASSUME NEW r, NEW k \in KVs, requestIDToKVs[r].kvs \in Seq(KVs)
    PROVE  /\ IsFiniteSet(SlotsOf(r, k))
           /\ Cardinality(SlotsOf(r, k))
                = Taken(requestIDToKVs[r].kvs, Len(requestIDToKVs[r].kvs))[k]
           /\ \A x \in SlotsOf(r, k) : x[1] = r
           /\ requestIDToKVs[r].kvs = <<>> => SlotsOf(r, k) = {}
<1>1. PICK kvs \in Seq(KVs) : kvs = requestIDToKVs[r].kvs
  BY Zenon
<1>2. SlotsOf(r, k) = {r} \X Positions(kvs, Len(kvs), k)
  BY <1>1, Zenon DEF SlotsOf
<1>3. Len(kvs) \in 0 .. Len(kvs)
  OBVIOUS
<1>4. /\ IsFiniteSet(Positions(kvs, Len(kvs), k)) /\ Taken(kvs, Len(kvs))[k] \in Nat
      /\ Taken(kvs, Len(kvs))[k] = Cardinality(Positions(kvs, Len(kvs), k))
  BY <1>3, PositionsGrow
<1>5. IsFiniteSet({r}) /\ Cardinality({r}) = 1
  BY FS_Singleton, Zenon
<1>6. /\ IsFiniteSet({r} \X Positions(kvs, Len(kvs), k))
      /\ Cardinality({r} \X Positions(kvs, Len(kvs), k))
           = 1 * Cardinality(Positions(kvs, Len(kvs), k))
  BY <1>4, <1>5, FS_Product, Zenon
<1>7. \A x \in SlotsOf(r, k) : x[1] = r
  BY <1>2, Zenon
<1>8. kvs = <<>> => SlotsOf(r, k) = {}
  <2>1. kvs = <<>> => Positions(kvs, Len(kvs), k) = {}
    BY DEF Positions
  <2> QED
    BY <1>2, <2>1, Zenon
<1> QED
  BY <1>1, <1>2, <1>4, <1>6, <1>7, <1>8

\* Some requests hold some of the slots.
LEMMA SlotsOfSome ==
    ASSUME SlotInv, NEW R \in SUBSET Requests, NEW k \in KVs
    PROVE  /\ Slots(R, k) \subseteq Slots(Requests, k)
           /\ IsFiniteSet(Slots(R, k))
           /\ HeldBy(R)[k] = Cardinality(Slots(R, k)) /\ HeldBy(R)[k] \in Nat
           /\ HeldBy(Requests)[k] \in Nat /\ HeldBy(R)[k] <= HeldBy(Requests)[k]
<1>1. Slots(R, k) \subseteq Slots(Requests, k)
  BY Zenon DEF Slots
<1>2. IsFiniteSet(Slots(Requests, k))
  BY Zenon DEF SlotInv
<1>3. /\ IsFiniteSet(Slots(R, k))
      /\ Cardinality(Slots(R, k)) <= Cardinality(Slots(Requests, k))
  BY <1>1, <1>2, FS_Subset, Zenon
<1>4. Cardinality(Slots(R, k)) \in Nat /\ Cardinality(Slots(Requests, k)) \in Nat
  BY <1>2, <1>3, FS_CardinalityType, Zenon
<1> QED
  BY <1>1, <1>3, <1>4, Zenon DEF HeldBy

\* Requests of which only the remaining time may change hold what they held.
LEMMA SlotsKept ==
    ASSUME \A r \in Requests : requestIDToKVs'[r].kvs = requestIDToKVs[r].kvs, NEW k \in KVs
    PROVE  Slots(Requests, k)' = Slots(Requests, k) /\ HeldBy(Requests)'[k] = HeldBy(Requests)[k]
<1>1. \A r \in Requests : SlotsOf(r, k)' = SlotsOf(r, k)
  BY Zenon DEF SlotsOf
<1>2. Slots(Requests, k)' = Slots(Requests, k)
  BY <1>1, Zenon DEF Slots
<1> QED
  BY <1>2, Zenon DEF HeldBy

\* Nobody holds anything in a new instance.
LEMMA SlotsForgotten ==
    (\A r \in Requests : requestIDToKVs[r] = NoRequest)
        => \A k \in KVs : Slots(Requests, k) = {} /\ HeldBy(Requests)[k] = 0
<1> SUFFICES ASSUME \A r \in Requests : requestIDToKVs[r] = NoRequest, NEW k \in KVs
             PROVE  Slots(Requests, k) = {} /\ HeldBy(Requests)[k] = 0
  BY Zenon
<1>1. \A r \in Requests : SlotsOf(r, k) = {}
  <2> SUFFICES ASSUME NEW r \in Requests PROVE SlotsOf(r, k) = {}
    BY Zenon
  <2>1. requestIDToKVs[r].kvs = <<>>
    BY DEF NoRequest
  <2>2. <<>> \in Seq(KVs)
    OBVIOUS
  <2> QED
    BY <2>1, <2>2, SlotsOfOne, Zenon
<1>2. Slots(Requests, k) = {}
  BY <1>1, Zenon DEF Slots
<1> QED
  BY <1>2, FS_EmptySet, Zenon DEF HeldBy

\* The same after a step.
LEMMA SlotsForgottenNext ==
    ((\A r \in Requests : requestIDToKVs[r] = NoRequest)
        => \A k \in KVs : Slots(Requests, k) = {} /\ HeldBy(Requests)[k] = 0)'
  BY SlotsForgotten, PTL

\* A request that is granted adds the slots of its list.
LEMMA SlotsGranted ==
    ASSUME SlotInv, NEW r \in Requests, requestIDToKVs[r] = NoRequest,
           NEW kvs \in Seq(KVs), NEW ttl, NEW k \in KVs,
           requestIDToKVs' = [requestIDToKVs EXCEPT ![r] = [kvs |-> kvs, left |-> ttl]]
    PROVE  /\ IsFiniteSet(Slots(Requests, k)')
           /\ HeldBy(Requests)'[k] = HeldBy(Requests)[k] + Taken(kvs, Len(kvs))[k]
<1>1. TypeOK /\ IsFiniteSet(Slots(Requests, k))
  BY Zenon DEF SlotInv
<1>2. /\ requestIDToKVs'[r].kvs = kvs
      /\ \A q \in Requests : q # r => requestIDToKVs'[q] = requestIDToKVs[q]
  BY <1>1, Zenon DEF TypeOK
<1>3. \A q \in Requests : q # r => SlotsOf(q, k)' = SlotsOf(q, k)
  BY <1>2, Zenon DEF SlotsOf
<1>4. SlotsOf(r, k) = {}
  BY <1>1, RequestFields, SlotsOfOne, Zenon
<1>5. PICK New : New = SlotsOf(r, k)'
  BY Zenon
<1>6. /\ IsFiniteSet(New) /\ Cardinality(New) = Taken(kvs, Len(kvs))[k]
      /\ \A x \in New : x[1] = r
  <2>1. New = {r} \X Positions(kvs, Len(kvs), k)
    BY <1>2, <1>5, Zenon DEF SlotsOf
  <2>2. /\ IsFiniteSet(Positions(kvs, Len(kvs), k)) /\ Taken(kvs, Len(kvs))[k] \in Nat
        /\ Taken(kvs, Len(kvs))[k] = Cardinality(Positions(kvs, Len(kvs), k))
    <3>1. Len(kvs) \in 0 .. Len(kvs)
      OBVIOUS
    <3> QED
      BY <3>1, PositionsGrow
  <2>3. IsFiniteSet({r}) /\ Cardinality({r}) = 1
    BY FS_Singleton, Zenon
  <2>4. /\ IsFiniteSet({r} \X Positions(kvs, Len(kvs), k))
        /\ Cardinality({r} \X Positions(kvs, Len(kvs), k))
             = 1 * Cardinality(Positions(kvs, Len(kvs), k))
    BY <2>2, <2>3, FS_Product, Zenon
  <2> QED
    BY <2>1, <2>2, <2>4
<1>7. Slots(Requests, k)' = Slots(Requests, k) \cup New
  BY <1>3, <1>4, <1>5, Zenon DEF Slots
<1>8. Slots(Requests, k) \cap New = {}
  <2> SUFFICES ASSUME NEW x \in Slots(Requests, k), x \in New PROVE FALSE
    BY Zenon
  <2>1. PICK q \in Requests : x \in SlotsOf(q, k)
    BY Zenon DEF Slots
  <2>2. x[1] = q
    BY <1>1, <2>1, RequestFields, SlotsOfOne, Zenon
  <2> QED
    BY <1>4, <1>6, <2>1, <2>2, Zenon
<1>9. /\ IsFiniteSet(Slots(Requests, k) \cup New)
      /\ Cardinality(Slots(Requests, k) \cup New)
           = Cardinality(Slots(Requests, k)) + Cardinality(New) - Cardinality({})
  BY <1>1, <1>6, <1>8, FS_Union
<1>10. /\ Cardinality(Slots(Requests, k)) \in Nat /\ Cardinality(New) \in Nat
       /\ Cardinality({}) = 0
  BY <1>1, <1>6, FS_CardinalityType, FS_EmptySet, Zenon
<1>11. /\ HeldBy(Requests)'[k] = Cardinality(Slots(Requests, k) \cup New)
       /\ HeldBy(Requests)[k] = Cardinality(Slots(Requests, k))
  BY <1>7, Zenon DEF HeldBy
<1> QED
  BY <1>6, <1>7, <1>9, <1>10, <1>11

\* Requests that are dropped give back exactly what they held.
LEMMA SlotsDropped ==
    ASSUME SlotInv, NEW R \in SUBSET Requests, NEW k \in KVs,
           requestIDToKVs' = [r \in Requests |-> IF r \in R THEN NoRequest ELSE requestIDToKVs[r]]
    PROVE  /\ IsFiniteSet(Slots(Requests, k)')
           /\ HeldBy(Requests)'[k] = HeldBy(Requests)[k] - HeldBy(R)[k]
<1>1. TypeOK /\ IsFiniteSet(Slots(Requests, k))
  BY Zenon DEF SlotInv
<1>2. \A r \in Requests \ R : SlotsOf(r, k)' = SlotsOf(r, k)
  BY Zenon DEF SlotsOf
<1>3. \A r \in R : SlotsOf(r, k)' = {}
  <2> SUFFICES ASSUME NEW r \in R PROVE SlotsOf(r, k)' = {}
    BY Zenon
  <2>1. requestIDToKVs'[r].kvs = <<>>
    BY Zenon DEF NoRequest
  <2> QED
    BY <2>1 DEF SlotsOf, Positions
<1>4. Slots(Requests, k)' = Slots(Requests, k) \ Slots(R, k)
  <2>1. ASSUME NEW x \in Slots(Requests, k)' PROVE x \in Slots(Requests, k) \ Slots(R, k)
    <3>1. PICK q \in Requests : x \in SlotsOf(q, k)'
      BY <2>1, Zenon DEF Slots
    <3>2. q \notin R /\ x \in SlotsOf(q, k)
      BY <1>2, <1>3, <3>1, Zenon
    <3>3. x[1] = q
      BY <1>1, <3>2, RequestFields, SlotsOfOne, Zenon
    <3>4. ASSUME NEW p \in R, x \in SlotsOf(p, k) PROVE FALSE
      BY <1>1, <3>2, <3>3, <3>4, RequestFields, SlotsOfOne, Zenon
    <3> QED
      BY <3>2, <3>4, Zenon DEF Slots
  <2>2. ASSUME NEW x \in Slots(Requests, k) \ Slots(R, k) PROVE x \in Slots(Requests, k)'
    BY <1>2, <2>2, Zenon DEF Slots
  <2> QED
    BY <2>1, <2>2, Zenon
<1>5. Slots(Requests, k) \cap Slots(R, k) = Slots(R, k)
  BY SlotsOfSome, Zenon
<1>6. /\ IsFiniteSet(Slots(Requests, k) \ Slots(R, k))
      /\ Cardinality(Slots(Requests, k) \ Slots(R, k))
           = Cardinality(Slots(Requests, k)) - Cardinality(Slots(R, k))
  BY <1>1, <1>5, FS_Difference, Zenon
<1>7. /\ HeldBy(Requests)'[k] = Cardinality(Slots(Requests, k) \ Slots(R, k))
      /\ HeldBy(Requests)[k] = Cardinality(Slots(Requests, k))
      /\ HeldBy(R)[k] = Cardinality(Slots(R, k))
  BY <1>4, Zenon DEF HeldBy
<1> QED
  BY <1>4, <1>6, <1>7, Zenon

-----------------------------------------------------------------------------
\* The loop of acquire that finds no limit reached stays within all of them.
LEMMA GrantFits ==
    ASSUME SlotInv, NEW kvs \in Seq(KVs), Blocked(kvs) = {},
           \A i \in DOMAIN kvs : perKeyLimits[kvs[i]] # 0, NEW k \in KVs
    PROVE  kvCounts[k] + Taken(kvs, Len(kvs))[k] <= perKeyLimits[k]
<1>1. kvCounts[k] \in Nat /\ perKeyLimits[k] \in Nat /\ kvCounts[k] <= perKeyLimits[k]
  BY SemaphoreAssumption, Zenon DEF SlotInv, TypeOK, LimitRespected
<1>2. CASE Taken(kvs, Len(kvs))[k] = 0
  BY <1>1, <1>2
<1>3. CASE Taken(kvs, Len(kvs))[k] # 0
  <2>1. PICK j \in 1 .. Len(kvs) :
          kvs[j] = k /\ Taken(kvs, Len(kvs))[k] = Taken(kvs, j - 1)[k] + 1
    BY <1>3, LastPlace, Zenon
  <2>2. j - 1 \in 0 .. Len(kvs) /\ j \in DOMAIN kvs
    OBVIOUS
  <2>3. Taken(kvs, j - 1)[k] \in Nat
    BY <2>2, PositionsGrow, Zenon
  <2>4. j \notin Blocked(kvs)
    BY Zenon
  <2>5. \/ kvCounts[k] + Taken(kvs, j - 1)[k] = 0
        \/ kvCounts[k] + Taken(kvs, j - 1)[k] < perKeyLimits[k]
    BY <1>1, <2>1, <2>3, <2>4 DEF Blocked
  <2> QED
    BY <1>1, <2>1, <2>2, <2>3, <2>5
<1> QED
  BY <1>2, <1>3, Zenon

\* Where the loop stops, unwind gives back all but the slot taken last, whose
\* limit was not reached when it was taken.
LEMMA RefusalKeepsOne ==
    ASSUME SlotInv, NEW kvs \in Seq(KVs), Blocked(kvs) # {},
           \A i \in DOMAIN kvs : perKeyLimits[kvs[i]] # 0
    PROVE  \E i \in 1 .. Len(kvs) :
              /\ i = Min(Blocked(kvs))
              /\ \A k \in KVs :
                   /\ Taken(kvs, i - 1)[k] \in Nat /\ Taken(kvs, UnwoundTo(i))[k] \in Nat
                   /\ Taken(kvs, i - 1)[k] - Taken(kvs, UnwoundTo(i))[k]
                         = IF i > 1 /\ kvs[i - 1] = k THEN 1 ELSE 0
              /\ i > 1 => /\ kvs[i - 1] \in KVs
                          /\ kvCounts[kvs[i - 1]] + 1 <= perKeyLimits[kvs[i - 1]]
<1>1. Blocked(kvs) \in SUBSET Nat /\ Blocked(kvs) \subseteq 1 .. Len(kvs)
  BY DEF Blocked
<1>2. PICK i \in Blocked(kvs) : i = Min(Blocked(kvs)) /\ \A y \in Blocked(kvs) : i <= y
  BY <1>1, MinFinds, Zenon
<1>3. i \in 1 .. Len(kvs)
  BY <1>1, <1>2, Zenon
<1>4. CASE i = 1
  <2>1. UnwoundTo(i) = 0 /\ i - 1 = 0 /\ 0 \in 0 .. Len(kvs)
    BY <1>4 DEF UnwoundTo
  <2>2. \A k \in KVs : Taken(kvs, 0)[k] = 0
    BY <2>1, PositionsGrow
  <2> QED
    BY <1>2, <1>3, <1>4, <2>1, <2>2
<1>5. CASE i > 1
  <2>1. /\ UnwoundTo(i) = i - 2 /\ i - 1 \in 0 .. Len(kvs) /\ i - 2 \in 0 .. Len(kvs)
        /\ (i - 1) - 1 = i - 2 /\ i - 1 > 0 /\ i - 1 \in DOMAIN kvs
    BY <1>3, <1>5 DEF UnwoundTo
  <2>2. ASSUME NEW k \in KVs
        PROVE  /\ Taken(kvs, i - 1)[k] \in Nat /\ Taken(kvs, i - 2)[k] \in Nat
               /\ Taken(kvs, i - 1)[k]
                    = Taken(kvs, i - 2)[k] + (IF kvs[i - 1] = k THEN 1 ELSE 0)
    BY <2>1, PositionsGrow
  <2>3. PICK k \in KVs : k = kvs[i - 1]
    BY <2>1
  <2>4. kvCounts[k] \in Nat /\ perKeyLimits[k] \in Nat /\ perKeyLimits[k] # 0
    BY <2>1, <2>3, SemaphoreAssumption, Zenon DEF SlotInv, TypeOK
  <2>5. i - 1 \notin Blocked(kvs) /\ i - 1 \in 1 .. Len(kvs)
    BY <1>2, <1>3, <1>5
  <2>6. \/ kvCounts[k] + Taken(kvs, i - 2)[k] = 0
        \/ kvCounts[k] + Taken(kvs, i - 2)[k] < perKeyLimits[k]
    <3>1. PICK j \in 1 .. Len(kvs) : j = i - 1
      BY <2>5, Zenon
    <3>2. j \notin Blocked(kvs) /\ kvs[j] = k
      BY <2>3, <2>5, <3>1, Zenon
    <3>3. ~(/\ kvCounts[k] + Taken(kvs, j - 1)[k] > 0
            /\ kvCounts[k] + Taken(kvs, j - 1)[k] >= perKeyLimits[k])
      BY <3>2, Zenon DEF Blocked
    <3> QED
      BY <2>1, <2>2, <2>4, <3>1, <3>3
  <2>7. kvCounts[k] + 1 <= perKeyLimits[k]
    BY <2>2, <2>4, <2>6
  <2> QED
    BY <1>2, <1>3, <1>5, <2>1, <2>2, <2>3, <2>7
<1> QED
  BY <1>3, <1>4, <1>5

\* One more slot of j is counted, and nobody holds it.
LosesOne(j) ==
    /\ kvCounts[j] + 1 <= perKeyLimits[j]
    /\ kvCounts' = [k \in KVs |-> IF k = j THEN kvCounts[k] + 1 ELSE kvCounts[k]]
    /\ UNCHANGED requestIDToKVs

\* The request is granted within the limits.
Grants(r, kvs, ttl) ==
    /\ requestIDToKVs[r] = NoRequest
    /\ kvCounts' = [k \in KVs |-> kvCounts[k] + Taken(kvs, Len(kvs))[k]]
    /\ \A k \in KVs : kvCounts'[k] <= perKeyLimits[k]
    /\ requestIDToKVs' = [requestIDToKVs EXCEPT ![r] = [kvs |-> kvs, left |-> ttl]]

\* What acquire comes to.
LEMMA AcquireMoves ==
    ASSUME SlotInv, NEW r \in Requests, NEW kvs \in Wishes, NEW ttl \in 0 .. MaxTTL,
           Acquire(r, kvs, ttl)
    PROVE  \/ UNCHANGED <<kvCounts, requestIDToKVs>>
           \/ \E j \in KVs : LosesOne(j)
           \/ Grants(r, kvs, ttl)
<1>1. kvs \in Seq(KVs) /\ kvCounts \in [KVs -> Nat]
  BY SemaphoreAssumption, Zenon DEF SlotInv, TypeOK
<1>2. CASE requestIDToKVs[r] # NoRequest \/ \E i \in DOMAIN kvs : perKeyLimits[kvs[i]] = 0
  BY <1>2, Zenon DEF Acquire
<1>3. ASSUME requestIDToKVs[r] = NoRequest, \A i \in DOMAIN kvs : perKeyLimits[kvs[i]] # 0,
             Blocked(kvs) # {}
      PROVE  \/ UNCHANGED <<kvCounts, requestIDToKVs>>
             \/ \E j \in KVs : LosesOne(j)
  <2>1. PICK i \in 1 .. Len(kvs) :
              /\ i = Min(Blocked(kvs))
              /\ \A k \in KVs :
                   /\ Taken(kvs, i - 1)[k] \in Nat /\ Taken(kvs, UnwoundTo(i))[k] \in Nat
                   /\ Taken(kvs, i - 1)[k] - Taken(kvs, UnwoundTo(i))[k]
                         = IF i > 1 /\ kvs[i - 1] = k THEN 1 ELSE 0
              /\ i > 1 => /\ kvs[i - 1] \in KVs
                          /\ kvCounts[kvs[i - 1]] + 1 <= perKeyLimits[kvs[i - 1]]
    BY <1>1, <1>3, RefusalKeepsOne, Zenon
  <2>2. /\ kvCounts' = Minus(Plus(kvCounts, Taken(kvs, i - 1)), Taken(kvs, UnwoundTo(i)))
        /\ UNCHANGED requestIDToKVs
    BY <1>3, <2>1, Zenon DEF Acquire
  <2>3. kvCounts' = [k \in KVs |-> (kvCounts[k] + Taken(kvs, i - 1)[k])
                                      - Taken(kvs, UnwoundTo(i))[k]]
    BY <2>2, Zenon DEF Minus, Plus
  <2>4. \A k \in KVs : (kvCounts[k] + Taken(kvs, i - 1)[k]) - Taken(kvs, UnwoundTo(i))[k]
            = IF i > 1 /\ kvs[i - 1] = k THEN kvCounts[k] + 1 ELSE kvCounts[k]
    BY <1>1, <2>1
  <2>5. kvCounts' = [k \in KVs |->
                       IF i > 1 /\ kvs[i - 1] = k THEN kvCounts[k] + 1 ELSE kvCounts[k]]
    BY <2>3, <2>4, Zenon
  <2>6. CASE i > 1
    BY <2>1, <2>2, <2>5, <2>6, Zenon DEF LosesOne
  <2>7. CASE ~(i > 1)
    BY <1>1, <2>2, <2>5, <2>7, Zenon
  <2> QED
    BY <2>6, <2>7, Zenon
<1>4. ASSUME requestIDToKVs[r] = NoRequest, \A i \in DOMAIN kvs : perKeyLimits[kvs[i]] # 0,
             Blocked(kvs) = {}
      PROVE  Grants(r, kvs, ttl)
  <2>1. /\ kvCounts' = Plus(kvCounts, Taken(kvs, Len(kvs)))
        /\ requestIDToKVs' = [requestIDToKVs EXCEPT ![r] = [kvs |-> kvs, left |-> ttl]]
    BY <1>4, Zenon DEF Acquire
  <2>2. \A k \in KVs : kvCounts[k] + Taken(kvs, Len(kvs))[k] <= perKeyLimits[k]
    BY <1>1, <1>4, GrantFits, Zenon
  <2> QED
    BY <1>4, <2>1, <2>2, Zenon DEF Grants, Plus
<1> QED
  BY <1>2, <1>3, <1>4, Zenon

-----------------------------------------------------------------------------
RequestState == [kvs : Wishes, left : 0 .. MaxTTL] \cup {NoRequest}

\* What is not about slots keeps its type.
LEMMA OtherTypes ==
    ASSUME TypeOK, [Next]_vars
    PROVE  /\ gcAfter' \in GCAfters /\ timely' \in BOOLEAN /\ active' \in BOOLEAN
           /\ timers' \in [0 .. Period -> Nat]
           /\ idle' \in 0 .. gcAfter' + 1
<1>1. /\ gcAfter \in GCAfters /\ gcAfter \in Nat /\ timely \in BOOLEAN /\ active \in BOOLEAN
      /\ timers \in [0 .. Period -> Nat] /\ idle \in 0 .. gcAfter + 1
      /\ Period \in Nat /\ Period # 0 /\ 0 \in 0 .. gcAfter + 1
  BY SemaphoreAssumption DEF TypeOK
<1>2. [t \in 0 .. Period |-> 0] \in [0 .. Period -> Nat]
  BY Zenon
<1>3. ASSUME NEW ts \in [0 .. Period -> Nat]
      PROVE  ScheduleNextHouseclean(ts) \in [0 .. Period -> Nat]
  BY <1>1 DEF ScheduleNextHouseclean
<1>4. CASE Activate
  BY <1>1, <1>3, <1>4, Zenon DEF Activate, options
<1>5. ASSUME NEW r \in Requests, NEW kvs \in Wishes, NEW ttl \in 0 .. MaxTTL, Acquire(r, kvs, ttl)
      PROVE  /\ UNCHANGED <<gcAfter, timely, active, timers>> /\ idle' = 0
  BY <1>5, Zenon DEF Acquire, options
<1>6. ASSUME NEW r \in Requests, Release(r)
      PROVE  /\ UNCHANGED <<gcAfter, timely, active, timers>> /\ idle' = 0
  BY <1>6, Zenon DEF Release, options
<1>7. ASSUME FireTimer
      PROVE  /\ UNCHANGED <<gcAfter, timely, active>> /\ idle' \in {idle, 0}
             /\ timers' \in [0 .. Period -> Nat]
  <2>1. PICK ts : ts = [timers EXCEPT ![0] = @ - 1]
    BY Zenon
  <2>2. ts \in [0 .. Period -> Nat]
    BY <1>1, <1>7, <2>1 DEF FireTimer
  <2> QED
    BY <1>3, <1>7, <2>1, <2>2, Zenon DEF FireTimer, Houseclean, options
<1>8. CASE Collect
  BY <1>1, <1>8, Zenon DEF Collect, options
<1>9. CASE Replace
  BY <1>1, <1>2, <1>3, <1>9, Zenon DEF Replace, options
<1>10. CASE Crash
  BY <1>1, <1>2, <1>10, Zenon DEF Crash, options
<1>11. CASE Tick
  <2>1. timers' \in [0 .. Period -> Nat]
    BY <1>1, <1>11 DEF Tick
  <2> QED
    BY <1>1, <1>11, <2>1 DEF Tick, options
<1>12. CASE UNCHANGED vars
  BY <1>1, <1>12, Zenon DEF vars
<1> QED
  BY <1>1, <1>4, <1>5, <1>6, <1>7, <1>8, <1>9, <1>10, <1>11, <1>12, Zenon DEF Next

\* Time passes for a request: its list stays, an unknown one stays unknown.
LEMMA TickFields ==
    ASSUME TypeOK, Tick, NEW r \in Requests
    PROVE  requestIDToKVs'[r] \in RequestState /\ requestIDToKVs'[r].kvs = requestIDToKVs[r].kvs
<1>1. PICK x \in RequestState : x = requestIDToKVs[r]
  BY Zenon DEF TypeOK, RequestState
<1>2. requestIDToKVs'[r] = [x EXCEPT !.left = IF @ > 0 THEN @ - 1 ELSE @]
  BY <1>1, Zenon DEF Tick
<1>3. CASE x = NoRequest
  <2>1. \A y \in {[NoRequest EXCEPT !.left = IF @ > 0 THEN @ - 1 ELSE @]} : y = NoRequest
    BY DEF NoRequest
  <2> QED
    BY <1>1, <1>2, <1>3, <2>1, Zenon
<1>4. CASE x \in [kvs : Wishes, left : 0 .. MaxTTL]
  <2>1. \A y \in {[x EXCEPT !.left = IF @ > 0 THEN @ - 1 ELSE @]} :
          y \in [kvs : Wishes, left : 0 .. MaxTTL] /\ y.kvs = x.kvs
    BY <1>4, SemaphoreAssumption
  <2> QED
    BY <1>1, <1>2, <2>1, Zenon DEF RequestState
<1> QED
  BY <1>3, <1>4, Zenon DEF RequestState

\* Counts and holders that a step leaves within each other and the limits.
LEMMA SlotFrame ==
    ASSUME SlotInv, [Next]_vars,
           kvCounts' = [k \in KVs |-> kvCounts'[k]],
           requestIDToKVs' \in [Requests -> RequestState],
           \A k \in KVs : /\ IsFiniteSet(Slots(Requests, k)')
                          /\ kvCounts'[k] \in Int
                          /\ HeldBy(Requests)'[k] <= kvCounts'[k]
                          /\ kvCounts'[k] <= perKeyLimits[k]
    PROVE  SlotInv'
<1>1. \A k \in KVs : HeldBy(Requests)'[k] \in Nat
  BY FS_CardinalityType, Zenon DEF HeldBy
<1>2. \A k \in KVs : kvCounts'[k] \in Nat
  BY <1>1
<1>3. kvCounts' \in [KVs -> Nat]
  BY <1>2, Zenon
<1>4. TypeOK'
  BY <1>3, OtherTypes, Zenon DEF SlotInv, TypeOK, RequestState
<1>5. LimitRespected'
  BY Zenon DEF LimitRespected
<1> QED
  BY <1>4, <1>5, Zenon DEF SlotInv

\* What SlotInv says of one key.
LEMMA SlotFields ==
    ASSUME SlotInv, NEW k \in KVs
    PROVE  /\ kvCounts[k] \in Nat /\ HeldBy(Requests)[k] \in Nat /\ perKeyLimits[k] \in Nat
           /\ HeldBy(Requests)[k] <= kvCounts[k] /\ kvCounts[k] <= perKeyLimits[k]
           /\ IsFiniteSet(Slots(Requests, k))
  BY SlotsOfSome, SemaphoreAssumption, Zenon DEF SlotInv, TypeOK, LimitRespected

\* Counts and lists as they were.
LEMMA SlotsSame ==
    ASSUME SlotInv, [Next]_vars, UNCHANGED kvCounts,
           requestIDToKVs' \in [Requests -> RequestState],
           \A r \in Requests : requestIDToKVs'[r].kvs = requestIDToKVs[r].kvs
    PROVE  SlotInv' /\ LosesAtMostOneSlot
<1>1. \A k \in KVs : /\ Slots(Requests, k)' = Slots(Requests, k)
                     /\ HeldBy(Requests)'[k] = HeldBy(Requests)[k]
  BY SlotsKept, Zenon
<1>2. kvCounts' = [k \in KVs |-> kvCounts'[k]]
  BY Zenon DEF SlotInv, TypeOK
<1>3. SlotInv'
  BY <1>1, <1>2, SlotFields, SlotFrame
<1>4. \A k \in KVs : Lost(k)' = Lost(k)
  BY <1>1, Zenon DEF Lost
<1> QED
  BY <1>3, <1>4, SlotFields DEF LosesAtMostOneSlot, Lost

\* An instance that starts afresh.
LEMMA ForgetStep ==
    ASSUME SlotInv, [Next]_vars, Forget
    PROVE  SlotInv' /\ LosesAtMostOneSlot
<1>1. /\ \A r \in Requests : requestIDToKVs'[r] = NoRequest
      /\ \A k \in KVs : kvCounts'[k] = 0
      /\ kvCounts' = [k \in KVs |-> kvCounts'[k]]
      /\ requestIDToKVs' \in [Requests -> RequestState]
  BY Zenon DEF Forget, NoCounts, RequestState
<1>2. \A k \in KVs : Slots(Requests, k)' = {} /\ HeldBy(Requests)'[k] = 0
  BY <1>1, SlotsForgottenNext, Zenon
<1>3. SlotInv'
  <2>1. \A k \in KVs : /\ IsFiniteSet(Slots(Requests, k)')
                       /\ kvCounts'[k] \in Int /\ HeldBy(Requests)'[k] <= kvCounts'[k]
                       /\ kvCounts'[k] <= perKeyLimits[k]
    BY <1>1, <1>2, SlotFields, FS_EmptySet
  <2> QED
    BY <1>1, <2>1, SlotFrame, Zenon
<1>4. \A k \in KVs : Lost(k)' <= Lost(k) /\ Lost(k)' \in Int /\ Lost(k) \in Int
  BY <1>1, <1>2, SlotFields DEF Lost
<1> QED
  BY <1>3, <1>4 DEF LosesAtMostOneSlot

\* Requests that are released or have expired.
LEMMA DropStep ==
    ASSUME SlotInv, [Next]_vars, NEW R \in SUBSET Requests, Drop(R)
    PROVE  SlotInv' /\ LosesAtMostOneSlot
<1>1. /\ kvCounts' = [k \in KVs |-> kvCounts[k] - HeldBy(R)[k]]
      /\ requestIDToKVs' = [r \in Requests |-> IF r \in R THEN NoRequest ELSE requestIDToKVs[r]]
  BY Zenon DEF Drop, Minus
<1>2. requestIDToKVs' \in [Requests -> RequestState]
  BY <1>1, Zenon DEF SlotInv, TypeOK, RequestState
<1>3. \A k \in KVs : /\ IsFiniteSet(Slots(Requests, k)')
                     /\ HeldBy(Requests)'[k] = HeldBy(Requests)[k] - HeldBy(R)[k]
  BY <1>1, SlotsDropped, Zenon
<1>4. \A k \in KVs : HeldBy(R)[k] \in Nat /\ kvCounts'[k] = kvCounts[k] - HeldBy(R)[k]
  BY <1>1, SlotsOfSome, Zenon
<1>5. SlotInv'
  BY <1>1, <1>2, <1>3, <1>4, SlotFields, SlotFrame
<1>6. \A k \in KVs : Lost(k)' = Lost(k) /\ Lost(k) \in Int
  BY <1>3, <1>4, SlotFields DEF Lost
<1> QED
  BY <1>5, <1>6 DEF LosesAtMostOneSlot

\* acquire keeps everything within the limits, and loses at most one slot.
LEMMA AcquireStep ==
    ASSUME SlotInv, [Next]_vars, NEW r \in Requests, NEW kvs \in Wishes,
           NEW ttl \in 0 .. MaxTTL, Acquire(r, kvs, ttl)
    PROVE  SlotInv' /\ LosesAtMostOneSlot
<1>1. requestIDToKVs \in [Requests -> RequestState]
  BY Zenon DEF SlotInv, TypeOK, RequestState
<1>2. active /\ active' /\ UNCHANGED timers
  BY Zenon DEF Acquire
<1>3. CASE UNCHANGED <<kvCounts, requestIDToKVs>>
  BY <1>1, <1>3, SlotsSame, Zenon
<1>4. ASSUME NEW j \in KVs, LosesOne(j) PROVE SlotInv' /\ LosesAtMostOneSlot
  <2>1. /\ \A k \in KVs : kvCounts'[k] = IF k = j THEN kvCounts[k] + 1 ELSE kvCounts[k]
        /\ kvCounts' = [k \in KVs |-> kvCounts'[k]]
        /\ requestIDToKVs' = requestIDToKVs /\ kvCounts[j] + 1 <= perKeyLimits[j]
    BY <1>4, Zenon DEF LosesOne
  <2>2. \A k \in KVs : /\ Slots(Requests, k)' = Slots(Requests, k)
                       /\ HeldBy(Requests)'[k] = HeldBy(Requests)[k]
    BY <2>1, SlotsKept, Zenon
  <2>3. SlotInv'
    BY <1>1, <2>1, <2>2, SlotFields, SlotFrame
  <2>4. /\ Lost(j)' = Lost(j) + 1
        /\ \A k \in KVs \ {j} : Lost(k)' = Lost(k)
    BY <2>1, <2>2, SlotFields DEF Lost
  <2> QED
    BY <1>2, <2>1, <2>3, <2>4, Zenon DEF LosesAtMostOneSlot
<1>5. ASSUME Grants(r, kvs, ttl) PROVE SlotInv' /\ LosesAtMostOneSlot
  <2>1. /\ requestIDToKVs[r] = NoRequest /\ kvs \in Seq(KVs)
        /\ \A k \in KVs : /\ kvCounts'[k] = kvCounts[k] + Taken(kvs, Len(kvs))[k]
                           /\ kvCounts'[k] <= perKeyLimits[k]
        /\ kvCounts' = [k \in KVs |-> kvCounts'[k]]
        /\ requestIDToKVs' = [requestIDToKVs EXCEPT ![r] = [kvs |-> kvs, left |-> ttl]]
    BY <1>5, SemaphoreAssumption, Zenon DEF Grants
  <2>2. requestIDToKVs' \in [Requests -> RequestState]
    BY <1>1, <2>1, Zenon DEF RequestState
  <2>3. \A k \in KVs : /\ IsFiniteSet(Slots(Requests, k)')
                       /\ HeldBy(Requests)'[k] = HeldBy(Requests)[k] + Taken(kvs, Len(kvs))[k]
    BY <2>1, SlotsGranted, Zenon
  <2>4. \A k \in KVs : Taken(kvs, Len(kvs))[k] \in Nat
    <3>1. Len(kvs) \in 0 .. Len(kvs)
      BY <2>1
    <3> QED
      BY <2>1, <3>1, PositionsGrow, Zenon
  <2>5. SlotInv'
    <3>1. \A k \in KVs : kvCounts'[k] \in Int /\ HeldBy(Requests)'[k] <= kvCounts'[k]
      BY <2>1, <2>3, <2>4, SlotFields
    <3> QED
      BY <2>1, <2>2, <2>3, <3>1, SlotFrame, Zenon
  <2>6. \A k \in KVs : Lost(k)' = Lost(k) /\ Lost(k) \in Int
    BY <2>1, <2>3, <2>4, SlotFields DEF Lost
  <2> QED
    BY <2>5, <2>6 DEF LosesAtMostOneSlot
<1> QED
  BY <1>3, <1>4, <1>5, AcquireMoves, Zenon

\* Every step keeps SlotInv and loses at most one slot.
LEMMA SlotStep == SlotInv /\ [Next]_vars => SlotInv' /\ LosesAtMostOneSlot
<1> SUFFICES ASSUME SlotInv, [Next]_vars PROVE SlotInv' /\ LosesAtMostOneSlot
  BY Zenon
<1>1. TypeOK /\ requestIDToKVs \in [Requests -> RequestState]
  BY Zenon DEF SlotInv, TypeOK, RequestState
<1>2. CASE Activate \/ Collect \/ Replace \/ Crash
  BY <1>2, ForgetStep, Zenon DEF Activate, Collect, Replace, Crash
<1>3. ASSUME NEW r \in Requests, NEW kvs \in Wishes, NEW ttl \in 0 .. MaxTTL, Acquire(r, kvs, ttl)
      PROVE  SlotInv' /\ LosesAtMostOneSlot
  BY <1>3, AcquireStep, Zenon
<1>4. ASSUME NEW r \in Requests, Release(r) PROVE SlotInv' /\ LosesAtMostOneSlot
  BY <1>4, DropStep, Zenon DEF Release
<1>5. CASE FireTimer
  <2>1. CASE active
    <3>1. Drop(Expired) /\ Expired \in SUBSET Requests
      BY <1>5, <2>1, Zenon DEF FireTimer, Houseclean, Expired
    <3> QED
      BY <3>1, DropStep, Zenon
  <2>2. CASE ~active
    BY <1>1, <1>5, <2>2, SlotsSame, Zenon DEF FireTimer
  <2> QED
    BY <2>1, <2>2, Zenon
<1>6. CASE Tick
  <2>1. requestIDToKVs' = [r \in Requests |-> requestIDToKVs'[r]]
    BY <1>6, Zenon DEF Tick
  <2>2. requestIDToKVs' \in [Requests -> RequestState]
    BY <1>1, <1>6, <2>1, TickFields, Zenon
  <2> QED
    BY <1>1, <1>6, <2>2, TickFields, SlotsSame, Zenon DEF Tick
<1>7. CASE UNCHANGED vars
  BY <1>1, <1>7, SlotsSame, Zenon DEF vars
<1> QED
  BY <1>2, <1>3, <1>4, <1>5, <1>6, <1>7, Zenon DEF Next

\* No instance, no slots.
LEMMA SlotInit == Init => SlotInv
<1> SUFFICES ASSUME Init PROVE SlotInv
  BY Zenon
<1>1. TypeOK
  <2>1. gcAfter \in Nat /\ idle \in 0 .. gcAfter + 1
    BY SemaphoreAssumption DEF Init
  <2>2. requestIDToKVs \in [Requests -> RequestState]
    BY Zenon DEF Init, RequestState
  <2>3. kvCounts \in [KVs -> Nat] /\ timers \in [0 .. Period -> Nat]
    BY Zenon DEF Init, NoCounts
  <2> QED
    BY <2>1, <2>2, <2>3, Zenon DEF Init, TypeOK, RequestState
<1>2. \A r \in Requests : requestIDToKVs[r] = NoRequest
  BY Zenon DEF Init
<1>3. \A k \in KVs : Slots(Requests, k) = {} /\ HeldBy(Requests)[k] = 0
  BY <1>2, SlotsForgotten, Zenon
<1>4. \A k \in KVs : kvCounts[k] = 0 /\ perKeyLimits[k] \in Nat
  BY SemaphoreAssumption, Zenon DEF Init, NoCounts
<1> QED
  BY <1>1, <1>3, <1>4, FS_EmptySet DEF SlotInv, LimitRespected

\* No count goes below zero (decrKV, main.go:172), whatever requests come.
THEOREM TypeCorrect == Spec => []TypeOK
<1>1. SlotInv => TypeOK
  BY Zenon DEF SlotInv
<1> QED
  BY <1>1, SlotInit, SlotStep, PTL DEF Spec

\* The semaphore is one: requests never hold more slots of a kv than its limit,
\* for lists of any length with any repetitions, any limits and any number of
\* requests, refused or granted (acquire, main.go:65).
THEOREM LimitsHold == Spec => []LimitRespected
<1>1. SlotInv => LimitRespected
  BY Zenon DEF SlotInv
<1> QED
  BY <1>1, SlotInit, SlotStep, PTL DEF Spec

\* unwind (main.go:159) is off by one and never by more: a step that makes counts
\* and holders differ further is a refusal, and it loses one slot of one kv.
THEOREM RefusalsLoseLittle == Spec => RefusalLosesAtMostOneSlot
<1>1. SlotInv /\ [Next]_vars => [LosesAtMostOneSlot]_vars
  BY SlotStep, Zenon
<1>2. SlotInv /\ [Next]_vars => SlotInv'
  BY SlotStep, Zenon
<1> QED
  BY <1>1, <1>2, SlotInit, PTL DEF Spec, RefusalLosesAtMostOneSlot

-----------------------------------------------------------------------------
\* A timer that is set is the only one if there was none.
LEMMA ScheduleFacts ==
    ASSUME NEW ts \in [0 .. Period -> Nat]
    PROVE  /\ ScheduleNextHouseclean(ts)[Period] > 0
           /\ ts = NoTimers => ScheduleNextHouseclean(ts) = Single(Period)
<1>1. Period \in 0 .. Period /\ ts[Period] \in Nat
  BY SemaphoreAssumption
<1>2. ScheduleNextHouseclean(ts) = [u \in 0 .. Period |-> IF u = Period THEN ts[u] + 1 ELSE ts[u]]
  BY Zenon DEF ScheduleNextHouseclean
<1>3. ASSUME ts = NoTimers PROVE ScheduleNextHouseclean(ts) = Single(Period)
  BY <1>2, <1>3 DEF NoTimers, Single
<1> QED
  BY <1>1, <1>2, <1>3

\* Every step leaves an instance with a timer, on time if timers are.
LEMMA TimerStep == TypeOK /\ TimerInv /\ [Next]_vars => TimerInv'
<1> SUFFICES ASSUME TypeOK, TimerInv, [Next]_vars PROVE TimerInv'
  BY Zenon
<1>1. /\ timers' \in [0 .. Period -> Nat] /\ idle' \in Nat /\ gcAfter' \in Nat
      /\ timers \in [0 .. Period -> Nat] /\ idle \in Nat /\ gcAfter \in Nat
      /\ Period \in Nat /\ Period > 0 /\ NoTimers \in [0 .. Period -> Nat]
  <2>1. Period \in Nat /\ Period > 0 /\ GCAfters \subseteq Nat
    BY SemaphoreAssumption
  <2>2. /\ gcAfter' \in GCAfters /\ timers' \in [0 .. Period -> Nat]
        /\ idle' \in 0 .. gcAfter' + 1
    BY OtherTypes, Zenon
  <2>3. gcAfter' \in Nat
    BY <2>1, <2>2, Zenon
  <2>4. idle' \in Nat
    BY <2>2, <2>3
  <2> QED
    BY <2>1, <2>2, <2>3, <2>4, Zenon DEF TimerInv, NoTimers
<1>2. Period \in 0 .. Period /\ 0 \in 0 .. Period
  BY <1>1
<1>3. CASE Activate
  <2>1. /\ timers' = ScheduleNextHouseclean(timers) /\ idle' = 0 /\ active' /\ ~active
        /\ UNCHANGED <<gcAfter, timely>>
    BY <1>3, Zenon DEF Activate, options
  <2>2. timers'[Period] > 0 /\ (timers = NoTimers => timers' = Single(Period))
    BY <1>1, <2>1, ScheduleFacts, Zenon
  <2> QED
    BY <1>1, <1>2, <2>1, <2>2 DEF TimerInv
<1>4. ASSUME UNCHANGED <<gcAfter, timely, active, timers>>, idle' \in {0, idle} PROVE TimerInv'
  <2>1. active => \E t \in 0 .. Period : timers[t] > 0
    BY Zenon DEF TimerInv
  <2>2. ASSUME timely, gcAfter >= Period, active
        PROVE  \E t \in 0 .. Period : timers = Single(t) /\ idle' + t <= Period
    <3>1. PICK t \in 0 .. Period : timers = Single(t) /\ idle + t <= Period
      BY <2>2, Zenon DEF TimerInv
    <3>2. idle' + t <= Period
      <4>1. t \in Nat /\ t <= Period
        BY <1>1
      <4>2. CASE idle' = 0
        BY <4>1, <4>2
      <4>3. CASE idle' = idle
        BY <3>1, <4>3, Zenon
      <4> QED
        BY <1>4, <4>2, <4>3, Zenon
    <3> QED
      BY <3>1, <3>2, Zenon
  <2>3. timely /\ gcAfter >= Period /\ ~active => timers = NoTimers
    BY Zenon DEF TimerInv
  <2> QED
    BY <1>1, <1>4, <2>1, <2>2, <2>3, Zenon DEF TimerInv, Single, NoTimers
<1>5. ASSUME NEW r \in Requests, NEW kvs \in Wishes, NEW ttl \in 0 .. MaxTTL, Acquire(r, kvs, ttl)
      PROVE  TimerInv'
  BY <1>4, <1>5, Zenon DEF Acquire, options
<1>6. ASSUME NEW r \in Requests, Release(r) PROVE TimerInv'
  BY <1>4, <1>6, Zenon DEF Release, options
<1>7. CASE FireTimer
  <2>1. PICK ts : ts = [timers EXCEPT ![0] = @ - 1]
    BY Zenon
  <2>2. ts \in [0 .. Period -> Nat] /\ timers[0] > 0 /\ UNCHANGED <<gcAfter, timely, active>>
    BY <1>1, <1>2, <1>7, <2>1 DEF FireTimer, options
  <2>3. timers # NoTimers
    BY <1>2, <2>2 DEF NoTimers
  <2>4. CASE ~active
    BY <1>1, <1>7, <2>2, <2>3, <2>4, Zenon DEF TimerInv
  <2>5. CASE active
    <3>1. timers' = ScheduleNextHouseclean(ts) /\ idle' = 0
      BY <1>7, <2>1, <2>5, Zenon DEF FireTimer, Houseclean
    <3>2. timers'[Period] > 0 /\ (ts = NoTimers => timers' = Single(Period))
      BY <2>2, <3>1, ScheduleFacts, Zenon
    <3>3. ASSUME timely, gcAfter >= Period PROVE ts = NoTimers
      <4>1. PICK t \in 0 .. Period : timers = Single(t)
        BY <2>5, <3>3, Zenon DEF TimerInv
      <4>2. t = 0
        BY <1>2, <2>2, <4>1 DEF Single
      <4> QED
        BY <1>2, <2>1, <4>1, <4>2 DEF Single, NoTimers
    <3>4. timely /\ gcAfter >= Period => timers' = Single(Period) /\ idle' + Period <= Period
      BY <1>1, <3>1, <3>2, <3>3
    <3> QED
      BY <1>1, <1>2, <2>2, <2>5, <3>2, <3>4, Zenon DEF TimerInv, Single
  <2> QED
    BY <2>4, <2>5, Zenon
<1>8. CASE Collect
  <2>1. active /\ idle > gcAfter /\ ~active' /\ UNCHANGED <<gcAfter, timely>>
    BY <1>8, Zenon DEF Collect, options
  <2>2. ~(timely /\ gcAfter >= Period)
    BY <1>1, <2>1 DEF TimerInv
  <2> QED
    BY <1>1, <2>1, <2>2, Zenon DEF TimerInv
<1>9. CASE Replace
  <2>1. /\ timers' = ScheduleNextHouseclean(NoTimers) /\ idle' = 0 /\ active' = active /\ active
    BY <1>9, Zenon DEF Replace, NoTimers
  <2>2. timers'[Period] > 0 /\ timers' = Single(Period)
    BY <1>1, <2>1, ScheduleFacts, Zenon
  <2> QED
    BY <1>1, <1>2, <2>1, <2>2 DEF TimerInv
<1>10. CASE Crash
  BY <1>1, <1>10, Zenon DEF Crash, TimerInv, NoTimers
<1>11. CASE Tick
  <2>1. /\ UNCHANGED <<gcAfter, timely, active>> /\ (timely => timers[0] = 0)
        /\ idle' = IF active /\ idle <= gcAfter THEN idle + 1 ELSE idle
        /\ \A t \in 0 .. Period : timers'[t] = IF t = Period THEN 0
                                     ELSE timers[t + 1] + (IF t = 0 THEN timers[0] ELSE 0)
        /\ timers' = [t \in 0 .. Period |-> timers'[t]]
    BY <1>11, Zenon DEF Tick, options
  <2>2. ASSUME active PROVE \E t \in 0 .. Period : timers'[t] > 0
    <3>1. PICK t \in 0 .. Period : timers[t] > 0
      BY <2>2, Zenon DEF TimerInv
    <3>2. CASE t = 0
      <4>1. timers'[0] = timers[1] + timers[0] /\ timers[1] \in Nat /\ timers[0] \in Nat
        BY <1>1, <1>2, <2>1
      <4> QED
        BY <1>2, <3>1, <3>2, <4>1
    <3>3. CASE t > 0
      <4>1. t - 1 \in 0 .. Period /\ t - 1 # Period /\ (t - 1) + 1 = t
        BY <1>1, <3>3
      <4>2. timers'[t - 1] = timers[t] + (IF t - 1 = 0 THEN timers[0] ELSE 0)
        BY <2>1, <4>1, Zenon
      <4> QED
        BY <1>1, <1>2, <3>1, <4>1, <4>2
    <3> QED
      BY <3>2, <3>3
  <2>3. ASSUME timely, gcAfter >= Period, active
        PROVE  \E t \in 0 .. Period : timers' = Single(t) /\ idle' + t <= Period
    <3>1. PICK t \in 0 .. Period : timers = Single(t) /\ idle + t <= Period
      BY <2>3, Zenon DEF TimerInv
    <3>2. t > 0
      BY <1>2, <2>1, <2>3, <3>1 DEF Single
    <3>3. t - 1 \in 0 .. Period
      BY <1>1, <3>2
    <3>4. \A u \in 0 .. Period : timers'[u] = IF u = t - 1 THEN 1 ELSE 0
      <4> SUFFICES ASSUME NEW u \in 0 .. Period
                   PROVE  timers'[u] = IF u = t - 1 THEN 1 ELSE 0
        BY Zenon
      <4>1. CASE u = Period
        BY <1>1, <2>1, <4>1
      <4>2. CASE u # Period
        <5>1. u + 1 \in 0 .. Period /\ timers'[u] = timers[u + 1] + 0
          BY <1>1, <2>1, <2>3, <4>2
        <5>2. timers[u + 1] = IF u + 1 = t THEN 1 ELSE 0
          BY <3>1, <5>1, Zenon DEF Single
        <5> QED
          BY <5>1, <5>2
      <4> QED
        BY <4>1, <4>2, Zenon
    <3>5. timers' = Single(t - 1)
      BY <2>1, <3>4, Zenon DEF Single
    <3>6. idle' + (t - 1) <= Period
      BY <1>1, <2>1, <2>3, <3>1
    <3> QED
      BY <3>3, <3>5, <3>6, Zenon
  <2>4. ASSUME timers = NoTimers PROVE timers' = NoTimers
    <3>1. \A u \in 0 .. Period : timers'[u] = 0
      <4> SUFFICES ASSUME NEW u \in 0 .. Period PROVE timers'[u] = 0
        BY Zenon
      <4>1. CASE u = Period
        BY <2>1, <4>1, Zenon
      <4>2. CASE u # Period
        <5>1. u + 1 \in 0 .. Period
          BY <1>1, <4>2
        <5> QED
          BY <1>2, <2>1, <2>4, <4>2, <5>1 DEF NoTimers
      <4> QED
        BY <4>1, <4>2, Zenon
    <3> QED
      BY <2>1, <3>1, Zenon DEF NoTimers
  <2> QED
    BY <1>1, <2>1, <2>2, <2>3, <2>4, Zenon DEF TimerInv, NoTimers, Single
<1>12. CASE UNCHANGED vars
  BY <1>4, <1>12, Zenon DEF vars
<1> QED
  BY <1>3, <1>5, <1>6, <1>7, <1>8, <1>9, <1>10, <1>11, <1>12, Zenon DEF Next

\* An instance always has a housecleaning ahead of it (main.go:130); with timely
\* timers and a gcAfter of a period or more it has exactly one, which keeps gcFunc
\* (activations.go:467) from ever finding the actor idle.
THEOREM HousecleaningGoesOn == Spec => []HousecleanIsScheduled
<1>1. Init => TypeOK /\ TimerInv
  <2> SUFFICES ASSUME Init PROVE TypeOK /\ TimerInv
    BY Zenon
  <2>1. TypeOK
    BY SlotInit, Zenon DEF SlotInv
  <2> QED
    BY <2>1, SemaphoreAssumption, Zenon DEF Init, TimerInv, NoTimers
<1>2. TypeOK /\ TimerInv => HousecleanIsScheduled
  <2> SUFFICES ASSUME TimerInv, active PROVE
           /\ \E t \in 0 .. Period : timers[t] > 0
           /\ timely /\ gcAfter >= Period =>
                /\ \E t \in 0 .. Period : timers = Single(t)
                /\ idle <= gcAfter
    BY Zenon DEF HousecleanIsScheduled, Single
  <2>1. Period \in Nat
    BY SemaphoreAssumption, Zenon
  <2> QED
    BY <2>1 DEF TimerInv
<1> QED
  BY <1>1, <1>2, TypeCorrect, TimerStep, PTL DEF Spec

=============================================================================
