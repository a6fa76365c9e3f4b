------------------------- MODULE DNSRegistryProofs -------------------------
(***************************************************************************)
(* Proofs about module DNSRegistry, for any processes, hosts, replicas and *)
(* actors, and any hash functions under which no two hosts share a point.  *)
(***************************************************************************)
EXTENDS DNSRegistry, FiniteSetTheorems, WellFoundedInduction, TLAPS

\* No two hosts have a point in common.
PointsDiffer ==
    \A f \in Placements : \A h, g \in Hosts : \A q, r \in 1..Replicas :
        f.host[<<h, q>>] = f.host[<<g, r>>] => h = g

\* Every ring is a list of hosts, made under one hash function.
RingInv ==
    /\ hash \in Placements
    /\ dns \subseteq Hosts
    /\ ring \in [Processes -> Seq(Hosts)]

-----------------------------------------------------------------------------
\* A set of naturals has a least element: sort.Search finds a first point.
LEMMA MinExists ==
    ASSUME NEW T \in SUBSET Nat, T # {}
    PROVE  Min(T) \in T /\ \A y \in T : Min(T) <= y
<1>1. PICK x \in T : \A y \in T : ~(<<y, x>> \in OpToRel(<, Nat))
  BY NatLessThanWellFounded, WFMin, Zenon
<1>2. \A y \in T : x <= y
  <2> SUFFICES ASSUME NEW y \in T, ~(x <= y) PROVE FALSE
    OBVIOUS
  <2>1. y \in Nat /\ x \in Nat /\ y < x
    OBVIOUS
  <2>2. <<y, x>> \in OpToRel(<, Nat)
    BY <2>1, Zenon DEF OpToRel
  <2> QED
    BY <1>1, <2>2, Zenon
<1> QED
  BY <1>2, Zenon DEF Min

\* A set of positions of a list has a last one.
LEMMA LastExists ==
    ASSUME NEW n \in Nat, NEW T \in SUBSET (1..n), T # {}
    PROVE  \E x \in T : \A y \in T : y <= x
<1> DEFINE U == {n - t : t \in T}
<1>1. U \in SUBSET Nat /\ U # {}
  <2>1. \A t \in T : n - t \in Nat
    OBVIOUS
  <2> QED
    BY <2>1, Zenon
<1>2. PICK u \in U : \A v \in U : u <= v
  BY <1>1, MinExists, Zenon
<1>3. PICK x \in T : u = n - x
  BY <1>2
<1>4. \A y \in T : n - x <= n - y
  BY <1>2, <1>3, Zenon
<1> QED
  BY <1>4

\* The points of a ring's hosts, whatever their order.
PointsOf(S) == {hash.host[x] : x \in S \X (1..Replicas)}

\* A point belongs to a host and a replica.
LEMMA PointOf ==
    ASSUME NEW S, NEW y
    PROVE  y \in PointsOf(S) <=> \E h \in S : \E r \in 1..Replicas : y = hash.host[<<h, r>>]
<1>1. ASSUME y \in PointsOf(S)
      PROVE  \E h \in S : \E r \in 1..Replicas : y = hash.host[<<h, r>>]
  <2>1. PICK x \in S \X (1..Replicas) : y = hash.host[x]
    BY <1>1 DEF PointsOf
  <2>2. x = <<x[1], x[2]>> /\ x[1] \in S /\ x[2] \in 1..Replicas
    OBVIOUS
  <2> QED
    BY <2>1, <2>2, Zenon
<1>2. ASSUME NEW h \in S, NEW r \in 1..Replicas, y = hash.host[<<h, r>>]
      PROVE  y \in PointsOf(S)
  BY <1>2, Zenon DEF PointsOf
<1> QED
  BY <1>1, <1>2, Zenon

\* The points of hosts are hashes.
LEMMA PointsType ==
    ASSUME hash \in Placements, NEW S \in SUBSET Hosts, S # {}
    PROVE  PointsOf(S) \in SUBSET Nat /\ PointsOf(S) # {}
<1>1. \A h \in Hosts, r \in 1..Replicas : hash.host[<<h, r>>] \in Nat
  BY DNSAssumption
<1>2. 1 \in 1..Replicas
  BY DNSAssumption
<1>3. PICK h \in S : TRUE
  OBVIOUS
<1>4. hash.host[<<h, 1>>] \in PointsOf(S)
  BY <1>2, <1>3, PointOf
<1>5. ASSUME NEW y \in PointsOf(S) PROVE y \in Nat
  <2>1. PICK g \in S : \E r \in 1..Replicas : y = hash.host[<<g, r>>]
    BY <1>5, PointOf
  <2> QED
    BY <1>1, <2>1
<1> QED
  BY <1>4, <1>5

\* What Search returns is a point, the first one from x on if there is one.
LEMMA SearchFinds ==
    ASSUME NEW keys \in SUBSET Nat, keys # {}, NEW x \in Nat
    PROVE  /\ Search(keys, x) \in keys
           /\ \A y \in keys : y >= x => Search(keys, x) >= x /\ Search(keys, x) <= y
           /\ Search(keys, x) < x => \A y \in keys : Search(keys, x) <= y
<1> DEFINE after == {y \in keys : y >= x}
<1>1. CASE after = {}
  <2>1. Search(keys, x) = Min(keys)
    BY <1>1 DEF Search
  <2> QED
    BY <1>1, <2>1, MinExists
<1>2. CASE after # {}
  <2>1. Search(keys, x) = Min(after)
    BY <1>2 DEF Search
  <2>2. after \in SUBSET Nat
    BY Zenon
  <2>3. Min(after) \in after /\ \A y \in after : Min(after) <= y
    BY <1>2, <2>2, MinExists
  <2>4. Min(after) \in keys /\ Min(after) >= x
    BY <2>3
  <2>5. Min(after) \in Nat
    BY <2>4, Zenon
  <2>6. \A y \in keys : y >= x => Min(after) <= y
    BY <2>3
  <2> QED
    BY <2>1, <2>4, <2>5, <2>6
<1> QED
  BY <1>1, <1>2

\* HashRing.Get returns a host of the ring, one that has the point found.
LEMMA GetFinds ==
    ASSUME hash \in Placements, NEW hosts \in Seq(Hosts), hosts # <<>>, NEW a \in Actors
    PROVE  /\ Get(hosts, a) \in Range(hosts)
           /\ \E r \in 1..Replicas :
                hash.host[<<Get(hosts, a), r>>] = Search(PointsOf(Range(hosts)), hash.actor[a])
<1>1. /\ Range(hosts) \in SUBSET Hosts /\ Range(hosts) # {}
      /\ Len(hosts) \in Nat /\ DOMAIN hosts = 1..Len(hosts)
  <2>1. Len(hosts) \in Nat /\ DOMAIN hosts = 1..Len(hosts) /\ Len(hosts) # 0
    OBVIOUS
  <2>2. \A i \in DOMAIN hosts : hosts[i] \in Hosts
    OBVIOUS
  <2>3. 1 \in DOMAIN hosts
    BY <2>1
  <2> QED
    BY <2>1, <2>2, <2>3 DEF Range
<1>2. Points(hosts) = PointsOf(Range(hosts))
  BY DEF Points, PointsOf
<1>3. hash.actor[a] \in Nat
  BY DNSAssumption
<1>4. PICK x : x = Search(PointsOf(Range(hosts)), hash.actor[a])
  OBVIOUS
<1>5. x \in PointsOf(Range(hosts))
  BY <1>1, <1>3, <1>4, PointsType, SearchFinds, Zenon
<1> DEFINE At == {n \in DOMAIN hosts : \E r \in 1..Replicas : hash.host[<<hosts[n], r>>] = x}
<1>6. At \in SUBSET (1..Len(hosts)) /\ At # {}
  <2>1. PICK h \in Range(hosts), r \in 1..Replicas : x = hash.host[<<h, r>>]
    BY <1>5, PointOf
  <2>2. PICK n \in DOMAIN hosts : h = hosts[n]
    BY DEF Range
  <2>3. n \in At
    BY <2>1, <2>2, Zenon
  <2> QED
    BY <1>1, <2>3
<1>7. PICK n \in At : n = CHOOSE i \in At : \A m \in At : m <= i
  BY <1>1, <1>6, LastExists, Zenon
<1>8. Get(hosts, a) = HashMap(hosts, x)
  BY <1>2, <1>4 DEF Get
<1>9. HashMap(hosts, x) = hosts[n]
  BY <1>7 DEF HashMap
<1> QED
  BY <1>4, <1>7, <1>8, <1>9, Zenon DEF Range

\* An empty ring routes nowhere.
LEMMA GetNone ==
    ASSUME NEW hosts \in Seq(Hosts), NEW a
    PROVE  /\ hosts = <<>> => Get(hosts, a) = NoHost
           /\ hosts = <<>> <=> Range(hosts) = {}
  BY DEF Get, Range

\* The order of the hosts does not matter.
LEMMA RouteBySet ==
    ASSUME PointsDiffer, hash \in Placements, NEW s \in Seq(Hosts), NEW t \in Seq(Hosts),
           Range(s) = Range(t), NEW a \in Actors
    PROVE  Get(s, a) = Get(t, a)
<1>1. CASE s = <<>> \/ t = <<>>
  BY <1>1, GetNone
<1>2. CASE s # <<>> /\ t # <<>>
  <2>1. PICK q \in 1..Replicas :
          hash.host[<<Get(s, a), q>>] = Search(PointsOf(Range(s)), hash.actor[a])
    BY <1>2, GetFinds
  <2>2. PICK r \in 1..Replicas :
          hash.host[<<Get(t, a), r>>] = Search(PointsOf(Range(s)), hash.actor[a])
    BY <1>2, GetFinds
  <2>3. Get(s, a) \in Hosts /\ Get(t, a) \in Hosts
    BY <1>2, GetFinds DEF Range
  <2> QED
    BY <2>1, <2>2, <2>3 DEF PointsDiffer
<1> QED
  BY <1>1, <1>2

\* An actor's host changes only to a new host or from one that is gone.
LEMMA RouteMoves ==
    ASSUME PointsDiffer, hash \in Placements, NEW s \in Seq(Hosts), NEW t \in Seq(Hosts),
           NEW a \in Actors, Get(s, a) \in Range(t), Get(t, a) \in Range(s)
    PROVE  Get(s, a) = Get(t, a)
<1>1. Range(s) \in SUBSET Hosts /\ Range(t) \in SUBSET Hosts
  BY DEF Range
<1>2. s # <<>> /\ t # <<>>
  BY <1>1, GetNone
<1>3. Range(s) # {} /\ Range(t) # {} /\ hash.actor[a] \in Nat
  BY <1>2, GetNone, DNSAssumption
<1>4. PICK S \in SUBSET Nat, T \in SUBSET Nat :
        S = PointsOf(Range(s)) /\ T = PointsOf(Range(t)) /\ S # {} /\ T # {}
  BY <1>1, <1>3, PointsType
<1>5. PICK v \in Nat : v = hash.actor[a]
  BY <1>3
<1>6. PICK q \in 1..Replicas : hash.host[<<Get(s, a), q>>] = Search(S, v)
  BY <1>2, <1>4, <1>5, GetFinds, SMTT(30)
<1>7. PICK r \in 1..Replicas : hash.host[<<Get(t, a), r>>] = Search(T, v)
  BY <1>2, <1>4, <1>5, GetFinds
<1>8. Search(S, v) \in T /\ Search(T, v) \in S
  <2>1. /\ hash.host[<<Get(s, a), q>>] \in PointsOf(Range(t))
        /\ hash.host[<<Get(t, a), r>>] \in PointsOf(Range(s))
    BY PointOf, Zenon
  <2> QED
    BY <1>4, <1>6, <1>7, <2>1
<1>9. Search(S, v) = Search(T, v)
  <2>1. /\ Search(S, v) \in S
        /\ \A y \in S : y >= v => Search(S, v) >= v /\ Search(S, v) <= y
        /\ Search(S, v) < v => \A y \in S : Search(S, v) <= y
    BY <1>4, SearchFinds, Zenon
  <2>2. /\ Search(T, v) \in T
        /\ \A y \in T : y >= v => Search(T, v) >= v /\ Search(T, v) <= y
        /\ Search(T, v) < v => \A y \in T : Search(T, v) <= y
    BY <1>4, SearchFinds, Zenon
  <2>3. Search(S, v) \in Nat /\ Search(T, v) \in Nat
    BY <2>1, <2>2, Zenon
  <2>4. CASE Search(S, v) >= v
    BY <1>8, <2>1, <2>2, <2>3, <2>4
  <2>5. CASE Search(S, v) < v
    BY <1>8, <2>1, <2>2, <2>3, <2>5
  <2> QED
    BY <2>3, <2>4, <2>5
<1> QED
  BY <1>1, <1>6, <1>7, <1>9 DEF PointsDiffer

-----------------------------------------------------------------------------
\* A lookup returns a list of hosts.
LEMMA LookupType ==
    ASSUME dns \subseteq Hosts
    PROVE  LookupIP \subseteq Seq(Hosts)
<1>1. Cardinality(dns) \in Nat
  BY FS_Subset, FS_CardinalityType, DNSAssumption
<1> QED
  BY <1>1 DEF LookupIP, Injection

\* Rings are made of lookups.
LEMMA RingInvInit == Init => RingInv
<1> SUFFICES ASSUME Init PROVE RingInv
  OBVIOUS
<1>1. LookupIP \subseteq Seq(Hosts)
  BY LookupType DEF Init
<1> QED
  BY <1>1 DEF Init, RingInv

\* Every step keeps them so, and keeps the hash function.
LEMMA RingInvStep == RingInv /\ [Next]_vars => RingInv' /\ UNCHANGED hash
<1> SUFFICES ASSUME RingInv, [Next]_vars PROVE RingInv' /\ UNCHANGED hash
  OBVIOUS
<1>1. ASSUME NEW h \in Hosts, Change(h) PROVE RingInv' /\ UNCHANGED hash
  BY <1>1 DEF Change, RingInv
<1>2. ASSUME NEW p \in Processes, Discover(p) PROVE RingInv' /\ UNCHANGED hash
  <2>1. LookupIP \subseteq Seq(Hosts)
    BY LookupType DEF RingInv
  <2> QED
    BY <1>2, <2>1 DEF Discover, RingInv
<1>3. ASSUME NEW p \in Processes, Close(p) PROVE RingInv' /\ UNCHANGED hash
  BY <1>3 DEF Close, RingInv
<1> QED
  BY <1>1, <1>2, <1>3 DEF Next, vars, RingInv

\* Processes whose rings have the same hosts agree on every actor, in whatever
\* order the lookups returned them (consistent_hash.go, Add and Get).
THEOREM RoutesAgree == ASSUME PointsDiffer PROVE Spec => []SameHostsSameRoute
<1>1. RingInv => SameHostsSameRoute
  BY RouteBySet DEF RingInv, SameHostsSameRoute, EnsureActivation
<1> QED
  BY <1>1, RingInvInit, RingInvStep, PTL DEF Spec

\* A discovery (dns_registry.go:219) never moves an actor between two hosts that
\* were on the ring and still are.
THEOREM MovesAreForced == ASSUME PointsDiffer PROVE Spec => OnlyMovesWhatItMust
<1> DEFINE Forced ==
        \A p \in Processes, a \in Actors :
            \/ EnsureActivation(p, a)' = EnsureActivation(p, a)
            \/ EnsureActivation(p, a) \notin Range(ring'[p])
            \/ EnsureActivation(p, a)' \notin Range(ring[p])
<1>1. RingInv /\ [Next]_vars => [Forced]_vars
  <2> SUFFICES ASSUME RingInv, [Next]_vars, NEW p \in Processes, NEW a \in Actors,
                      EnsureActivation(p, a) \in Range(ring'[p]),
                      EnsureActivation(p, a)' \in Range(ring[p])
               PROVE  EnsureActivation(p, a)' = EnsureActivation(p, a)
    OBVIOUS
  <2>1. RingInv' /\ hash' = hash
    BY RingInvStep
  <2>2. PICK s \in Seq(Hosts), t \in Seq(Hosts) : s = ring[p] /\ t = ring'[p]
    BY <2>1 DEF RingInv
  <2>3. EnsureActivation(p, a) = Get(s, a)
    BY <2>2 DEF EnsureActivation
  <2>4. \A u, b : Get(u, b)' = Get(u, b)
    BY <2>1 DEF Get, HashMap, Points
  <2>5. EnsureActivation(p, a)' = Get(t, a)
    BY <2>2, <2>4 DEF EnsureActivation
  <2> QED
    BY <2>2, <2>3, <2>5, RouteMoves DEF RingInv
<1>2. RingInv /\ [Next]_vars => RingInv'
  BY RingInvStep
<1> QED
  BY <1>1, <1>2, RingInvInit, PTL DEF Spec, OnlyMovesWhatItMust

=============================================================================
