----------------------------- MODULE DNSRegistry -----------------------------
(***************************************************************************)
(* The registry without a database (virtual/registry/dnsregistry): every   *)
(* process looks up the hosts of a name from time to time, puts them on a  *)
(* consistent-hash ring and sends each actor to the host that follows it   *)
(* on the ring.  Nothing is stored and there are no leases: heartbeats and *)
(* version stamps are constants that always pass the checks of module      *)
(* Cluster.                                                                *)
(***************************************************************************)
EXTENDS Sequences, FiniteSetsExt

CONSTANTS
    Processes,        \* processes, each with a dnsRegistry of its own
    Hosts,            \* addresses the name may resolve to
    Replicas,         \* points a host has on the ring
    Actors,           \* actors
    Placements,       \* hash functions: [host : ..., actor : ...]
    NoHost,           \* what HashRing.Get returns when the ring is empty
    MaxHash,          \* the largest hash
    MaxChanges        \* bound: changes of what the name resolves to

ASSUME DNSAssumption ==
    /\ Replicas \in Nat \ {0} /\ MaxHash \in Nat /\ MaxChanges \in Nat
    /\ IsFiniteSet(Hosts) /\ NoHost \notin Hosts
    /\ \A f \in Placements :
        /\ f.host \in [Hosts \X (1..Replicas) -> 0..MaxHash]
        /\ f.actor \in [Actors -> 0..MaxHash]

VARIABLES
    hash,             \* the hash function all processes use
    dns,              \* the hosts that are up, which is what a lookup returns
    changes,          \* how often dns has changed
    ring,             \* process -> the hosts of its ring, in the order of Add
    running           \* process -> does its discovery loop run?

vars == <<hash, dns, changes, ring, running>>

-----------------------------------------------------------------------------
\* HashRing.Add: the points of the hosts, and the host of a point.  Where two
\* hosts have the same point the one that was added last has it.
Points(hosts) == {hash.host[x] : x \in Range(hosts) \X (1..Replicas)}

HashMap(hosts, x) ==
    LET At == {n \in DOMAIN hosts : \E r \in 1..Replicas : hash.host[<<hosts[n], r>>] = x}
    IN hosts[CHOOSE n \in At : \A m \in At : m <= n]

\* A variant: the point is picked by the remainder of the hash.
SearchByRemainder(keys, x) ==
    CHOOSE y \in keys : Cardinality({z \in keys : z < y}) = x % Cardinality(keys)

\* sort.Search in the sorted keys: the first point that is not before x or, past
\* the last one, the first of all.
Search(keys, x) ==
    LET after == {y \in keys : y >= x} IN Min(IF after = {} THEN keys ELSE after)

\* A variant: the hosts are a list, and the hash picks one of it.
GetFromList(hosts, a) ==
    IF hosts = <<>> THEN NoHost ELSE hosts[(hash.actor[a] % Len(hosts)) + 1]

\* HashRing.Get
Get(hosts, a) ==
    IF hosts = <<>> THEN NoHost
    ELSE HashMap(hosts, Search(Points(hosts), hash.actor[a]))

\* EnsureActivation: NoHost stands for the error "hashring is empty".
EnsureActivation(p, a) == Get(ring[p], a)

-----------------------------------------------------------------------------
\* The orders in which a lookup may return the hosts.
LookupIP == Injection(1 .. Cardinality(dns), dns)

\* NewDNSRegistryFromResolver: one discovery, then the loop starts.
Init ==
    /\ hash \in Placements
    /\ dns \in SUBSET Hosts
    /\ changes = 0
    /\ ring \in [Processes -> LookupIP]
    /\ running = [p \in Processes |-> TRUE]

\* A host comes up or goes down.
Change(h) ==
    /\ changes < MaxChanges
    /\ changes' = changes + 1
    /\ dns' = IF h \in dns THEN dns \ {h} ELSE dns \cup {h}
    /\ UNCHANGED <<hash, ring, running>>

\* A variant: the hosts that are new are added to the ring that is there.
DiscoverKeepsRing(p) ==
    /\ running[p]
    /\ \E s \in LookupIP :
        ring' = [ring EXCEPT ![p] = @ \o SelectSeq(s, LAMBDA h : h \notin Range(ring[p]))]
    /\ UNCHANGED <<hash, dns, changes, running>>

\* discover: a ring of its own for every answer, swapped in under the lock.  A
\* lookup that fails leaves the old one.
Discover(p) ==
    /\ running[p]
    /\ \E s \in LookupIP : ring' = [ring EXCEPT ![p] = s]
    /\ UNCHANGED <<hash, dns, changes, running>>

\* Close ends the discovery loop; the ring stays.
Close(p) ==
    /\ running[p]
    /\ running' = [running EXCEPT ![p] = FALSE]
    /\ UNCHANGED <<hash, dns, changes, ring>>

Next ==
    \/ \E h \in Hosts : Change(h)
    \/ \E p \in Processes : Discover(p) \/ Close(p)

\* The loop's ticker fires every ResolveEvery, so each running process looks
\* the name up again and again.
Spec == Init /\ [][Next]_vars /\ \A p \in Processes : WF_vars(Discover(p))

-----------------------------------------------------------------------------
\* The state has the types of dnsRegistry; a ring has no host twice.
DNSTypeOK ==
    /\ hash \in Placements
    /\ dns \in SUBSET Hosts
    /\ changes \in 0..MaxChanges
    /\ \A p \in Processes : Range(ring[p]) \subseteq Hosts /\ IsInjective(ring[p])
    /\ running \in [Processes -> BOOLEAN]

\* Processes that know the same hosts send every actor to the same one,
\* whatever the order of their lookups (consistent_hash_test.go:63), as long as
\* no two points of the ring fall together.
SameHostsSameRoute ==
    \A p, q \in Processes, a \in Actors :
        Range(ring[p]) = Range(ring[q]) => EnsureActivation(p, a) = EnsureActivation(q, a)

\* A discovery (dns_registry.go:219) moves no actor between two hosts that were
\* on the ring before and are still on it.
OnlyMovesWhatItMust ==
    [][\A p \in Processes, a \in Actors :
        \/ EnsureActivation(p, a)' = EnsureActivation(p, a)
        \/ EnsureActivation(p, a) \notin Range(ring'[p])
        \/ EnsureActivation(p, a)' \notin Range(ring[p])]_vars

\* Once the name's hosts stay as they are, all processes whose loop runs come to
\* send every actor to the same host, one that is up (or to none, if none is).
RoutesConverge ==
    <>[](\A p, q \in Processes, a \in Actors :
            running[p] /\ running[q] =>
                /\ EnsureActivation(p, a) = EnsureActivation(q, a)
                /\ dns # {} => EnsureActivation(p, a) \in dns)

=============================================================================
