------------------------------- MODULE Keyspace -------------------------------
(***************************************************************************)
(* The registry's records as they lie in its ordered key-value store       *)
(* (virtual/registry/kv_registry.go on the tuple layer and on the store of *)
(* localregistry/local_kv.go): modules cut into parts, actors, actor       *)
(* storage and heartbeats share one key space, and two readers rely on its *)
(* layout.  GetModule concatenates whatever lies under the module's        *)
(* prefix, in byte order; EnsureActivation takes whatever lies under the   *)
(* prefix of the servers for a server.                                     *)
(*                                                                         *)
(* A stored value is the record it was made from, so that a reader can     *)
(* tell whose it is; a module of n parts stores part 0 up to n - 1.  The   *)
(* words the registry puts into keys (servers, modules, ...) are the bytes *)
(* of their letters.                                                       *)
(***************************************************************************)
EXTENDS Elements

CONSTANTS
    Namespaces, Modules, ActorIDs, Servers, StorageKeys,   \* sets of byte strings
    PartCounts,   \* the numbers of parts a marshaled module may take
    MaxRecords    \* bound: records written

\* Names are any byte strings; a module takes at least one part, and the number
\* of a part is an int.
ASSUME KeyspaceAssumption ==
    /\ Namespaces \cup Modules \cup ActorIDs \cup Servers \cup StorageKeys \subseteq Seq(Byte)
    /\ PartCounts \subseteq 1..(Word \div 2)

VARIABLES
    store,        \* key -> value, the ordered store
    written       \* history: the records the registry was asked to write

vars == <<store, written>>

Str(b) == <<"string", b>>
servers == Str(<<115, 101, 114, 118, 101, 114, 115>>)
modules == Str(<<109, 111, 100, 117, 108, 101, 115>>)
actors == Str(<<97, 99, 116, 111, 114, 115>>)
state == Str(<<115, 116, 97, 116, 101>>)
kv == Str(<<107, 118>>)

getModulePrefix(namespace, moduleID) == PackPlain(<<Str(namespace), modules, Str(moduleID)>>)

\* The part number as a decimal string.
getModulePartKeyDecimal(namespace, moduleID, part) ==
    PackPlain(<<Str(namespace), modules, Str(moduleID),
           Str(IF part < 10 THEN <<48 + part>>
                            ELSE <<48 + (part \div 10), 48 + (part % 10)>>)>>)

getModulePartKey(namespace, moduleID, part) ==
    PackPlain(<<Str(namespace), modules, Str(moduleID), <<"int", part>>>>)

getActorKey(namespace, actorID, moduleID) ==
    PackPlain(<<Str(namespace), actors, Str(moduleID), Str(actorID), state>>)

\* The storage of the actors of two modules lies under the same key.
getActoKVKeyNoModule(namespace, actorID, moduleID, key) ==
    PackPlain(<<Str(namespace), actors, Str(actorID), kv, <<"bytes", key>>>>)

getActoKVKey(namespace, actorID, moduleID, key) ==
    PackPlain(<<Str(namespace), actors, Str(moduleID), Str(actorID), kv, <<"bytes", key>>>>)

getServerKey(serverID) == PackPlain(<<servers, Str(serverID)>>)

getServersPrefix == PackPlain(<<servers>>)

-----------------------------------------------------------------------------
(* The ordered store.                                                      *)

Put(kvs, key, value) ==
    [k \in DOMAIN kvs \cup {key} |-> IF k = key THEN value ELSE kvs[k]]
Exists(key) == key \in DOMAIN store

\* The keys from the prefix on, up to the first that does not start with it.
KeysFrom(prefix) ==
    LET after == {k \in DOMAIN store : ~ BytesLess(k, prefix)}
    IN  {k \in after : \A j \in after : ~ BytesLess(k, j) => HasPrefix(j, prefix)}

\* The place of a key among keys.
Rank(k, keys) == Cardinality({j \in keys : BytesLess(j, k)}) + 1

\* The values under the prefix in the order of their keys.
IterPrefix(prefix) ==
    LET keys == KeysFrom(prefix)
    IN  [n \in 1..Cardinality(keys) |-> store[CHOOSE k \in keys : Rank(k, keys) = n]]

-----------------------------------------------------------------------------
(* The registry's operations, each one transaction of the store.           *)

Part(namespace, moduleID, parts, i) ==
    [type |-> "part", namespace |-> namespace, id |-> moduleID, parts |-> parts, part |-> i]

Init ==
    /\ store = << >>
    /\ written = {}

RegisterModule(namespace, moduleID, parts) ==
    /\ ~ Exists(getModulePartKey(namespace, moduleID, 0))
    /\ LET put[n \in 0..parts] ==
              IF n = 0
              THEN store
              ELSE Put(put[n - 1], getModulePartKey(namespace, moduleID, n - 1),
                       Part(namespace, moduleID, parts, n - 1))
       IN  store' = put[parts]
    /\ written' = written \cup {Part(namespace, moduleID, parts, i) : i \in 0..(parts - 1)}

GetModule(namespace, moduleID) == IterPrefix(getModulePrefix(namespace, moduleID))

CreateActor(namespace, actorID, moduleID) ==
    LET key == getActorKey(namespace, actorID, moduleID)
        record == [type |-> "actor", namespace |-> namespace, id |-> actorID,
                   module |-> moduleID]
    IN  /\ ~ Exists(key)
        /\ Exists(getModulePartKey(namespace, moduleID, 0))
        /\ store' = Put(store, key, record)
        /\ written' = written \cup {record}

\* A put of the actor's storage; a transaction begins only for an actor.
PutStorage(namespace, actorID, moduleID, key) ==
    LET record == [type |-> "storage", namespace |-> namespace, id |-> actorID,
                   module |-> moduleID, key |-> key]
    IN  /\ Exists(getActorKey(namespace, actorID, moduleID))
        /\ store' = Put(store, getActoKVKey(namespace, actorID, moduleID, key), record)
        /\ written' = written \cup {record}

Heartbeat(serverID) ==
    LET record == [type |-> "server", id |-> serverID]
    IN  /\ store' = Put(store, getServerKey(serverID), record)
        /\ written' = written \cup {record}

\* The records written, a module counting once.
Records == {r \in written : r.type = "part" => r.part = 0}

Next ==
    /\ Cardinality(Records) < MaxRecords
    /\ \/ \E ns \in Namespaces, m \in Modules, n \in PartCounts : RegisterModule(ns, m, n)
       \/ \E ns \in Namespaces, a \in ActorIDs, m \in Modules : CreateActor(ns, a, m)
       \/ \E ns \in Namespaces, a \in ActorIDs, m \in Modules, k \in StorageKeys :
             PutStorage(ns, a, m, k)
       \/ \E s \in Servers : Heartbeat(s)

Spec == Init /\ [][Next]_vars

-----------------------------------------------------------------------------
(* Properties.                                                             *)

\* No two records share a key: whatever the order of the operations, nothing
\* that one of them wrote is overwritten by another (the key builders of
\* kv_registry.go on encodeBytes's escape of the zero byte).
RecordsKeepTheirKeys == {store[k] : k \in DOMAIN store} = written

\* The names the layout holds for: no module ID is another one that goes on with
\* a zero byte, and no namespace is called "servers" or goes on after that word
\* with a zero byte.  The registry checks neither.
NamesApart ==
    /\ \A m, m2 \in Modules : ~ HasPrefix(m2, m \o <<0>>)
    /\ \A ns \in Namespaces : ns # servers[2] /\ ~ HasPrefix(ns, servers[2] \o <<0>>)

\* What is read by prefix is what was written under it, and nothing else that
\* lies in the store, though names begin with the same bytes.  GetModule reads
\* the parts of its module, all of them and in their order, also past the part
\* number that takes a second byte, or finds nothing if it was never registered;
\* EnsureActivation iterates over the servers that have sent a heartbeat.
PrefixReadsItsRecords ==
    /\ \A ns \in Namespaces, m \in Modules :
        LET parts == {r \in written : r.type = "part" /\ r.namespace = ns /\ r.id = m}
            found == GetModule(ns, m)
        IN  /\ Range(found) = parts
            /\ \A i \in DOMAIN found : found[i].part = i - 1
            /\ parts # {} => Len(found) = found[1].parts
    /\ Range(IterPrefix(getServersPrefix)) = {r \in written : r.type = "server"}
=============================================================================
