------------------------------- MODULE HashDedup -------------------------------
(***************************************************************************)
(* The bounded memory of discovered hashes (struct HashDedup,              *)
(* src/src/discovery.rs), as operators on a record d: entries maps a hash  *)
(* to the nodes that supplied it, each with how it did ("GetPeers" or      *)
(* "Sample"), and expiry is the queue of <<deadline, hash>> pairs.         *)
(***************************************************************************)
EXTENDS Integers, FiniteSets, Sequences, FiniteSetsExt

CONSTANTS
    Hashes,         \* the info hashes
    Nodes,          \* DHT endpoints
    DedupCapacity,  \* hash_dedup_capacity, after max(1)
    DedupTtl,       \* hash_dedup_ttl_secs, after clamp
    MaxHashSources  \* MAX_HASH_SOURCES

ASSUME DedupAssumption ==
    /\ DedupCapacity \in Nat \ {0}
    /\ DedupTtl \in Nat \ {0}
    /\ MaxHashSources \in Nat \ {0}

HashSources == {"GetPeers", "Sample"}

EmptyDedup == [entries |-> [h \in {} |-> 0], expiry |-> <<>>]

Put(f, k, v) == [x \in DOMAIN f \cup {k} |-> IF x = k THEN v ELSE f[x]]

(* The first step of contains: what is due at the front of the queue goes. *)
DedupExpire(d, now) ==
    LET gone == {i \in 1..Len(d.expiry) : \A j \in 1..i : d.expiry[j][1] <= now}
    IN  [entries |-> Restrict(d.entries, DOMAIN d.entries \ {d.expiry[i][2] : i \in gone}),
         expiry  |-> SubSeq(d.expiry, Cardinality(gone) + 1, Len(d.expiry))]

(* contains, after its expiry: a hash is a duplicate from a node that      *)
(* supplied it, unless a requester now samples it, and from any node once  *)
(* enough did.                                                             *)
Duplicate(d, hash, node, source) ==
    /\ hash \in DOMAIN d.entries
    /\ LET sources == d.entries[hash]
       IN  IF node \in DOMAIN sources
           THEN ~(sources[node] = "GetPeers" /\ source = "Sample")
           ELSE Cardinality(DOMAIN sources) >= MaxHashSources

(* insert: a known hash learns the node while there is room, its deadline  *)
(* stays; a new hash takes the place of the oldest when the memory is full.*)
SourcesWith(sources, node, source) ==
    IF node \in DOMAIN sources
    THEN IF source = "Sample" THEN [sources EXCEPT ![node] = source] ELSE sources
    ELSE IF Cardinality(DOMAIN sources) < MaxHashSources THEN Put(sources, node, source)
    ELSE sources

MakeRoom(d) ==
    IF Cardinality(DOMAIN d.entries) >= DedupCapacity /\ d.expiry # <<>>
    THEN [entries |-> Restrict(d.entries, DOMAIN d.entries \ {Head(d.expiry)[2]}),
          expiry  |-> Tail(d.expiry)]
    ELSE d

DedupInsert(d, hash, node, source, now) ==
    IF hash \in DOMAIN d.entries
    THEN [d EXCEPT !.entries[hash] = SourcesWith(@, node, source)]
    ELSE [entries |-> Put(MakeRoom(d).entries, hash, Put([n \in {} |-> 0], node, source)),
          expiry  |-> Append(MakeRoom(d).expiry, <<now + DedupTtl, hash>>)]

-------------------------------------------------------------------------------
(* One queue entry per hash and none without one, within the capacities.   *)
DedupConsistent(d) ==
    /\ {d.expiry[i][2] : i \in 1..Len(d.expiry)} = DOMAIN d.entries
    /\ Len(d.expiry) = Cardinality(DOMAIN d.entries)
    /\ Len(d.expiry) <= DedupCapacity
    /\ \A h \in DOMAIN d.entries : Cardinality(DOMAIN d.entries[h]) \in 1..MaxHashSources

DedupType(d) ==
    /\ DOMAIN d.entries \subseteq Hashes
    /\ \A h \in DOMAIN d.entries :
        /\ DOMAIN d.entries[h] \subseteq Nodes
        /\ \A n \in DOMAIN d.entries[h] : d.entries[h][n] \in HashSources
    /\ d.expiry \in Seq(Nat \X Hashes)
===============================================================================
