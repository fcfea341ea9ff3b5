------------------------------ MODULE FailureCache ------------------------------
(***************************************************************************)
(* The cache of peers that failed (struct PeerFailureCache,                *)
(* src/src/metadata.rs), as operators on a record c: entries maps a key to *)
(* its deadline, expiry is the queue of <<deadline, key>> pairs in the     *)
(* order of insertion.  A pair whose key was inserted again or removed     *)
(* since is stale, and dropping it leaves the entry alone.                 *)
(*                                                                         *)
(* A key has one of two scopes: the endpoint, or one torrent at it.  The   *)
(* reason kept with an entry only labels a counter and is left out.        *)
(***************************************************************************)
EXTENDS Integers, FiniteSets, Sequences, Functions, FiniteSetsExt

CONSTANTS
    CacheCapacity,  \* peer_failure_cache_capacity; 0 turns the cache off
    FailureTtl      \* peer_failure_ttl; 0 turns the cache off

ASSUME CacheAssumption == CacheCapacity \in Nat /\ FailureTtl \in Nat

Endpoint(peer) == <<"Endpoint", peer>>

Metadata(hash, peer) == <<"Metadata", hash, peer>>

EmptyCache == [entries |-> [k \in {} |-> 0], expiry |-> <<>>]

Off == CacheCapacity = 0 \/ FailureTtl = 0

(* The first n pairs are popped, each with the entry it still stands for.  *)
Pop(c, n) ==
    LET gone == {c.expiry[i][2] : i \in
                    {j \in 1..n : /\ c.expiry[j][2] \in DOMAIN c.entries
                                  /\ c.entries[c.expiry[j][2]] = c.expiry[j][1]}}
    IN  [entries |-> Restrict(c.entries, DOMAIN c.entries \ gone),
         expiry |-> SubSeq(c.expiry, n + 1, Len(c.expiry))]

(* expire: pairs are popped while the front one is due.                    *)
Expire(c, at) ==
    Pop(c, Max({n \in 0..Len(c.expiry) : \A i \in 1..n : c.expiry[i][1] <= at}))

(* The loop of insert that makes room for a key.                           *)
Fits(c, key) == Cardinality(DOMAIN c.entries) < CacheCapacity \/ key \in DOMAIN c.entries

MakeRoom(c, key) ==
    Pop(c, Min({n \in 0..Len(c.expiry) : Fits(Pop(c, n), key)} \cup {Len(c.expiry)}))

Put(entries, key, deadline) ==
    [k \in DOMAIN entries \cup {key} |-> IF k = key THEN deadline ELSE entries[k]]

(* Mutant of Insert: a key that is cached keeps the pair it has.           *)
InsertOnce(c, key, at) ==
    LET room == MakeRoom(Expire(c, at), key)
    IN  [entries |-> Put(room.entries, key, at + FailureTtl),
         expiry |-> IF key \in DOMAIN room.entries THEN room.expiry
                    ELSE Append(room.expiry, <<at + FailureTtl, key>>)]

Insert(c, key, at) ==
    LET room == MakeRoom(Expire(c, at), key)
    IN  IF Off THEN c
        ELSE [entries |-> Put(room.entries, key, at + FailureTtl),
              expiry |-> Append(room.expiry, <<at + FailureTtl, key>>)]

Remove(c, key, at) ==
    LET due == Expire(c, at)
    IN  IF Off THEN c
        ELSE [due EXCEPT !.entries = Restrict(@, DOMAIN @ \ {key})]

(* get leaves the cache without what is due, and finds the rest.           *)
Get(c, at) == IF Off THEN c ELSE Expire(c, at)

Cached(c, key, at) == key \in DOMAIN Get(c, at).entries

-------------------------------------------------------------------------------
(* Every entry has its pair in the queue, so that it is dropped in time,   *)
(* and there are no more entries than the capacity.                        *)
Sound(c) ==
    /\ Cardinality(DOMAIN c.entries) <= CacheCapacity
    /\ \A k \in DOMAIN c.entries :
        \E i \in DOMAIN c.expiry : c.expiry[i] = <<c.entries[k], k>>
===============================================================================
