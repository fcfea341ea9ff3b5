--------------------------- MODULE PendingHashQueue ---------------------------
(***************************************************************************)
(* The deduplicating queue of the metadata scheduler (struct               *)
(* PendingHashQueue, src/src/scheduler.rs), as operators on a record q     *)
(* with the fields of the struct.  A BTreeMap<(Instant, u64), String> is a *)
(* set of triples <<instant, sequence, hash>> with at most one triple per  *)
(* key; the HashMap of entries is a function whose domain is the set of    *)
(* queued hashes.  Instants are naturals.                                  *)
(*                                                                         *)
(* Left out: queued_at and the discovery origin (read by statistics only), *)
(* the order of peers of equal age, the unreachable wrap of the 64-bit     *)
(* sequence.                                                               *)
(***************************************************************************)
EXTENDS Integers, FiniteSets, Sequences, FiniteSetsExt

CONSTANTS
    Hashes,          \* the info hashes
    Peers,           \* TCP endpoints announced as downloaders
    Nodes,           \* DHT endpoints that supplied a hash
    None,            \* Option::None
    Capacity,        \* capacity of the queue, after max(1)
    Ttl,             \* HASH_QUEUE_TTL
    CoalesceWindow,  \* PEER_COALESCE_WINDOW
    MaxCandidates,   \* MAX_METADATA_CANDIDATES_PER_HASH
    MaxSourceNodes,  \* source nodes kept per entry
    FreshPerRetry,   \* fresh hashes taken before a due retry, 3
    FreshSaturation  \* where fresh_dispatches saturates, u8::MAX

ASSUME QueueAssumption ==
    /\ Capacity \in Nat \ {0}
    /\ Ttl \in Nat
    /\ CoalesceWindow \in Nat
    /\ MaxCandidates \in Nat \ {0}
    /\ MaxSourceNodes \in Nat \ {0}
    /\ FreshSaturation \in Nat
    /\ FreshPerRetry \in Nat
    /\ FreshSaturation >= FreshPerRetry
    /\ None \notin Peers \cup Nodes \cup Hashes
    /\ IsFiniteSet(Hashes)

Event == [hash : Hashes, peer : Peers \cup {None}, source : Nodes \cup {None}, at : Nat]

Larger(a, b) == IF a > b THEN a ELSE b
Smaller(a, b) == IF a < b THEN a ELSE b

With(f, k, v) == [x \in DOMAIN f \cup {k} |-> IF x = k THEN v ELSE f[x]]

EmptyQueue ==
    [entries |-> [h \in {} |-> 0], expiry |-> {}, waiting |-> {}, ready_fresh |-> {},
     ready_retry |-> {}, retry_expiry |-> {}, sequence |-> 0, fresh_dispatches |-> 0]

Queued(q) == DOMAIN q.entries

-------------------------------------------------------------------------------
(* Ordered indexes.                                                        *)

IndexInsert(index, at, seq, hash) ==
    {k \in index : ~(k[1] = at /\ k[2] = seq)} \cup {<<at, seq, hash>>}

Before(a, b) == a[1] < b[1] \/ (a[1] = b[1] /\ a[2] < b[2])

FirstOf(index) == CHOOSE k \in index : \A o \in index : ~Before(o, k)

LastOf(index) == CHOOSE k \in index : \A o \in index : ~Before(k, o)

-------------------------------------------------------------------------------
(* merge_candidate: a peer keeps its latest sighting, the oldest one goes  *)
(* when there are too many; the latest source node goes first.             *)

OldestPeer(peers) ==
    CHOOSE p \in DOMAIN peers : \A o \in DOMAIN peers : peers[p] <= peers[o]

MergePeer(peers, p, at) ==
    LET seen   == IF p \in DOMAIN peers THEN Larger(peers[p], at) ELSE at
        merged == With(peers, p, seen)
    IN  IF Cardinality(DOMAIN merged) > MaxCandidates
        THEN Restrict(merged, DOMAIN merged \ {OldestPeer(merged)})
        ELSE merged

MergeSource(sources, n) ==
    LET old    == {i \in 1..Len(sources) : sources[i] = n}
        at     == CHOOSE i \in old : TRUE
        others == IF old = {} THEN sources
                  ELSE SubSeq(sources, 1, at - 1) \o SubSeq(sources, at + 1, Len(sources))
        merged == <<n>> \o others
    IN  SubSeq(merged, 1, Smaller(Len(merged), MaxSourceNodes))

MergeCandidate(entry, event) ==
    [entry EXCEPT
        !.peers = IF event.peer = None THEN @ ELSE MergePeer(@, event.peer, event.at),
        !.source_nodes = IF event.source = None THEN @ ELSE MergeSource(@, event.source),
        !.latest_at = Larger(@, event.at)]

-------------------------------------------------------------------------------
(* insert: a new sequence number, one expiry key, one scheduling key.      *)

QueueInsert(q, entry) ==
    LET seq  == q.sequence + 1
        hash == entry.hash
    IN  [q EXCEPT
            !.sequence = seq,
            !.entries = With(@, hash, [entry EXCEPT !.order_key = <<entry.latest_at, seq>>]),
            !.expiry = IndexInsert(@, entry.expires_at, seq, hash),
            !.retry_expiry =
                IF entry.is_retry THEN IndexInsert(@, entry.expires_at, seq, hash) ELSE @,
            !.waiting =
                IF entry.ready THEN @ ELSE IndexInsert(@, entry.ready_at, seq, hash),
            !.ready_fresh =
                IF entry.ready /\ ~entry.is_retry
                THEN IndexInsert(@, entry.latest_at, seq, hash) ELSE @,
            !.ready_retry =
                IF entry.ready /\ entry.is_retry
                THEN IndexInsert(@, entry.ready_at, seq, hash) ELSE @]

(* remove, for a set of hashes: each takes its keys out of every index.    *)
Drop(index, keys) == {k \in index : <<k[1], k[2]>> \notin keys}

(* Mutant of QueueRemoveAll: the retry expiry key is forgotten.            *)
LeakyRemoveAll(q, hashes) ==
    LET gone        == hashes \cap Queued(q)
        expiry_keys == {<<q.entries[h].expires_at, q.entries[h].order_key[2]>> : h \in gone}
        ready_keys  == {<<q.entries[h].ready_at, q.entries[h].order_key[2]>> : h \in gone}
        order_keys  == {q.entries[h].order_key : h \in gone}
    IN  [q EXCEPT
            !.entries = Restrict(@, DOMAIN @ \ gone),
            !.expiry = Drop(@, expiry_keys),
            !.waiting = Drop(@, ready_keys),
            !.ready_fresh = Drop(@, order_keys),
            !.ready_retry = Drop(@, ready_keys)]

QueueRemoveAll(q, hashes) ==
    LET gone        == hashes \cap Queued(q)
        expiry_keys == {<<q.entries[h].expires_at, q.entries[h].order_key[2]>> : h \in gone}
        ready_keys  == {<<q.entries[h].ready_at, q.entries[h].order_key[2]>> : h \in gone}
        order_keys  == {q.entries[h].order_key : h \in gone}
    IN  [q EXCEPT
            !.entries = Restrict(@, DOMAIN @ \ gone),
            !.expiry = Drop(@, expiry_keys),
            !.retry_expiry = Drop(@, expiry_keys),
            !.waiting = Drop(@, ready_keys),
            !.ready_fresh = Drop(@, order_keys),
            !.ready_retry = Drop(@, ready_keys)]

QueueRemove(q, hash) == QueueRemoveAll(q, {hash})

(* defer: back into the queue as a retry, unless the queue or its retry    *)
(* share is full; then the entry is dropped.                               *)
RetryShare == Larger(Capacity \div 4, 1)

(* Mutant of CanDefer: one retry too many.                                 *)
CanDeferOneMore(q, hash) ==
    LET rest == QueueRemove(q, hash)
    IN  /\ Cardinality(Queued(rest)) < Capacity
        /\ Cardinality(rest.retry_expiry) <= RetryShare

CanDefer(q, hash) ==
    LET rest == QueueRemove(q, hash)
    IN  /\ Cardinality(Queued(rest)) < Capacity
        /\ Cardinality(rest.retry_expiry) < RetryShare

QueueDefer(q, entry, record) ==
    LET rest == QueueRemove(q, entry.hash)
    IN  IF CanDefer(q, entry.hash)
        THEN QueueInsert(rest, [entry EXCEPT !.ready_at = record.next_due,
                                             !.expires_at = record.expires_at,
                                             !.is_retry = TRUE, !.ready = FALSE])
        ELSE rest

-------------------------------------------------------------------------------
(* push: the outcome (QueuePushKind) and the queue after it.               *)

NewEntry(event, now) ==
    [hash |-> event.hash, peers |-> [p \in {} |-> 0], source_nodes |-> <<>>,
     ready_at |-> now + CoalesceWindow, latest_at |-> event.at, order_key |-> <<now, 0>>,
     expires_at |-> event.at + Ttl, is_retry |-> FALSE, ready |-> FALSE]

UpdatedEntry(q, event) ==
    LET merged == MergeCandidate(q.entries[event.hash], event)
    IN  [merged EXCEPT !.expires_at = IF merged.is_retry THEN @ ELSE merged.latest_at + Ttl]

(* Mutant of Victim: retries are not evicted first.                        *)
OldestVictim(q) == FirstOf(q.expiry)[3]

Victim(q) == FirstOf(IF q.retry_expiry # {} THEN q.retry_expiry ELSE q.expiry)[3]

IsStale(event, now) == now - event.at > Ttl

PushKind(q, event, now) ==
    IF IsStale(event, now) THEN "Stale"
    ELSE IF event.hash \in Queued(q) THEN "Updated"
    ELSE IF Cardinality(Queued(q)) < Capacity THEN "Inserted"
    ELSE IF q.retry_expiry \cup q.expiry = {} THEN "Stale"
    ELSE IF q.entries[Victim(q)].is_retry THEN "EvictedRetry"
    ELSE IF event.at <= q.entries[Victim(q)].latest_at THEN "Stale"
    ELSE "EvictedOldest"

QueuePush(q, event, now) ==
    LET kind  == PushKind(q, event, now)
        fresh == MergeCandidate(NewEntry(event, now), event)
    IN  CASE kind = "Stale"    -> q
          [] kind = "Updated"  -> QueueInsert(QueueRemove(q, event.hash), UpdatedEntry(q, event))
          [] kind = "Inserted" -> QueueInsert(q, fresh)
          [] OTHER             -> QueueInsert(QueueRemove(q, Victim(q)), fresh)

-------------------------------------------------------------------------------
(* promote_ready, expire and pop_newest_ready.                             *)

QueuePromote(q, now) ==
    LET due    == {k \in q.waiting : k[1] <= now}
        hashes == {k[3] : k \in due}
    IN  [q EXCEPT
            !.waiting = @ \ due,
            !.entries = [h \in DOMAIN @ |->
                            IF h \in hashes THEN [@[h] EXCEPT !.ready = TRUE] ELSE @[h]],
            !.ready_retry = @ \cup {k \in due : q.entries[k[3]].is_retry},
            !.ready_fresh = @ \cup
                {<<q.entries[h].order_key[1], q.entries[h].order_key[2], h>> :
                    h \in {g \in hashes : ~q.entries[g].is_retry}}]

ExpiredHashes(q, now) == {k[3] : k \in {x \in q.expiry : x[1] < now}}

QueueExpire(q, now) == QueueRemoveAll(q, ExpiredHashes(q, now))

(* What a pop works on, whether it serves the retries, and what it takes:  *)
(* the retry due first or the newest fresh hash, None when there is none.  *)
Poppable(q, now) == QueuePromote(QueueExpire(q, now), now)

(* Mutant of UseRetry: retries only fill idle slots.                       *)
UseRetryWhenIdle(p) == p.ready_retry # {} /\ p.ready_fresh = {}

UseRetry(p) ==
    p.ready_retry # {} /\ (p.fresh_dispatches >= FreshPerRetry \/ p.ready_fresh = {})

Popped(p) ==
    IF UseRetry(p) THEN FirstOf(p.ready_retry)[3]
    ELSE IF p.ready_fresh # {} THEN LastOf(p.ready_fresh)[3]
    ELSE None

AfterPop(p) ==
    LET counted == [p EXCEPT !.fresh_dispatches =
                        IF UseRetry(p) THEN 0
                        ELSE IF @ < FreshSaturation THEN @ + 1 ELSE @]
    IN  QueueRemove(counted, Popped(p))

(* pressure_len: the hashes that could run, cooling retries left out.      *)
PressureLen(q) ==
    Larger(0, Cardinality(Queued(q)) - Cardinality(q.retry_expiry)) + Cardinality(q.ready_retry)

-------------------------------------------------------------------------------
(* Each queued hash has exactly one expiry key and one scheduling key, the *)
(* retry keys are those of the retries, and sequence numbers are not       *)
(* reused: what remove, promote_ready ("indexed queued hash") and expire   *)
(* rely on.                                                                *)

SequenceOf(q, h) == q.entries[h].order_key[2]
Retries(q) == {h \in Queued(q) : q.entries[h].is_retry}
Ready(q) == {h \in Queued(q) : q.entries[h].ready}

ExpiryKeys(q, S) == {<<q.entries[h].expires_at, SequenceOf(q, h), h>> : h \in S}
ReadyKeys(q, S) == {<<q.entries[h].ready_at, SequenceOf(q, h), h>> : h \in S}
OrderKeys(q, S) == {<<q.entries[h].order_key[1], SequenceOf(q, h), h>> : h \in S}

Sequenced(q) ==
    /\ \A h \in Queued(q) : q.entries[h].hash = h /\ SequenceOf(q, h) \in 1..q.sequence
    /\ \A g, h \in Queued(q) : SequenceOf(q, g) = SequenceOf(q, h) => g = h

Indexed(q) ==
    /\ Sequenced(q)
    /\ q.expiry = ExpiryKeys(q, Queued(q))
    /\ q.retry_expiry = ExpiryKeys(q, Retries(q))
    /\ q.waiting = ReadyKeys(q, Queued(q) \ Ready(q))
    /\ q.ready_retry = ReadyKeys(q, Ready(q) \cap Retries(q))
    /\ q.ready_fresh = OrderKeys(q, Ready(q) \ Retries(q))

(* The type of the queue.                                                  *)
EntryType(e) ==
    /\ DOMAIN e = {"hash", "peers", "source_nodes", "ready_at", "latest_at", "order_key",
                   "expires_at", "is_retry", "ready"}
    /\ e.hash \in Hashes
    /\ DOMAIN e.peers \subseteq Peers
    /\ \A p \in DOMAIN e.peers : e.peers[p] \in Nat
    /\ e.source_nodes \in Seq(Nodes)
    /\ e.ready_at \in Nat
    /\ e.latest_at \in Nat
    /\ e.order_key \in Nat \X Nat
    /\ e.expires_at \in Nat
    /\ e.is_retry \in BOOLEAN
    /\ e.ready \in BOOLEAN

Index == SUBSET (Nat \X Nat \X Hashes)

QueueType(q) ==
    /\ DOMAIN q = {"entries", "expiry", "waiting", "ready_fresh", "ready_retry",
                   "retry_expiry", "sequence", "fresh_dispatches"}
    /\ Queued(q) \subseteq Hashes
    /\ \A h \in Queued(q) : EntryType(q.entries[h])
    /\ q.expiry \in Index
    /\ q.waiting \in Index
    /\ q.ready_fresh \in Index
    /\ q.ready_retry \in Index
    /\ q.retry_expiry \in Index
    /\ q.sequence \in Nat
    /\ q.fresh_dispatches \in 0..FreshSaturation
===============================================================================
