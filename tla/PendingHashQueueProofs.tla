------------------------ MODULE PendingHashQueueProofs ------------------------
(***************************************************************************)
(* What the operations of PendingHashQueue preserve: the type of the queue *)
(* and the agreement of its indexes with its entries.                      *)
(***************************************************************************)
EXTENDS PendingHashQueue, WellFoundedInduction, TLAPS

(* What every lemma below keeps: type, indexes, and no ordering key or     *)
(* sighting later than the instant n (so that the newest key exists).      *)
Sound(q, n) ==
    /\ QueueType(q)
    /\ Indexed(q)
    /\ \A h \in Queued(q) : q.entries[h].order_key[1] <= n /\ q.entries[h].latest_at <= n

(* What an entry has besides its place in the queue: what moving it within *)
(* the queue must not touch.                                               *)
Like(e, f) ==
    /\ e.hash = f.hash
    /\ e.peers = f.peers
    /\ e.source_nodes = f.source_nodes
    /\ e.is_retry = f.is_retry
    /\ e.expires_at = f.expires_at

-------------------------------------------------------------------------------
(* Removal.                                                                *)

(* Each field of the queue after a removal.                                *)
LEMMA RemoveAllFields ==
    ASSUME NEW Q, QueueType(Q), NEW S
    PROVE  LET R == QueueRemoveAll(Q, S)
               G == S \cap Queued(Q)
               E == {<<Q.entries[h].expires_at, Q.entries[h].order_key[2]>> : h \in G}
               W == {<<Q.entries[h].ready_at, Q.entries[h].order_key[2]>> : h \in G}
               O == {Q.entries[h].order_key : h \in G}
           IN  /\ DOMAIN R = DOMAIN Q
               /\ R.entries = [h \in Queued(Q) \ S |-> Q.entries[h]]
               /\ R.expiry = Drop(Q.expiry, E)
               /\ R.retry_expiry = Drop(Q.retry_expiry, E)
               /\ R.waiting = Drop(Q.waiting, W)
               /\ R.ready_retry = Drop(Q.ready_retry, W)
               /\ R.ready_fresh = Drop(Q.ready_fresh, O)
               /\ R.sequence = Q.sequence
               /\ R.fresh_dispatches = Q.fresh_dispatches
BY DEF QueueRemoveAll, Queued, Restrict, QueueType

(* Dropping the keys of the hashes S from an index leaves those of others. *)
LEMMA DropKeys ==
    ASSUME NEW Q, NEW S, NEW T \in SUBSET Queued(Q),
           \A g, h \in Queued(Q) : SequenceOf(Q, g) = SequenceOf(Q, h) => g = h
    PROVE  LET G == S \cap Queued(Q)
           IN  /\ Drop(ExpiryKeys(Q, T), {<<Q.entries[h].expires_at, SequenceOf(Q, h)>> : h \in G})
                    = ExpiryKeys(Q, T \ S)
               /\ Drop(ReadyKeys(Q, T), {<<Q.entries[h].ready_at, SequenceOf(Q, h)>> : h \in G})
                    = ReadyKeys(Q, T \ S)
               /\ Drop(OrderKeys(Q, T), {<<Q.entries[h].order_key[1], SequenceOf(Q, h)>> : h \in G})
                    = OrderKeys(Q, T \ S)
<1>. DEFINE G == S \cap Queued(Q)
<1>1. Drop(ExpiryKeys(Q, T), {<<Q.entries[h].expires_at, SequenceOf(Q, h)>> : h \in G})
        = ExpiryKeys(Q, T \ S)
  BY DEF Drop, ExpiryKeys
<1>2. Drop(ReadyKeys(Q, T), {<<Q.entries[h].ready_at, SequenceOf(Q, h)>> : h \in G})
        = ReadyKeys(Q, T \ S)
  BY DEF Drop, ReadyKeys
<1>3. Drop(OrderKeys(Q, T), {<<Q.entries[h].order_key[1], SequenceOf(Q, h)>> : h \in G})
        = OrderKeys(Q, T \ S)
  BY DEF Drop, OrderKeys
<1>. QED
  BY <1>1, <1>2, <1>3

(* Removing hashes removes exactly their keys: sequence numbers are unique *)
(* and every key carries one.                                              *)
LEMMA RemoveAllSound ==
    ASSUME NEW Q, NEW n \in Nat, Sound(Q, n), NEW S
    PROVE  LET R == QueueRemoveAll(Q, S)
           IN  /\ Sound(R, n)
               /\ Queued(R) = Queued(Q) \ S
               /\ \A h \in Queued(R) : R.entries[h] = Q.entries[h]
               /\ Retries(R) = Retries(Q) \ S
               /\ R.sequence = Q.sequence
               /\ R.fresh_dispatches = Q.fresh_dispatches
<1>. DEFINE R == QueueRemoveAll(Q, S)
            G == S \cap Queued(Q)
            E == {<<Q.entries[h].expires_at, Q.entries[h].order_key[2]>> : h \in G}
            W == {<<Q.entries[h].ready_at, Q.entries[h].order_key[2]>> : h \in G}
            O == {Q.entries[h].order_key : h \in G}
<1>1. /\ DOMAIN R = DOMAIN Q
      /\ R.entries = [h \in Queued(Q) \ S |-> Q.entries[h]]
      /\ R.expiry = Drop(Q.expiry, E)
      /\ R.retry_expiry = Drop(Q.retry_expiry, E)
      /\ R.waiting = Drop(Q.waiting, W)
      /\ R.ready_retry = Drop(Q.ready_retry, W)
      /\ R.ready_fresh = Drop(Q.ready_fresh, O)
      /\ R.sequence = Q.sequence
      /\ R.fresh_dispatches = Q.fresh_dispatches
  BY RemoveAllFields, ZenonT(60) DEF Sound
<1>2. /\ Queued(R) = Queued(Q) \ S
      /\ \A h \in Queued(R) : R.entries[h] = Q.entries[h]
  BY <1>1 DEF Queued
<1>. HIDE DEF R, E, W, O
<1>3. QueueType(Q) /\ Indexed(Q) /\ Sequenced(Q)
  BY DEF Sound, Indexed
<1>4. QueueType(R)
  <2>1. \A index \in Index : \A keys : Drop(index, keys) \in Index
    BY DEF Drop, Index
  <2>2. /\ R.expiry \in Index /\ R.retry_expiry \in Index /\ R.waiting \in Index
        /\ R.ready_retry \in Index /\ R.ready_fresh \in Index
    <3>1. /\ Q.expiry \in Index /\ Q.retry_expiry \in Index /\ Q.waiting \in Index
          /\ Q.ready_retry \in Index /\ Q.ready_fresh \in Index
      BY <1>3 DEF QueueType
    <3>. QED
      BY <1>1, <2>1, <3>1
  <2>3. Queued(R) \subseteq Hashes /\ \A h \in Queued(R) : EntryType(R.entries[h])
    BY <1>2, <1>3 DEF QueueType
  <2>4. /\ DOMAIN R = DOMAIN Q /\ R.sequence = Q.sequence
        /\ R.fresh_dispatches = Q.fresh_dispatches
    BY <1>1
  <2>. QED
    BY <1>3, <2>2, <2>3, <2>4, Zenon DEF QueueType
<1>5. /\ Retries(R) = Retries(Q) \ S
      /\ Ready(R) = Ready(Q) \ S
      /\ Retries(Q) \subseteq Queued(Q)
      /\ Ready(Q) \subseteq Queued(Q)
  BY <1>2 DEF Retries, Ready
<1>6. /\ \A h \in Queued(R) : SequenceOf(R, h) = SequenceOf(Q, h)
      /\ Queued(R) \subseteq Queued(Q)
  BY <1>2 DEF SequenceOf
<1>7. Sequenced(R)
  BY <1>1, <1>2, <1>3, <1>6 DEF Sequenced
<1>8. ASSUME NEW T \in SUBSET Queued(R)
      PROVE  /\ ExpiryKeys(R, T) = ExpiryKeys(Q, T)
             /\ ReadyKeys(R, T) = ReadyKeys(Q, T)
             /\ OrderKeys(R, T) = OrderKeys(Q, T)
  BY <1>2, <1>6 DEF ExpiryKeys, ReadyKeys, OrderKeys
<1>9. /\ E = {<<Q.entries[h].expires_at, SequenceOf(Q, h)>> : h \in G}
      /\ W = {<<Q.entries[h].ready_at, SequenceOf(Q, h)>> : h \in G}
  BY DEF SequenceOf, E, W
<1>10. O = {<<Q.entries[h].order_key[1], SequenceOf(Q, h)>> : h \in G}
  <2>1. \A h \in Queued(Q) : Q.entries[h].order_key \in Nat \X Nat
    BY <1>3 DEF QueueType, EntryType
  <2>. QED
    BY <2>1 DEF SequenceOf, O
<1>11. ASSUME NEW T \in SUBSET Queued(Q)
       PROVE  /\ Drop(ExpiryKeys(Q, T), E) = ExpiryKeys(R, T \ S)
              /\ Drop(ReadyKeys(Q, T), W) = ReadyKeys(R, T \ S)
              /\ Drop(OrderKeys(Q, T), O) = OrderKeys(R, T \ S)
  <2>1. T \ S \in SUBSET Queued(R)
    BY <1>2
  <2>2. \A g, h \in Queued(Q) : SequenceOf(Q, g) = SequenceOf(Q, h) => g = h
    BY <1>3 DEF Sequenced
  <2>3. /\ Drop(ExpiryKeys(Q, T), E) = ExpiryKeys(Q, T \ S)
        /\ Drop(ReadyKeys(Q, T), W) = ReadyKeys(Q, T \ S)
        /\ Drop(OrderKeys(Q, T), O) = OrderKeys(Q, T \ S)
    BY <1>9, <1>10, <2>2, DropKeys, Zenon
  <2>. QED
    BY <1>8, <2>1, <2>3, Zenon
<1>12. Indexed(R)
  <2>1. /\ Queued(Q) \ Ready(Q) \in SUBSET Queued(Q) /\ Ready(Q) \cap Retries(Q) \in SUBSET Queued(Q)
        /\ Ready(Q) \ Retries(Q) \in SUBSET Queued(Q)
        /\ Queued(R) \ Ready(R) = (Queued(Q) \ Ready(Q)) \ S
        /\ Ready(R) \cap Retries(R) = (Ready(Q) \cap Retries(Q)) \ S
        /\ Ready(R) \ Retries(R) = (Ready(Q) \ Retries(Q)) \ S
    BY <1>2, <1>5
  <2>2. /\ R.expiry = ExpiryKeys(R, Queued(R))
        /\ R.retry_expiry = ExpiryKeys(R, Retries(R))
    BY <1>1, <1>2, <1>3, <1>5, <1>11, Zenon DEF Indexed
  <2>3. /\ R.waiting = ReadyKeys(R, Queued(R) \ Ready(R))
        /\ R.ready_retry = ReadyKeys(R, Ready(R) \cap Retries(R))
        /\ R.ready_fresh = OrderKeys(R, Ready(R) \ Retries(R))
    BY <1>1, <1>3, <1>11, <2>1, Zenon DEF Indexed
  <2>. QED
    BY <1>7, <2>2, <2>3 DEF Indexed
<1>13. \A h \in Queued(R) : R.entries[h].order_key[1] <= n /\ R.entries[h].latest_at <= n
  BY <1>2, Zenon DEF Sound
<1>14. Sound(R, n)
  BY <1>4, <1>12, <1>13 DEF Sound
<1>. QED
  BY <1>1, <1>2, <1>5, <1>14 DEF R

-------------------------------------------------------------------------------
(* Insertion.                                                              *)

(* Each field of the queue after an insertion.                             *)
LEMMA InsertFields ==
    ASSUME NEW Q, QueueType(Q), NEW e, EntryType(e)
    PROVE  LET R == QueueInsert(Q, e)
               s == Q.sequence + 1
           IN  /\ DOMAIN R = DOMAIN Q
               /\ R.entries = With(Q.entries, e.hash,
                                   [e EXCEPT !.order_key = <<e.latest_at, s>>])
               /\ R.expiry = IndexInsert(Q.expiry, e.expires_at, s, e.hash)
               /\ R.retry_expiry = IF e.is_retry
                                   THEN IndexInsert(Q.retry_expiry, e.expires_at, s, e.hash)
                                   ELSE Q.retry_expiry
               /\ R.waiting = IF e.ready THEN Q.waiting
                              ELSE IndexInsert(Q.waiting, e.ready_at, s, e.hash)
               /\ R.ready_fresh = IF e.ready /\ ~e.is_retry
                                  THEN IndexInsert(Q.ready_fresh, e.latest_at, s, e.hash)
                                  ELSE Q.ready_fresh
               /\ R.ready_retry = IF e.ready /\ e.is_retry
                                  THEN IndexInsert(Q.ready_retry, e.ready_at, s, e.hash)
                                  ELSE Q.ready_retry
               /\ R.sequence = s
               /\ R.fresh_dispatches = Q.fresh_dispatches
BY DEF QueueInsert, QueueType

(* No key of a sound queue has the next sequence number.                   *)
LEMMA NextSequenceIsUnused ==
    ASSUME NEW Q, NEW n \in Nat, Sound(Q, n)
    PROVE  \A k \in Q.expiry \cup Q.retry_expiry \cup Q.waiting \cup Q.ready_fresh
                        \cup Q.ready_retry : k[2] # Q.sequence + 1
<1>1. \A g \in Queued(Q) : SequenceOf(Q, g) # Q.sequence + 1
  BY DEF Sound, QueueType, Indexed, Sequenced
<1>. QED
  BY <1>1, SMTT(20) DEF Sound, Indexed, ExpiryKeys, ReadyKeys, OrderKeys, Retries, Ready

(* Inserting a hash that is not queued adds one expiry and one scheduling  *)
(* key, those of its entry.                                                *)
LEMMA InsertSound ==
    ASSUME NEW Q, NEW n \in Nat, Sound(Q, n), NEW e, EntryType(e), e.hash \notin Queued(Q),
           e.latest_at <= n
    PROVE  LET R == QueueInsert(Q, e)
           IN  /\ Sound(R, n)
               /\ Queued(R) = Queued(Q) \cup {e.hash}
               /\ \A h \in Queued(Q) : R.entries[h] = Q.entries[h]
               /\ Like(R.entries[e.hash], e)
               /\ R.fresh_dispatches = Q.fresh_dispatches
<1>. DEFINE R == QueueInsert(Q, e)
            s == Q.sequence + 1
            f == [e EXCEPT !.order_key = <<e.latest_at, s>>]
<1>0. QueueType(Q) /\ Indexed(Q) /\ s \in Nat
  BY DEF Sound, QueueType
<1>1. /\ DOMAIN R = DOMAIN Q
      /\ R.entries = With(Q.entries, e.hash, f)
      /\ R.expiry = Q.expiry \cup {<<e.expires_at, s, e.hash>>}
      /\ R.retry_expiry = IF e.is_retry THEN Q.retry_expiry \cup {<<e.expires_at, s, e.hash>>}
                          ELSE Q.retry_expiry
      /\ R.waiting = IF e.ready THEN Q.waiting
                     ELSE Q.waiting \cup {<<e.ready_at, s, e.hash>>}
      /\ R.ready_fresh = IF e.ready /\ ~e.is_retry
                         THEN Q.ready_fresh \cup {<<e.latest_at, s, e.hash>>}
                         ELSE Q.ready_fresh
      /\ R.ready_retry = IF e.ready /\ e.is_retry
                         THEN Q.ready_retry \cup {<<e.ready_at, s, e.hash>>}
                         ELSE Q.ready_retry
      /\ R.sequence = s
      /\ R.fresh_dispatches = Q.fresh_dispatches
  <2>1. ASSUME NEW at
        PROVE  /\ IndexInsert(Q.expiry, at, s, e.hash) = Q.expiry \cup {<<at, s, e.hash>>}
               /\ IndexInsert(Q.retry_expiry, at, s, e.hash)
                        = Q.retry_expiry \cup {<<at, s, e.hash>>}
               /\ IndexInsert(Q.waiting, at, s, e.hash) = Q.waiting \cup {<<at, s, e.hash>>}
               /\ IndexInsert(Q.ready_fresh, at, s, e.hash)
                        = Q.ready_fresh \cup {<<at, s, e.hash>>}
               /\ IndexInsert(Q.ready_retry, at, s, e.hash)
                        = Q.ready_retry \cup {<<at, s, e.hash>>}
    <3>1. \A k \in Q.expiry \cup Q.retry_expiry \cup Q.waiting \cup Q.ready_fresh
                        \cup Q.ready_retry : k[2] # s
      BY NextSequenceIsUnused
    <3>. HIDE DEF s
    <3>. QED
      BY <3>1 DEF IndexInsert
  <2>2. /\ DOMAIN R = DOMAIN Q
        /\ R.entries = With(Q.entries, e.hash, f)
        /\ R.expiry = IndexInsert(Q.expiry, e.expires_at, s, e.hash)
        /\ R.retry_expiry = IF e.is_retry
                            THEN IndexInsert(Q.retry_expiry, e.expires_at, s, e.hash)
                            ELSE Q.retry_expiry
        /\ R.waiting = IF e.ready THEN Q.waiting
                       ELSE IndexInsert(Q.waiting, e.ready_at, s, e.hash)
        /\ R.ready_fresh = IF e.ready /\ ~e.is_retry
                           THEN IndexInsert(Q.ready_fresh, e.latest_at, s, e.hash)
                           ELSE Q.ready_fresh
        /\ R.ready_retry = IF e.ready /\ e.is_retry
                           THEN IndexInsert(Q.ready_retry, e.ready_at, s, e.hash)
                           ELSE Q.ready_retry
        /\ R.sequence = s
        /\ R.fresh_dispatches = Q.fresh_dispatches
    BY <1>0, InsertFields, Zenon
  <2>. HIDE DEF R, s, f
  <2>. QED
    BY <2>1, <2>2, ZenonT(60)
<1>2. /\ Queued(R) = Queued(Q) \cup {e.hash}
      /\ \A h \in Queued(Q) : R.entries[h] = Q.entries[h]
      /\ R.entries[e.hash] = f
  BY <1>1 DEF Queued, With
<1>3. /\ DOMAIN f = DOMAIN e
      /\ f.hash = e.hash /\ f.peers = e.peers /\ f.source_nodes = e.source_nodes
      /\ f.ready_at = e.ready_at /\ f.latest_at = e.latest_at /\ f.expires_at = e.expires_at
      /\ f.is_retry = e.is_retry /\ f.ready = e.ready
      /\ f.order_key = <<e.latest_at, s>>
  BY DEF EntryType
<1>. HIDE DEF R, f, s
<1>4. EntryType(f)
  BY <1>0, <1>3 DEF EntryType
<1>5. QueueType(R)
  <2>1. /\ <<e.expires_at, s, e.hash>> \in Nat \X Nat \X Hashes
        /\ <<e.ready_at, s, e.hash>> \in Nat \X Nat \X Hashes
        /\ <<e.latest_at, s, e.hash>> \in Nat \X Nat \X Hashes
    BY <1>0 DEF EntryType
  <2>2. /\ R.expiry \in Index
        /\ R.retry_expiry \in Index
        /\ R.waiting \in Index
        /\ R.ready_fresh \in Index
        /\ R.ready_retry \in Index
    BY <1>0, <1>1, <2>1 DEF QueueType, Index
  <2>3. /\ Queued(R) \subseteq Hashes
        /\ \A h \in Queued(R) : EntryType(R.entries[h])
    BY <1>0, <1>2, <1>4, ZenonT(60) DEF QueueType, EntryType
  <2>. QED
    BY <1>0, <1>1, <2>2, <2>3 DEF QueueType
<1>6. f.order_key[1] = e.latest_at /\ f.order_key[2] = s
  BY <1>3
<1>7. Sequenced(R)
  <2>1. Sequenced(Q) /\ Q.sequence \in Nat /\ R.sequence = s /\ s = Q.sequence + 1
    BY <1>0, <1>1 DEF Indexed, QueueType, s
  <2>2. \A h \in Queued(Q) : /\ SequenceOf(R, h) = SequenceOf(Q, h)
                            /\ R.entries[h].hash = Q.entries[h].hash
    BY <1>2 DEF SequenceOf
  <2>3. SequenceOf(R, e.hash) = s /\ R.entries[e.hash].hash = e.hash
    BY <1>2, <1>3, <1>6 DEF SequenceOf
  <2>. QED
    BY <1>2, <2>1, <2>2, <2>3 DEF Sequenced
<1>8. /\ Retries(R) = Retries(Q) \cup (IF e.is_retry THEN {e.hash} ELSE {})
      /\ Ready(R) = Ready(Q) \cup (IF e.ready THEN {e.hash} ELSE {})
  BY <1>2, <1>3 DEF Retries, Ready, EntryType
<1>. DEFINE x == <<e.expires_at, s, e.hash>>
            r == <<e.ready_at, s, e.hash>>
            o == <<e.latest_at, s, e.hash>>
<1>9. ASSUME NEW S \in SUBSET Queued(Q)
      PROVE  /\ ExpiryKeys(R, S) = ExpiryKeys(Q, S)
             /\ ReadyKeys(R, S) = ReadyKeys(Q, S)
             /\ OrderKeys(R, S) = OrderKeys(Q, S)
             /\ ExpiryKeys(R, S \cup {e.hash}) = ExpiryKeys(Q, S) \cup {x}
             /\ ReadyKeys(R, S \cup {e.hash}) = ReadyKeys(Q, S) \cup {r}
             /\ OrderKeys(R, S \cup {e.hash}) = OrderKeys(Q, S) \cup {o}
  <2>1. \A h \in S : R.entries[h] = Q.entries[h] /\ SequenceOf(R, h) = SequenceOf(Q, h)
    BY <1>2 DEF SequenceOf
  <2>2. /\ R.entries[e.hash].expires_at = e.expires_at /\ R.entries[e.hash].ready_at = e.ready_at
        /\ R.entries[e.hash].order_key[1] = e.latest_at /\ SequenceOf(R, e.hash) = s
    BY <1>2, <1>3, <1>6 DEF SequenceOf
  <2>3. ExpiryKeys(R, S) = ExpiryKeys(Q, S) /\ ExpiryKeys(R, S \cup {e.hash}) = ExpiryKeys(Q, S) \cup {x}
    BY <2>1, <2>2 DEF ExpiryKeys
  <2>4. ReadyKeys(R, S) = ReadyKeys(Q, S) /\ ReadyKeys(R, S \cup {e.hash}) = ReadyKeys(Q, S) \cup {r}
    BY <2>1, <2>2 DEF ReadyKeys
  <2>5. OrderKeys(R, S) = OrderKeys(Q, S) /\ OrderKeys(R, S \cup {e.hash}) = OrderKeys(Q, S) \cup {o}
    BY <2>1, <2>2 DEF OrderKeys
  <2>. QED
    BY <2>3, <2>4, <2>5
<1>. HIDE DEF x, r, o
<1>10. /\ Retries(Q) \subseteq Queued(Q)
       /\ Ready(Q) \subseteq Queued(Q)
  BY DEF Retries, Ready
<1>11. R.expiry = ExpiryKeys(R, Queued(R))
  BY <1>0, <1>1, <1>2, <1>9, ZenonT(60) DEF Indexed, x
<1>12. R.retry_expiry = ExpiryKeys(R, Retries(R))
  <2>1. CASE e.is_retry
    <3>1. ExpiryKeys(R, Retries(Q) \cup {e.hash}) = ExpiryKeys(Q, Retries(Q)) \cup {x}
      BY <1>9, <1>10, Zenon
    <3>. QED
      BY <1>0, <1>1, <1>8, <2>1, <3>1 DEF Indexed, x
  <2>2. CASE ~e.is_retry
    BY <1>0, <1>1, <1>8, <1>9, <1>10, <2>2, Zenon DEF Indexed
  <2>. QED
    BY <2>1, <2>2
<1>13. /\ R.waiting = ReadyKeys(R, Queued(R) \ Ready(R))
       /\ R.ready_retry = ReadyKeys(R, Ready(R) \cap Retries(R))
       /\ R.ready_fresh = OrderKeys(R, Ready(R) \ Retries(R))
  <2>1. CASE ~e.ready
    <3>1. /\ Queued(R) \ Ready(R) = (Queued(Q) \ Ready(Q)) \cup {e.hash}
          /\ Ready(R) \cap Retries(R) = Ready(Q) \cap Retries(Q)
          /\ Ready(R) \ Retries(R) = Ready(Q) \ Retries(Q)
      BY <1>2, <1>8, <1>10, <2>1
    <3>. QED
      BY <1>0, <1>1, <1>9, <1>10, <2>1, <3>1, ZenonT(60) DEF Indexed, r
  <2>2. CASE e.ready /\ e.is_retry
    <3>1. /\ Queued(R) \ Ready(R) = Queued(Q) \ Ready(Q)
          /\ Ready(R) \cap Retries(R) = (Ready(Q) \cap Retries(Q)) \cup {e.hash}
          /\ Ready(R) \ Retries(R) = Ready(Q) \ Retries(Q)
      BY <1>2, <1>8, <1>10, <2>2
    <3>2. ReadyKeys(R, (Ready(Q) \cap Retries(Q)) \cup {e.hash})
            = ReadyKeys(Q, Ready(Q) \cap Retries(Q)) \cup {r}
      BY <1>9, <1>10, Zenon
    <3>3. /\ ReadyKeys(R, Queued(Q) \ Ready(Q)) = ReadyKeys(Q, Queued(Q) \ Ready(Q))
          /\ OrderKeys(R, Ready(Q) \ Retries(Q)) = OrderKeys(Q, Ready(Q) \ Retries(Q))
      BY <1>9, <1>10, Zenon
    <3>. QED
      BY <1>0, <1>1, <2>2, <3>1, <3>2, <3>3 DEF Indexed, r
  <2>3. CASE e.ready /\ ~e.is_retry
    <3>1. /\ Queued(R) \ Ready(R) = Queued(Q) \ Ready(Q)
          /\ Ready(R) \cap Retries(R) = Ready(Q) \cap Retries(Q)
          /\ Ready(R) \ Retries(R) = (Ready(Q) \ Retries(Q)) \cup {e.hash}
      BY <1>2, <1>8, <1>10, <2>3
    <3>2. OrderKeys(R, (Ready(Q) \ Retries(Q)) \cup {e.hash})
            = OrderKeys(Q, Ready(Q) \ Retries(Q)) \cup {o}
      BY <1>9, <1>10, Zenon
    <3>3. /\ ReadyKeys(R, Queued(Q) \ Ready(Q)) = ReadyKeys(Q, Queued(Q) \ Ready(Q))
          /\ ReadyKeys(R, Ready(Q) \cap Retries(Q)) = ReadyKeys(Q, Ready(Q) \cap Retries(Q))
      BY <1>9, <1>10, Zenon
    <3>. QED
      BY <1>0, <1>1, <2>3, <3>1, <3>2, <3>3, Zenon DEF Indexed, o
  <2>. QED
    BY <2>1, <2>2, <2>3
<1>14. \A h \in Queued(R) : R.entries[h].order_key[1] <= n /\ R.entries[h].latest_at <= n
  BY <1>2, <1>3, <1>6 DEF Sound
<1>15. Sound(R, n)
  BY <1>5, <1>7, <1>11, <1>12, <1>13, <1>14 DEF Sound, Indexed
<1>16. Like(R.entries[e.hash], e)
  BY <1>2, <1>3, Zenon DEF Like
<1>. QED
  BY <1>1, <1>2, <1>15, <1>16 DEF R

-------------------------------------------------------------------------------
(* Promotion and expiry.                                                   *)

(* promote_ready marks ready exactly the waiting hashes that are due and   *)
(* moves their keys: the hash of every due key has an entry ("indexed      *)
(* queued hash"), and nothing else of an entry changes.                    *)
LEMMA PromoteSound ==
    ASSUME NEW Q, NEW n \in Nat, Sound(Q, n), NEW t \in Nat
    PROVE  LET R == QueuePromote(Q, t)
           IN  /\ Sound(R, n)
               /\ Queued(R) = Queued(Q)
               /\ \A h \in Queued(Q) : Like(R.entries[h], Q.entries[h])
               /\ Retries(R) = Retries(Q)
               /\ R.fresh_dispatches = Q.fresh_dispatches
<1>. DEFINE R == QueuePromote(Q, t)
            due == {k \in Q.waiting : k[1] <= t}
            H == {k[3] : k \in due}
            D == {h \in Queued(Q) \ Ready(Q) : Q.entries[h].ready_at <= t}
            Up(h) == [Q.entries[h] EXCEPT !.ready = TRUE]
<1>0. QueueType(Q) /\ Indexed(Q)
  BY DEF Sound
<1>1. due = ReadyKeys(Q, D) /\ H = D
  <2>1. Q.waiting = ReadyKeys(Q, Queued(Q) \ Ready(Q))
    BY <1>0 DEF Indexed
  <2>2. due = ReadyKeys(Q, D)
    BY <2>1 DEF ReadyKeys
  <2>3. H = D
    <3>. HIDE DEF due, D
    <3>1. \A k \in due : k[3] \in D
      BY <2>2 DEF ReadyKeys
    <3>2. \A h \in D : \E k \in due : k[3] = h
      <4>. TAKE h \in D
      <4>1. <<Q.entries[h].ready_at, SequenceOf(Q, h), h>> \in due
        BY <2>2 DEF ReadyKeys
      <4>. QED
        BY <4>1
    <3>. QED
      BY <3>1, <3>2
  <2>. QED
    BY <2>2, <2>3
<1>2. /\ DOMAIN R = DOMAIN Q
      /\ R.entries = [h \in Queued(Q) |-> IF h \in H THEN Up(h) ELSE Q.entries[h]]
      /\ R.waiting = Q.waiting \ due
      /\ R.ready_retry = Q.ready_retry \cup {k \in due : Q.entries[k[3]].is_retry}
      /\ R.ready_fresh = Q.ready_fresh \cup
            {<<Q.entries[h].order_key[1], Q.entries[h].order_key[2], h>> :
                h \in {g \in H : ~Q.entries[g].is_retry}}
      /\ R.expiry = Q.expiry
      /\ R.retry_expiry = Q.retry_expiry
      /\ R.sequence = Q.sequence
      /\ R.fresh_dispatches = Q.fresh_dispatches
  BY <1>0 DEF QueuePromote, QueueType, Queued
<1>. HIDE DEF R, due, H
<1>3. /\ Queued(R) = Queued(Q)
      /\ \A h \in D : R.entries[h] = Up(h)
      /\ \A h \in Queued(Q) \ D : R.entries[h] = Q.entries[h]
  BY <1>1, <1>2 DEF Queued
<1>4. \A h \in D : /\ DOMAIN Up(h) = DOMAIN Q.entries[h]
                   /\ Up(h).hash = Q.entries[h].hash
                   /\ Up(h).peers = Q.entries[h].peers
                   /\ Up(h).source_nodes = Q.entries[h].source_nodes
                   /\ Up(h).ready_at = Q.entries[h].ready_at
                   /\ Up(h).latest_at = Q.entries[h].latest_at
                   /\ Up(h).order_key = Q.entries[h].order_key
                   /\ Up(h).expires_at = Q.entries[h].expires_at
                   /\ Up(h).is_retry = Q.entries[h].is_retry
                   /\ Up(h).ready = TRUE
  BY <1>0 DEF QueueType, EntryType
<1>. HIDE DEF Up
<1>5. \A h \in Queued(Q) : /\ DOMAIN R.entries[h] = DOMAIN Q.entries[h]
                           /\ R.entries[h].hash = Q.entries[h].hash
                           /\ R.entries[h].peers = Q.entries[h].peers
                           /\ R.entries[h].source_nodes = Q.entries[h].source_nodes
                           /\ R.entries[h].ready_at = Q.entries[h].ready_at
                           /\ R.entries[h].latest_at = Q.entries[h].latest_at
                           /\ R.entries[h].order_key = Q.entries[h].order_key
                           /\ R.entries[h].expires_at = Q.entries[h].expires_at
                           /\ R.entries[h].is_retry = Q.entries[h].is_retry
                           /\ R.entries[h].ready = (Q.entries[h].ready \/ h \in D)
  <2>. TAKE h \in Queued(Q)
  <2>1. CASE h \in D
    BY <1>3, <1>4, <2>1, ZenonT(60)
  <2>2. CASE h \notin D
    <3>1. Q.entries[h].ready \in BOOLEAN
      BY <1>0 DEF QueueType, EntryType
    <3>. QED
      BY <1>3, <2>2, <3>1
  <2>. QED
    BY <2>1, <2>2
<1>6. /\ Retries(R) = Retries(Q)
      /\ Ready(R) = Ready(Q) \cup D
  BY <1>3, <1>5, Zenon DEF Retries, Ready
<1>7. ASSUME NEW S \in SUBSET Queued(Q)
      PROVE  /\ ExpiryKeys(R, S) = ExpiryKeys(Q, S)
             /\ ReadyKeys(R, S) = ReadyKeys(Q, S)
             /\ OrderKeys(R, S) = OrderKeys(Q, S)
  BY <1>5 DEF ExpiryKeys, ReadyKeys, OrderKeys, SequenceOf
<1>8. /\ Retries(Q) \subseteq Queued(Q)
      /\ Ready(Q) \subseteq Queued(Q)
      /\ D \subseteq Queued(Q) \ Ready(Q)
  BY DEF Retries, Ready
<1>9. R.waiting = ReadyKeys(R, Queued(R) \ Ready(R))
  <2>1. Queued(R) \ Ready(R) = (Queued(Q) \ Ready(Q)) \ D
    BY <1>3, <1>6
  <2>2. ReadyKeys(Q, Queued(Q) \ Ready(Q)) \ ReadyKeys(Q, D)
            = ReadyKeys(Q, (Queued(Q) \ Ready(Q)) \ D)
    BY <1>8 DEF ReadyKeys
  <2>3. ReadyKeys(R, (Queued(Q) \ Ready(Q)) \ D) = ReadyKeys(Q, (Queued(Q) \ Ready(Q)) \ D)
    BY <1>7
  <2>. QED
    BY <1>0, <1>1, <1>2, <2>1, <2>2, <2>3, ZenonT(60) DEF Indexed
<1>10. R.ready_retry = ReadyKeys(R, Ready(R) \cap Retries(R))
  <2>1. {k \in ReadyKeys(Q, D) : Q.entries[k[3]].is_retry} = ReadyKeys(Q, D \cap Retries(Q))
    BY <1>8 DEF ReadyKeys, Retries
  <2>2. ReadyKeys(Q, Ready(Q) \cap Retries(Q)) \cup ReadyKeys(Q, D \cap Retries(Q))
            = ReadyKeys(Q, (Ready(Q) \cup D) \cap Retries(Q))
    BY DEF ReadyKeys
  <2>3. ReadyKeys(R, (Ready(Q) \cup D) \cap Retries(Q))
            = ReadyKeys(Q, (Ready(Q) \cup D) \cap Retries(Q))
    BY <1>7, <1>8
  <2>. QED
    BY <1>0, <1>1, <1>2, <1>6, <2>1, <2>2, <2>3, Zenon DEF Indexed
<1>11. R.ready_fresh = OrderKeys(R, Ready(R) \ Retries(R))
  <2>1. {<<Q.entries[h].order_key[1], Q.entries[h].order_key[2], h>> :
            h \in {g \in D : ~Q.entries[g].is_retry}} = OrderKeys(Q, D \ Retries(Q))
    <3>1. {g \in D : ~Q.entries[g].is_retry} = D \ Retries(Q)
      BY <1>8 DEF Retries
    <3>. QED
      BY <3>1 DEF OrderKeys, SequenceOf
  <2>2. OrderKeys(Q, Ready(Q) \ Retries(Q)) \cup OrderKeys(Q, D \ Retries(Q))
            = OrderKeys(Q, (Ready(Q) \cup D) \ Retries(Q))
    BY DEF OrderKeys
  <2>3. OrderKeys(R, (Ready(Q) \cup D) \ Retries(Q))
            = OrderKeys(Q, (Ready(Q) \cup D) \ Retries(Q))
    BY <1>7, <1>8
  <2>. QED
    BY <1>0, <1>1, <1>2, <1>6, <2>1, <2>2, <2>3, ZenonT(60) DEF Indexed
<1>12. R.expiry = ExpiryKeys(R, Queued(R)) /\ R.retry_expiry = ExpiryKeys(R, Retries(R))
  BY <1>0, <1>2, <1>3, <1>6, <1>7, <1>8 DEF Indexed
<1>13. Sequenced(R)
  <2>1. Sequenced(Q) /\ R.sequence = Q.sequence
    BY <1>0, <1>2 DEF Indexed
  <2>2. \A h \in Queued(Q) : /\ SequenceOf(R, h) = SequenceOf(Q, h)
                            /\ R.entries[h].hash = Q.entries[h].hash
    BY <1>5 DEF SequenceOf
  <2>. QED
    BY <1>3, <2>1, <2>2 DEF Sequenced
<1>14. \A h \in Queued(R) : EntryType(R.entries[h])
  <2>. TAKE h \in Queued(R)
  <2>1. EntryType(Q.entries[h])
    BY <1>0, <1>3 DEF QueueType
  <2>2. R.entries[h].ready \in BOOLEAN
    BY <1>3, <1>5, <2>1, ZenonT(60) DEF EntryType
  <2>. QED
    BY <1>3, <1>5, <2>1, <2>2 DEF EntryType
<1>15. QueueType(R)
  <2>1. /\ R.waiting \in Index
        /\ R.ready_retry \in Index
    BY <1>0, <1>2, <1>1 DEF QueueType, Index, due
  <2>2. R.ready_fresh \in Index
    <3>1. \A h \in Queued(Q) :
            <<Q.entries[h].order_key[1], Q.entries[h].order_key[2], h>> \in Nat \X Nat \X Hashes
      BY <1>0 DEF QueueType, EntryType
    <3>2. Q.ready_fresh \in Index /\ H \subseteq Queued(Q)
      BY <1>0, <1>1, <1>8 DEF QueueType
    <3>3. R.ready_fresh = Q.ready_fresh \cup
            {<<Q.entries[h].order_key[1], Q.entries[h].order_key[2], h>> :
                h \in {g \in H : ~Q.entries[g].is_retry}}
      BY <1>2
    <3>. HIDE DEF H
    <3>. QED
      BY <3>1, <3>2, <3>3 DEF Index
  <2>. QED
    BY <1>0, <1>2, <1>3, <1>14, <2>1, <2>2 DEF QueueType
<1>16. Sound(R, n)
  BY <1>3, <1>5, <1>9, <1>10, <1>11, <1>12, <1>13, <1>15 DEF Sound, Indexed
<1>17. \A h \in Queued(Q) : Like(R.entries[h], Q.entries[h])
  BY <1>5, Zenon DEF Like
<1>. QED
  BY <1>2, <1>3, <1>6, <1>16, <1>17 DEF R

-------------------------------------------------------------------------------
(* The first and the last key of an index.                                 *)

(* A nonempty set of naturals has a least element.                         *)
LEMMA LeastNatural ==
    ASSUME NEW T \in SUBSET Nat, T # {}
    PROVE  \E m \in T : \A k \in T : m <= k
<1>. DEFINE R == OpToRel(<, Nat)
<1>1. IsWellFoundedOn(R, Nat)
  BY NatLessThanWellFounded
<1>2. \A a, b \in Nat : <<a, b>> \in R <=> a < b
  BY DEF OpToRel
<1>. HIDE DEF R
<1>3. \E x \in T : \A y \in T : ~(<<y, x>> \in R)
  BY <1>1, WFMin, Zenon
<1>4. PICK x \in T : \A y \in T : ~(<<y, x>> \in R)
  BY <1>3
<1>5. \A y \in T : x <= y
  <2>. TAKE y \in T
  <2>1. x \in Nat /\ y \in Nat
    OBVIOUS
  <2>2. ~(y < x)
    BY <1>2, <1>4, <2>1, Zenon
  <2>. QED
    BY <2>1, <2>2
<1>. QED
  BY <1>5

(* A nonempty index has a first key: what a pop takes from ready_retry and *)
(* a full queue evicts.                                                    *)
LEMMA FirstExists ==
    ASSUME NEW I \in Index, I # {}
    PROVE  FirstOf(I) \in I
<1>0. \A k \in I : k[1] \in Nat /\ k[2] \in Nat
  BY DEF Index
<1>. DEFINE T == {k[1] : k \in I}
<1>1. PICK m \in T : \A x \in T : m <= x
  <2>1. T \in SUBSET Nat /\ T # {}
    BY <1>0
  <2>. HIDE DEF T
  <2>. QED
    BY <2>1, LeastNatural
<1>2. PICK b \in I : b[1] = m
  BY <1>1
<1>. DEFINE U == {k[2] : k \in {x \in I : x[1] = m}}
<1>3. PICK u \in U : \A x \in U : u <= x
  <2>1. U \in SUBSET Nat /\ b[2] \in U
    BY <1>0, <1>2
  <2>. HIDE DEF U
  <2>. QED
    BY <2>1, LeastNatural
<1>4. PICK k \in I : k[1] = m /\ k[2] = u
  BY <1>3
<1>5. \A o \in I : ~Before(o, k)
  <2>. TAKE o \in I
  <2>1. o[1] \in T /\ (o[1] = m => o[2] \in U)
    OBVIOUS
  <2>. HIDE DEF T, U
  <2>2. m <= o[1] /\ (o[1] = m => u <= o[2])
    BY <1>1, <1>3, <2>1
  <2>. QED
    BY <1>0, <1>4, <2>2 DEF Before
<1>. QED
  BY <1>5 DEF FirstOf

(* A nonempty index whose keys are bounded has a last key: what a pop      *)
(* takes from ready_fresh.                                                 *)
LEMMA LastExists ==
    ASSUME NEW I \in Index, I # {}, NEW n \in Nat, NEW s \in Nat,
           \A k \in I : k[1] <= n /\ k[2] <= s
    PROVE  LastOf(I) \in I
<1>0. \A k \in I : k[1] \in Nat /\ k[2] \in Nat
  BY DEF Index
<1>. DEFINE T == {n - k[1] : k \in I}
<1>1. PICK m \in T : \A x \in T : m <= x
  <2>1. T \in SUBSET Nat /\ T # {}
    BY <1>0
  <2>. HIDE DEF T
  <2>. QED
    BY <2>1, LeastNatural
<1>2. PICK b \in I : n - b[1] = m
  BY <1>1
<1>. DEFINE U == {s - k[2] : k \in {x \in I : x[1] = b[1]}}
<1>3. PICK u \in U : \A x \in U : u <= x
  <2>1. U \in SUBSET Nat /\ s - b[2] \in U
    BY <1>0, <1>2
  <2>. HIDE DEF U
  <2>. QED
    BY <2>1, LeastNatural
<1>4. PICK k \in I : k[1] = b[1] /\ s - k[2] = u
  BY <1>3
<1>5. \A o \in I : ~Before(k, o)
  <2>. TAKE o \in I
  <2>1. n - o[1] \in T /\ (o[1] = b[1] => s - o[2] \in U)
    OBVIOUS
  <2>. HIDE DEF T, U
  <2>2. n - b[1] <= n - o[1] /\ (o[1] = b[1] => s - k[2] <= s - o[2])
    BY <1>1, <1>2, <1>3, <1>4, <2>1
  <2>. QED
    BY <1>0, <1>4, <2>2 DEF Before
<1>. QED
  BY <1>5 DEF LastOf

-------------------------------------------------------------------------------
(* merge_candidate, push and defer.                                        *)

(* merge_candidate keeps an entry's type and identity, and its latest      *)
(* sighting is the later of the two.                                       *)
LEMMA MergeTyped ==
    ASSUME NEW e, EntryType(e), NEW event \in Event
    PROVE  LET m == MergeCandidate(e, event)
           IN  /\ EntryType(m)
               /\ m.latest_at = Larger(e.latest_at, event.at)
               /\ m.hash = e.hash
               /\ m.ready_at = e.ready_at
               /\ m.expires_at = e.expires_at
               /\ m.is_retry = e.is_retry
               /\ m.ready = e.ready
<1>. DEFINE m == MergeCandidate(e, event)
<1>1. /\ event.at \in Nat
      /\ event.peer # None => event.peer \in Peers
      /\ event.source # None => event.source \in Nodes
  BY DEF Event
<1>2. /\ DOMAIN m = DOMAIN e
      /\ m.peers = IF event.peer = None THEN e.peers
                   ELSE MergePeer(e.peers, event.peer, event.at)
      /\ m.source_nodes = IF event.source = None THEN e.source_nodes
                          ELSE MergeSource(e.source_nodes, event.source)
      /\ m.latest_at = Larger(e.latest_at, event.at)
      /\ m.hash = e.hash /\ m.ready_at = e.ready_at /\ m.order_key = e.order_key
      /\ m.expires_at = e.expires_at /\ m.is_retry = e.is_retry /\ m.ready = e.ready
  BY DEF MergeCandidate, EntryType
<1>. HIDE DEF m
<1>3. DOMAIN m.peers \subseteq Peers /\ \A p \in DOMAIN m.peers : m.peers[p] \in Nat
  <2>1. CASE event.peer = None
    BY <1>2, <2>1 DEF EntryType
  <2>2. CASE event.peer # None
    <3>. DEFINE seen == IF event.peer \in DOMAIN e.peers
                        THEN Larger(e.peers[event.peer], event.at) ELSE event.at
                w == With(e.peers, event.peer, seen)
    <3>1. seen \in Nat
      BY <1>1 DEF EntryType, Larger
    <3>. HIDE DEF seen
    <3>2. DOMAIN w \subseteq Peers /\ \A p \in DOMAIN w : w[p] \in Nat
      BY <1>1, <2>2, <3>1 DEF EntryType, With
    <3>. HIDE DEF w
    <3>3. \A S \in SUBSET DOMAIN w : /\ DOMAIN Restrict(w, S) \subseteq Peers
                                     /\ \A p \in DOMAIN Restrict(w, S) : Restrict(w, S)[p] \in Nat
      BY <3>2 DEF Restrict
    <3>4. m.peers = w \/ \E S \in SUBSET DOMAIN w : m.peers = Restrict(w, S)
      BY <1>2, <2>2 DEF MergePeer, w, seen
    <3>. QED
      BY <3>2, <3>3, <3>4
  <2>. QED
    BY <2>1, <2>2
<1>4. m.source_nodes \in Seq(Nodes)
  <2>1. CASE event.source = None
    BY <1>2, <2>1 DEF EntryType
  <2>2. CASE event.source # None
    <3>. DEFINE s == e.source_nodes
                old == {i \in 1..Len(s) : s[i] = event.source}
                i == CHOOSE i \in old : TRUE
                others == IF old = {} THEN s
                          ELSE SubSeq(s, 1, i - 1) \o SubSeq(s, i + 1, Len(s))
                merged == <<event.source>> \o others
    <3>1. s \in Seq(Nodes)
      BY DEF EntryType
    <3>2. old # {} => i \in 1..Len(s)
      OBVIOUS
    <3>. HIDE DEF i
    <3>3. others \in Seq(Nodes)
      BY <3>1, <3>2
    <3>. HIDE DEF others
    <3>4. merged \in Seq(Nodes)
      BY <1>1, <2>2, <3>3
    <3>5. m.source_nodes = SubSeq(merged, 1, Smaller(Len(merged), MaxSourceNodes))
      BY <1>2, <2>2, Zenon DEF MergeSource, others, i
    <3>. HIDE DEF merged
    <3>6. Smaller(Len(merged), MaxSourceNodes) \in 0..Len(merged)
      BY <3>4, QueueAssumption DEF Smaller
    <3>. QED
      BY <3>4, <3>5, <3>6
  <2>. QED
    BY <2>1, <2>2
<1>5. m.latest_at \in Nat
  BY <1>1, <1>2 DEF EntryType, Larger
<1>6. EntryType(m)
  BY <1>2, <1>3, <1>4, <1>5 DEF EntryType
<1>. QED
  BY <1>2, <1>6 DEF m

(* R is Q with the hashes in S removed and the entry e queued.             *)
Replaced(R, Q, S, e) ==
    /\ Queued(R) = (Queued(Q) \ S) \cup {e.hash}
    /\ \A h \in Queued(R) \ {e.hash} : R.entries[h] = Q.entries[h]
    /\ Like(R.entries[e.hash], e)
    /\ R.fresh_dispatches = Q.fresh_dispatches

Leaves(Q, S, h) == h \notin Queued(Q) \ S

(* A hash that is removed and inserted again, or another in place of one   *)
(* that is removed.                                                        *)
LEMMA ReplaceEntry ==
    ASSUME NEW Q, NEW n \in Nat, Sound(Q, n), NEW S, NEW e, EntryType(e), e.latest_at <= n,
           Leaves(Q, S, e.hash)
    PROVE  LET R == QueueInsert(QueueRemoveAll(Q, S), e) IN Sound(R, n) /\ Replaced(R, Q, S, e)
<1>. DEFINE P == QueueRemoveAll(Q, S)
            I == QueueInsert(P, e)
<1>1. /\ Sound(P, n) /\ Queued(P) = Queued(Q) \ S
      /\ \A h \in Queued(P) : P.entries[h] = Q.entries[h]
      /\ P.fresh_dispatches = Q.fresh_dispatches
  BY RemoveAllSound, Zenon
<1>. HIDE DEF P
<1>2. e.hash \notin Queued(P)
  BY <1>1 DEF Leaves
<1>3. /\ Sound(I, n)
      /\ Queued(I) = Queued(P) \cup {e.hash}
      /\ \A h \in Queued(P) : I.entries[h] = P.entries[h]
      /\ Like(I.entries[e.hash], e)
      /\ I.fresh_dispatches = P.fresh_dispatches
  BY <1>1, <1>2, InsertSound, Zenon
<1>. HIDE DEF I
<1>4. Sound(I, n) /\ Replaced(I, Q, S, e)
  BY <1>1, <1>3 DEF Replaced
<1>. QED
  BY <1>4, Zenon DEF I, P

(* What defer does: the entry is dropped for want of room, or queued again *)
(* as a retry with the deadline of the record.                             *)
DeferOutcome(R, Q, e, r) ==
    \/ ~CanDefer(Q, e.hash) /\ Queued(R) = Queued(Q) \ {e.hash}
    \/ /\ CanDefer(Q, e.hash)
       /\ Queued(R) = Queued(Q) \cup {e.hash}
       /\ R.entries[e.hash].hash = e.hash
       /\ R.entries[e.hash].peers = e.peers
       /\ R.entries[e.hash].source_nodes = e.source_nodes
       /\ R.entries[e.hash].is_retry
       /\ R.entries[e.hash].expires_at = r.expires_at

(* defer leaves a sound queue in which no other hash has changed.          *)
LEMMA DeferSound ==
    ASSUME NEW Q, NEW n \in Nat, Sound(Q, n), NEW e, EntryType(e), e.latest_at <= n,
           NEW r, r.next_due \in Nat, r.expires_at \in Nat
    PROVE  LET R == QueueDefer(Q, e, r)
           IN  /\ Sound(R, n)
               /\ \A h \in Queued(R) \ {e.hash} : h \in Queued(Q) /\ R.entries[h] = Q.entries[h]
               /\ R.fresh_dispatches = Q.fresh_dispatches
               /\ DeferOutcome(R, Q, e, r)
<1>. DEFINE P == QueueRemoveAll(Q, {e.hash})
            d == [e EXCEPT !.ready_at = r.next_due, !.expires_at = r.expires_at,
                           !.is_retry = TRUE, !.ready = FALSE]
            R == QueueDefer(Q, e, r)
<1>1. /\ EntryType(d) /\ d.hash = e.hash /\ d.latest_at <= n
      /\ d.peers = e.peers /\ d.source_nodes = e.source_nodes /\ d.is_retry = TRUE
      /\ d.expires_at = r.expires_at
  BY DEF EntryType
<1>2. R = IF CanDefer(Q, e.hash) THEN QueueInsert(P, d) ELSE P
  BY DEF QueueDefer, QueueRemove
<1>. HIDE DEF d, R
<1>3. CASE ~CanDefer(Q, e.hash)
  <2>1. /\ Sound(P, n) /\ Queued(P) = Queued(Q) \ {e.hash}
        /\ \A h \in Queued(P) : P.entries[h] = Q.entries[h]
        /\ P.fresh_dispatches = Q.fresh_dispatches
    BY RemoveAllSound, Zenon
  <2>. HIDE DEF P
  <2>. QED
    BY <1>2, <1>3, <2>1 DEF R, DeferOutcome
<1>4. CASE CanDefer(Q, e.hash)
  <2>1. EntryType(d) /\ d.latest_at <= n /\ Leaves(Q, {e.hash}, d.hash)
    BY <1>1 DEF Leaves
  <2>2. R = QueueInsert(QueueRemoveAll(Q, {e.hash}), d)
    BY <1>2, <1>4
  <2>. DEFINE I == QueueInsert(QueueRemoveAll(Q, {e.hash}), d)
  <2>3. Sound(I, n) /\ Replaced(I, Q, {e.hash}, d)
    BY <2>1, ReplaceEntry, Zenon
  <2>5. R = I
    BY <2>2
  <2>. HIDE DEF I
  <2>4. DeferOutcome(R, Q, e, r)
    BY <1>1, <1>4, <2>3, <2>5 DEF DeferOutcome, Like, Replaced
  <2>. QED
    BY <1>1, <2>3, <2>4, <2>5 DEF R, Replaced
<1>. QED
  BY <1>3, <1>4

(* A hash that is seen for the first time.                                 *)
LEMMA NewTyped ==
    ASSUME NEW event \in Event, NEW n \in Nat
    PROVE  LET new == NewEntry(event, n)
           IN  EntryType(new) /\ new.hash = event.hash /\ new.latest_at = event.at
<1>. DEFINE new == NewEntry(event, n)
            none == [p \in {} |-> 0]
<1>1. /\ event.hash \in Hashes /\ event.at \in Nat
      /\ n + CoalesceWindow \in Nat /\ event.at + Ttl \in Nat /\ <<n, 0>> \in Nat \X Nat
      /\ <<>> \in Seq(Nodes) /\ DOMAIN none = {}
  BY QueueAssumption DEF Event
<1>. HIDE DEF none
<1>2. /\ DOMAIN new = {"hash", "peers", "source_nodes", "ready_at", "latest_at", "order_key",
                       "expires_at", "is_retry", "ready"}
      /\ new.hash = event.hash /\ new.peers = none /\ new.source_nodes = <<>>
      /\ new.ready_at = n + CoalesceWindow /\ new.latest_at = event.at
      /\ new.order_key = <<n, 0>> /\ new.expires_at = event.at + Ttl
      /\ new.is_retry = FALSE /\ new.ready = FALSE
  BY DEF NewEntry, none
<1>. HIDE DEF new
<1>3. EntryType(new)
  BY <1>1, <1>2, Zenon DEF EntryType
<1>. QED
  BY <1>2, <1>3 DEF new

(* A full queue evicts a hash that it holds: a retry when it has one.      *)
LEMMA VictimQueued ==
    ASSUME NEW Q, NEW n, Sound(Q, n), Q.retry_expiry \cup Q.expiry # {}
    PROVE  /\ Victim(Q) \in Queued(Q)
           /\ Victim(Q) \in Retries(Q) \/ Retries(Q) = {}
<1>1. /\ Q.expiry \in Index /\ Q.retry_expiry \in Index
      /\ Q.expiry = ExpiryKeys(Q, Queued(Q)) /\ Q.retry_expiry = ExpiryKeys(Q, Retries(Q))
  BY DEF Sound, QueueType, Indexed
<1>2. \A S : \A k \in ExpiryKeys(Q, S) : k[3] \in S
  BY DEF ExpiryKeys
<1>3. Retries(Q) \subseteq Queued(Q)
  BY DEF Retries
<1>4. CASE Q.retry_expiry # {}
  <2>1. FirstOf(Q.retry_expiry) \in Q.retry_expiry
    BY <1>1, <1>4, FirstExists, Zenon
  <2>2. Victim(Q) = FirstOf(Q.retry_expiry)[3]
    BY <1>4 DEF Victim
  <2>3. Victim(Q) \in Retries(Q)
    BY <1>1, <1>2, <2>1, <2>2, Zenon
  <2>. QED
    BY <1>3, <2>3
<1>5. CASE Q.retry_expiry = {}
  <2>1. FirstOf(Q.expiry) \in Q.expiry
    BY <1>1, <1>5, FirstExists
  <2>2. Victim(Q) = FirstOf(Q.expiry)[3]
    BY <1>5 DEF Victim
  <2>3. Victim(Q) \in Queued(Q)
    BY <1>1, <1>2, <2>1, <2>2, Zenon
  <2>4. \A h \in Retries(Q) :
            <<Q.entries[h].expires_at, SequenceOf(Q, h), h>> \in ExpiryKeys(Q, Retries(Q))
    BY DEF ExpiryKeys
  <2>5. Retries(Q) = {}
    BY <1>1, <1>5, <2>4
  <2>. QED
    BY <2>3, <2>5
<1>. QED
  BY <1>4, <1>5

Fresh(event, n) == MergeCandidate(NewEntry(event, n), event)

(* What push does: nothing, or the entry of its hash is brought up to      *)
(* date, or the hash is added, in a full queue at the price of another: a  *)
(* retry if there is one.                                                  *)
PushOutcome(R, Q, event, n) ==
    \/ R = Q
    \/ /\ event.hash \in Queued(Q)
       /\ Queued(R) = Queued(Q)
       /\ Like(R.entries[event.hash], UpdatedEntry(Q, event))
    \/ /\ event.hash \notin Queued(Q)
       /\ Like(R.entries[event.hash], Fresh(event, n))
       /\ \/ /\ Cardinality(Queued(Q)) < Capacity
             /\ Queued(R) = Queued(Q) \cup {event.hash}
          \/ \E v \in Queued(Q) : /\ Queued(R) = (Queued(Q) \ {v}) \cup {event.hash}
                                  /\ v \in Retries(Q) \/ Retries(Q) = {}

(* push leaves a sound queue in which no other hash has changed.           *)
LEMMA PushSound ==
    ASSUME NEW Q, NEW n \in Nat, Sound(Q, n), NEW event \in Event, event.at <= n
    PROVE  LET R == QueuePush(Q, event, n)
           IN  /\ Sound(R, n)
               /\ \A g \in Queued(R) \ {event.hash} :
                        g \in Queued(Q) /\ R.entries[g] = Q.entries[g]
               /\ R.fresh_dispatches = Q.fresh_dispatches
               /\ PushOutcome(R, Q, event, n)
<1>. DEFINE R == QueuePush(Q, event, n)
            kind == PushKind(Q, event, n)
            new == NewEntry(event, n)
            fresh == MergeCandidate(new, event)
            h == event.hash
            v == Victim(Q)
            up == UpdatedEntry(Q, event)
<1>0. /\ h \in Hashes
      /\ event.at \in Nat
      /\ Ttl \in Nat
  BY QueueAssumption DEF Event
<1>2. EntryType(fresh) /\ fresh.hash = h /\ fresh.latest_at <= n
  <2>1. EntryType(new) /\ new.hash = h /\ new.latest_at = event.at
    BY NewTyped, Zenon
  <2>. HIDE DEF new
  <2>2. EntryType(fresh) /\ fresh.hash = new.hash
        /\ fresh.latest_at = Larger(new.latest_at, event.at)
    BY <2>1, MergeTyped, Zenon
  <2>. HIDE DEF fresh
  <2>. QED
    BY <1>0, <2>1, <2>2 DEF Larger
<1>3. ASSUME h \in Queued(Q)
      PROVE  EntryType(up) /\ up.hash = h /\ up.latest_at <= n
  <2>. DEFINE old == Q.entries[h]
              m == MergeCandidate(old, event)
  <2>1. EntryType(old) /\ old.hash = h /\ old.latest_at <= n
    BY <1>3 DEF Sound, QueueType, Indexed, Sequenced
  <2>2. up = [m EXCEPT !.expires_at = IF m.is_retry THEN m.expires_at ELSE m.latest_at + Ttl]
    BY DEF UpdatedEntry
  <2>. HIDE DEF old, up
  <2>3. EntryType(m) /\ m.hash = old.hash /\ m.latest_at = Larger(old.latest_at, event.at)
    BY <2>1, MergeTyped, Zenon
  <2>. HIDE DEF m
  <2>4. m.latest_at \in Nat /\ m.latest_at <= n
    BY <1>0, <2>1, <2>3 DEF Larger, EntryType
  <2>5. (IF m.is_retry THEN m.expires_at ELSE m.latest_at + Ttl) \in Nat
    BY <1>0, <2>3, <2>4 DEF EntryType
  <2>. QED
    BY <2>1, <2>2, <2>3, <2>4, <2>5 DEF EntryType
<1>5. \/ R = Q
      \/ h \in Queued(Q) /\ R = QueueInsert(QueueRemoveAll(Q, {h}), up)
      \/ /\ h \notin Queued(Q) /\ Cardinality(Queued(Q)) < Capacity
         /\ R = QueueInsert(Q, fresh)
      \/ /\ h \notin Queued(Q) /\ Q.retry_expiry \cup Q.expiry # {}
         /\ R = QueueInsert(QueueRemoveAll(Q, {v}), fresh)
  <2>1. /\ kind \in {"Stale", "Updated", "Inserted", "EvictedRetry", "EvictedOldest"}
        /\ (kind = "Updated" => h \in Queued(Q))
        /\ (kind \in {"Inserted", "EvictedRetry", "EvictedOldest"} => h \notin Queued(Q))
        /\ (kind = "Inserted" => Cardinality(Queued(Q)) < Capacity)
        /\ (kind \in {"EvictedRetry", "EvictedOldest"} => Q.retry_expiry \cup Q.expiry # {})
    BY DEF PushKind
  <2>2. R = CASE kind = "Stale"    -> Q
              [] kind = "Updated"  -> QueueInsert(QueueRemoveAll(Q, {h}), up)
              [] kind = "Inserted" -> QueueInsert(Q, fresh)
              [] OTHER             -> QueueInsert(QueueRemoveAll(Q, {v}), fresh)
    BY DEF QueuePush, QueueRemove
  <2>. HIDE DEF R, kind, up, fresh, v
  <2>. QED
    BY <2>1, <2>2
<1>6. ASSUME NEW S, NEW e, EntryType(e), e.latest_at <= n, e.hash = h, h \notin Queued(Q) \ S,
             R = QueueInsert(QueueRemoveAll(Q, S), e)
      PROVE  /\ Sound(R, n)
             /\ Queued(R) = (Queued(Q) \ S) \cup {h}
             /\ \A g \in Queued(R) \ {h} : g \in Queued(Q) /\ R.entries[g] = Q.entries[g]
             /\ Like(R.entries[h], e)
             /\ R.fresh_dispatches = Q.fresh_dispatches
  <2>. HIDE DEF R
  <2>1. EntryType(e) /\ e.latest_at <= n /\ Leaves(Q, S, e.hash)
    BY <1>6 DEF Leaves
  <2>. DEFINE I == QueueInsert(QueueRemoveAll(Q, S), e)
  <2>2. R = I
    BY <1>6
  <2>3. Sound(I, n) /\ Replaced(I, Q, S, e)
    BY <2>1, ReplaceEntry, Zenon
  <2>. HIDE DEF I
  <2>. QED
    BY <1>6, <2>2, <2>3 DEF Replaced
<1>. HIDE DEF R, kind, up, fresh, v
<1>7. CASE R = Q
  BY <1>7 DEF R, PushOutcome
<1>8. CASE h \in Queued(Q) /\ R = QueueInsert(QueueRemoveAll(Q, {h}), up)
  <2>1. h \notin Queued(Q) \ {h}
    OBVIOUS
  <2>2. /\ Sound(R, n)
        /\ Queued(R) = (Queued(Q) \ {h}) \cup {h}
        /\ \A g \in Queued(R) \ {h} : g \in Queued(Q) /\ R.entries[g] = Q.entries[g]
        /\ Like(R.entries[h], up)
        /\ R.fresh_dispatches = Q.fresh_dispatches
    BY <1>3, <1>6, <1>8, <2>1, Zenon
  <2>3. Queued(R) = Queued(Q)
    BY <1>8, <2>2
  <2>. QED
    BY <1>8, <2>2, <2>3, Zenon DEF R, PushOutcome, up
<1>9. CASE /\ h \notin Queued(Q) /\ Cardinality(Queued(Q)) < Capacity
           /\ R = QueueInsert(Q, fresh)
  <2>. DEFINE I == QueueInsert(Q, fresh)
  <2>1. fresh.hash \notin Queued(Q)
    BY <1>2, <1>9
  <2>2. /\ Sound(I, n)
        /\ Queued(I) = Queued(Q) \cup {fresh.hash}
        /\ \A g \in Queued(Q) : I.entries[g] = Q.entries[g]
        /\ Like(I.entries[fresh.hash], fresh)
        /\ I.fresh_dispatches = Q.fresh_dispatches
    BY <1>2, <2>1, InsertSound, Zenon
  <2>. HIDE DEF I
  <2>3. /\ Sound(R, n)
        /\ Queued(R) = Queued(Q) \cup {h}
        /\ \A g \in Queued(R) \ {h} : g \in Queued(Q) /\ R.entries[g] = Q.entries[g]
        /\ Like(R.entries[h], fresh)
        /\ R.fresh_dispatches = Q.fresh_dispatches
    BY <1>2, <1>9, <2>2 DEF I
  <2>. QED
    BY <1>9, <2>3, Zenon DEF R, PushOutcome, Fresh, fresh
<1>10. CASE /\ h \notin Queued(Q) /\ Q.retry_expiry \cup Q.expiry # {}
            /\ R = QueueInsert(QueueRemoveAll(Q, {v}), fresh)
  <2>1. v \in Queued(Q) /\ (v \in Retries(Q) \/ Retries(Q) = {})
    BY <1>10, VictimQueued DEF v
  <2>2. h \notin Queued(Q) \ {v}
    BY <1>10
  <2>3. /\ Sound(R, n)
        /\ Queued(R) = (Queued(Q) \ {v}) \cup {h}
        /\ \A g \in Queued(R) \ {h} : g \in Queued(Q) /\ R.entries[g] = Q.entries[g]
        /\ Like(R.entries[h], fresh)
        /\ R.fresh_dispatches = Q.fresh_dispatches
    BY <1>2, <1>6, <1>10, <2>2, Zenon
  <2>. QED
    BY <1>10, <2>1, <2>3, Zenon DEF R, PushOutcome, Fresh, fresh
<1>. QED
  BY <1>5, <1>7, <1>8, <1>9, <1>10

-------------------------------------------------------------------------------
(* pop_newest_ready.                                                       *)

(* The keys of both ready indexes name queued hashes, and those of         *)
(* ready_fresh are bounded.                                                *)
LEMMA ReadyRetryQueued ==
    ASSUME NEW p, NEW n, Sound(p, n)
    PROVE  p.ready_retry \in Index /\ \A k \in p.ready_retry : k[3] \in Queued(p)
<1>1. p.ready_retry \in Index /\ p.ready_retry = ReadyKeys(p, Ready(p) \cap Retries(p))
  BY DEF Sound, QueueType, Indexed
<1>2. \A k \in ReadyKeys(p, Ready(p) \cap Retries(p)) : k[3] \in Ready(p)
  BY DEF ReadyKeys
<1>3. Ready(p) \subseteq Queued(p)
  BY Zenon DEF Ready
<1>. QED
  BY <1>1, <1>2, <1>3

(* The fresh index names queued hashes only.                               *)
LEMMA ReadyFreshQueued ==
    ASSUME NEW p, NEW n, Sound(p, n)
    PROVE  /\ p.ready_fresh \in Index
           /\ p.sequence \in Nat
           /\ \A k \in p.ready_fresh : k[3] \in Queued(p) /\ k[1] <= n /\ k[2] <= p.sequence
<1>. DEFINE R == Ready(p) \ Retries(p)
<1>1. p.ready_fresh \in Index /\ p.sequence \in Nat /\ p.ready_fresh = OrderKeys(p, R)
  BY DEF Sound, QueueType, Indexed
<1>2. R \subseteq Queued(p)
  BY Zenon DEF Ready
<1>3. \A h \in Queued(p) : p.entries[h].order_key[1] <= n
  BY DEF Sound
<1>4. \A h \in Queued(p) : SequenceOf(p, h) \in 1..p.sequence
  BY DEF Sound, Indexed, Sequenced
<1>5. \A h \in Queued(p) : SequenceOf(p, h) <= p.sequence
  BY <1>1, <1>4
<1>. HIDE DEF R
<1>6. ASSUME NEW k \in OrderKeys(p, R)
      PROVE  k[3] \in Queued(p) /\ k[1] <= n /\ k[2] <= p.sequence
  <2>1. PICK h \in R : k = <<p.entries[h].order_key[1], SequenceOf(p, h), h>>
    BY Zenon DEF OrderKeys
  <2>2. k[1] = p.entries[h].order_key[1] /\ k[2] = SequenceOf(p, h) /\ k[3] = h
    BY <2>1
  <2>3. h \in Queued(p)
    BY <1>2
  <2>. QED
    BY <1>3, <1>5, <2>2, <2>3
<1>. QED
  BY <1>1, <1>6

(* Agreement depends on the entries, the indexes and the sequence only.    *)
LEMMA IndexedSame ==
    ASSUME NEW p, NEW c, Indexed(p),
           c.entries = p.entries, c.expiry = p.expiry, c.waiting = p.waiting,
           c.ready_fresh = p.ready_fresh, c.ready_retry = p.ready_retry,
           c.retry_expiry = p.retry_expiry, c.sequence = p.sequence
    PROVE  Indexed(c)
<1>1. Queued(c) = Queued(p)
  BY DEF Queued
<1>2. Ready(c) = Ready(p) /\ Retries(c) = Retries(p)
  BY <1>1 DEF Ready, Retries
<1>3. \A h : SequenceOf(c, h) = SequenceOf(p, h)
  BY DEF SequenceOf
<1>4. \A S : /\ ExpiryKeys(c, S) = ExpiryKeys(p, S)
             /\ ReadyKeys(c, S) = ReadyKeys(p, S)
             /\ OrderKeys(c, S) = OrderKeys(p, S)
  BY <1>3 DEF ExpiryKeys, ReadyKeys, OrderKeys
<1>5. Sequenced(c)
  BY <1>1, <1>3 DEF Indexed, Sequenced
<1>. QED
  BY <1>1, <1>2, <1>4, <1>5 DEF Indexed

(* The count of fresh hashes after a pop.                                  *)
Counted(p) ==
    IF UseRetry(p) THEN 0
    ELSE IF p.fresh_dispatches < FreshSaturation THEN p.fresh_dispatches + 1
    ELSE p.fresh_dispatches

(* What a pop of Q at n leads to, p being the queue it takes the hash from.*)
PopOutcome(Q, p, n) ==
    /\ Sound(p, n)
    /\ Queued(p) \subseteq Queued(Q)
    /\ \A h \in Queued(p) : Like(p.entries[h], Q.entries[h])
    /\ p.fresh_dispatches = Q.fresh_dispatches
    /\ Popped(p) # None => Popped(p) \in Queued(p)
    /\ Sound(AfterPop(p), n)
    /\ Queued(AfterPop(p)) = Queued(p) \ {Popped(p)}
    /\ \A h \in Queued(AfterPop(p)) : AfterPop(p).entries[h] = p.entries[h]
    /\ AfterPop(p).fresh_dispatches = Counted(p)

(* The queue a pop works on is sound, what it takes is a queued hash, and  *)
(* the queue it leaves is sound and has lost that hash only.               *)
LEMMA PopSound ==
    ASSUME NEW Q, NEW n \in Nat, Sound(Q, n)
    PROVE  PopOutcome(Q, Poppable(Q, n), n)
<1>. DEFINE x == QueueExpire(Q, n)
            p == Poppable(Q, n)
            c == [p EXCEPT !.fresh_dispatches = Counted(p)]
<1>1. /\ Sound(x, n) /\ Queued(x) = Queued(Q) \ ExpiredHashes(Q, n)
      /\ \A h \in Queued(x) : x.entries[h] = Q.entries[h]
      /\ x.fresh_dispatches = Q.fresh_dispatches
  BY RemoveAllSound, Zenon DEF QueueExpire
<1>2. /\ Sound(p, n) /\ Queued(p) = Queued(x)
      /\ \A h \in Queued(x) : Like(p.entries[h], x.entries[h])
      /\ p.fresh_dispatches = x.fresh_dispatches
  <2>. HIDE DEF x
  <2>1. p = QueuePromote(x, n)
    BY DEF Poppable, x
  <2>2. /\ Sound(QueuePromote(x, n), n) /\ Queued(QueuePromote(x, n)) = Queued(x)
        /\ \A h \in Queued(x) : Like(QueuePromote(x, n).entries[h], x.entries[h])
        /\ QueuePromote(x, n).fresh_dispatches = x.fresh_dispatches
    BY <1>1, PromoteSound, Zenon
  <2>. QED
    BY <2>1, <2>2, Zenon
<1>. HIDE DEF x, p
<1>. HIDE DEF c
<1>3. ASSUME p.ready_retry # {}
      PROVE  FirstOf(p.ready_retry)[3] \in Queued(p)
  <2>1. p.ready_retry \in Index /\ \A k \in p.ready_retry : k[3] \in Queued(p)
    BY <1>2, ReadyRetryQueued, Zenon
  <2>2. FirstOf(p.ready_retry) \in p.ready_retry
    BY <1>3, <2>1, FirstExists, Zenon
  <2>. QED
    BY <2>1, <2>2, Zenon
<1>4. ASSUME p.ready_fresh # {}
      PROVE  LastOf(p.ready_fresh)[3] \in Queued(p)
  <2>1. /\ p.ready_fresh \in Index
        /\ p.sequence \in Nat
        /\ \A k \in p.ready_fresh : k[3] \in Queued(p) /\ k[1] <= n /\ k[2] <= p.sequence
    BY <1>2, ReadyFreshQueued, Zenon
  <2>2. LastOf(p.ready_fresh) \in p.ready_fresh
    BY <1>4, <2>1, LastExists, Zenon
  <2>. QED
    BY <2>1, <2>2, Zenon
<1>5. Popped(p) # None => Popped(p) \in Queued(p)
  BY <1>3, <1>4 DEF Popped, UseRetry
<1>6. Sound(c, n) /\ Queued(c) = Queued(p) /\ c.entries = p.entries
  <2>1. /\ DOMAIN c = DOMAIN p
        /\ c.entries = p.entries
        /\ c.expiry = p.expiry
        /\ c.waiting = p.waiting
        /\ c.ready_fresh = p.ready_fresh
        /\ c.ready_retry = p.ready_retry
        /\ c.retry_expiry = p.retry_expiry
        /\ c.sequence = p.sequence
        /\ c.fresh_dispatches \in 0..FreshSaturation
    BY <1>2, QueueAssumption DEF Sound, QueueType, Counted, c
  <2>2. QueueType(c) /\ Queued(c) = Queued(p)
    BY <1>2, <2>1 DEF Sound, QueueType, Queued
  <2>3. Indexed(p)
    BY <1>2 DEF Sound
  <2>4. Indexed(c)
    BY <2>1, <2>3, IndexedSame, Zenon
  <2>5. \A h \in Queued(c) : c.entries[h].order_key[1] <= n /\ c.entries[h].latest_at <= n
    BY <1>2, <2>1, <2>2 DEF Sound
  <2>. QED
    BY <2>1, <2>2, <2>4, <2>5 DEF Sound
<1>7. AfterPop(p) = QueueRemoveAll(c, {Popped(p)})
  BY DEF AfterPop, QueueRemove, Counted, c
<1>. DEFINE a == AfterPop(p)
            d == QueueRemoveAll(c, {Popped(p)})
<1>8. /\ Sound(a, n)
      /\ Queued(a) = Queued(c) \ {Popped(p)}
      /\ \A h \in Queued(a) : a.entries[h] = c.entries[h]
      /\ a.fresh_dispatches = c.fresh_dispatches
  <2>1. /\ Sound(d, n)
        /\ Queued(d) = Queued(c) \ {Popped(p)}
        /\ \A h \in Queued(d) : d.entries[h] = c.entries[h]
        /\ d.fresh_dispatches = c.fresh_dispatches
    <3>1. Sound(c, n)
      BY <1>6
    <3>. QED
      BY <3>1, RemoveAllSound, Zenon
  <2>2. a = d
    BY <1>7
  <2>. HIDE DEF a, d
  <2>. QED
    BY <2>1, <2>2
<1>9. c.fresh_dispatches = Counted(p)
  BY <1>2, Zenon DEF Sound, QueueType, c
<1>10. /\ \A h \in Queued(p) : Like(p.entries[h], Q.entries[h])
       /\ Queued(p) \subseteq Queued(Q)
       /\ p.fresh_dispatches = Q.fresh_dispatches
  BY <1>1, <1>2
<1>. HIDE DEF a
<1>11. /\ Queued(a) = Queued(p) \ {Popped(p)}
       /\ \A h \in Queued(a) : a.entries[h] = p.entries[h]
  BY <1>6, <1>8
<1>. QED
  <2>. HIDE DEF p, c
  <2>1. PopOutcome(Q, p, n)
    BY <1>2, <1>5, <1>8, <1>9, <1>10, <1>11 DEF a, PopOutcome
  <2>. QED
    BY <2>1 DEF p

(* The empty queue is sound.                                               *)
LEMMA EmptyQueueSound ==
    ASSUME NEW n \in Nat
    PROVE  Sound(EmptyQueue, n) /\ Queued(EmptyQueue) = {}
<1>1. Queued(EmptyQueue) = {}
  BY DEF EmptyQueue, Queued
<1>2. QueueType(EmptyQueue)
  <2>1. /\ DOMAIN EmptyQueue = {"entries", "expiry", "waiting", "ready_fresh", "ready_retry",
                                "retry_expiry", "sequence", "fresh_dispatches"}
        /\ EmptyQueue.expiry = {} /\ EmptyQueue.waiting = {} /\ EmptyQueue.ready_fresh = {}
        /\ EmptyQueue.ready_retry = {} /\ EmptyQueue.retry_expiry = {}
        /\ EmptyQueue.sequence = 0 /\ EmptyQueue.fresh_dispatches = 0
    BY DEF EmptyQueue
  <2>2. {} \in Index /\ 0 \in Nat /\ 0 \in 0..FreshSaturation
    BY QueueAssumption DEF Index
  <2>. QED
    BY <1>1, <2>1, <2>2, Zenon DEF QueueType
<1>3. Indexed(EmptyQueue)
  BY <1>1, Zenon DEF EmptyQueue, Indexed, Sequenced, ExpiryKeys, ReadyKeys, OrderKeys, Retries, Ready
<1>. QED
  BY <1>1, <1>2, <1>3 DEF Sound

(* The count of a pop stays ahead of the fresh hashes taken in a row past  *)
(* a due retry, and stops them at FreshPerRetry: then the retry is used.   *)
LEMMA PopCount ==
    ASSUME NEW p, p.fresh_dispatches \in 0..FreshSaturation,
           NEW k \in Nat, k <= p.fresh_dispatches, k <= FreshPerRetry
    PROVE  LET m == IF p.ready_retry = {} \/ UseRetry(p) THEN 0 ELSE k + 1
           IN  m \in Nat /\ m <= Counted(p) /\ m <= FreshPerRetry
<1>1. FreshPerRetry \in Nat /\ FreshSaturation \in Nat /\ FreshPerRetry <= FreshSaturation
  BY QueueAssumption
<1>2. UseRetry(p) <=> p.ready_retry # {} /\ (p.fresh_dispatches >= FreshPerRetry \/ p.ready_fresh = {})
  BY DEF UseRetry
<1>3. Counted(p) \in Nat /\ (~UseRetry(p) =>
        Counted(p) = IF p.fresh_dispatches < FreshSaturation
                     THEN p.fresh_dispatches + 1 ELSE p.fresh_dispatches)
  BY <1>1 DEF Counted
<1>. QED
  BY <1>1, <1>2, <1>3

===============================================================================
