--------------------------- MODULE RetryHistoryProofs ---------------------------
(***************************************************************************)
(* What the operations of RetryHistory preserve: the type of the history,  *)
(* its expiry order and its limits, and that an entry follows the record   *)
(* of its hash; and what those of the queue keep of its bounds.            *)
(***************************************************************************)
EXTENDS RetryHistory, PendingHashQueueProofs, FiniteSetTheorems

(* The retry history.                                                      *)

HistorySound(H) == HistoryType(H) /\ HistoryIndexed(H)

(* The empty history is sound.                                             *)
LEMMA EmptyHistorySound == HistorySound(EmptyHistory) /\ Remembered(EmptyHistory) = {}
BY DEF HistorySound, HistoryType, HistoryIndexed, EmptyHistory, Remembered

(* expire drops the records whose deadline has passed, with their keys.    *)
LEMMA HistoryExpireSound ==
    ASSUME NEW H, HistorySound(H), NEW t \in Nat
    PROVE  LET R == HistoryExpire(H, t)
           IN  /\ HistorySound(R)
               /\ Remembered(R) \subseteq Remembered(H)
               /\ \A h \in Remembered(R) : R.entries[h] = H.entries[h]
               /\ \A h \in Remembered(H) \ Remembered(R) : H.entries[h].expires_at <= t
<1>. DEFINE R == HistoryExpire(H, t)
            gone == {k \in H.expiry : k[1] <= t}
            D == {k[2] : k \in gone}
<1>1. /\ DOMAIN R = {"entries", "expiry"}
      /\ R.entries = [h \in Remembered(H) \cap (Remembered(H) \ D) |-> H.entries[h]]
      /\ R.expiry = H.expiry \ gone
  BY DEF HistoryExpire, Restrict, Remembered
<1>2. /\ Remembered(R) = Remembered(H) \ D
      /\ \A h \in Remembered(R) : R.entries[h] = H.entries[h]
  BY <1>1 DEF Remembered
<1>. HIDE DEF R
<1>3. HistoryType(R)
  BY <1>1, <1>2 DEF HistorySound, HistoryType
<1>4. \A h \in Remembered(H) : h \in D <=> H.entries[h].expires_at <= t
  <2>1. H.expiry = {<<H.entries[h].expires_at, h>> : h \in Remembered(H)}
    BY DEF HistorySound, HistoryIndexed
  <2>2. \A k \in gone : /\ k[2] \in Remembered(H)
                        /\ H.entries[k[2]].expires_at <= t
    BY <2>1
  <2>3. \A h \in Remembered(H) :
            H.entries[h].expires_at <= t => <<H.entries[h].expires_at, h>> \in gone
    BY <2>1
  <2>. HIDE DEF gone
  <2>4. \A h \in Remembered(H) : H.entries[h].expires_at <= t => h \in D
    <3>. TAKE h \in Remembered(H)
    <3>. HAVE H.entries[h].expires_at <= t
    <3>. DEFINE k == <<H.entries[h].expires_at, h>>
    <3>1. k \in gone /\ k[2] = h
      BY <2>3
    <3>. QED
      BY <3>1
  <2>. QED
    BY <2>2, <2>4
<1>5. HistoryIndexed(R)
  <2>1. H.expiry = {<<H.entries[h].expires_at, h>> : h \in Remembered(H)}
    BY DEF HistorySound, HistoryIndexed
  <2>. HIDE DEF D
  <2>. QED
    BY <1>1, <1>2, <1>4, <2>1 DEF HistoryIndexed
<1>6. \A h \in Remembered(H) \ Remembered(R) : H.entries[h].expires_at <= t
  BY <1>2, <1>4
<1>. QED
  BY <1>2, <1>3, <1>5, <1>6 DEF HistorySound, R

(* remove drops one record and its key.                                    *)
LEMMA HistoryRemoveSound ==
    ASSUME NEW H, HistorySound(H), NEW hash
    PROVE  LET R == HistoryRemove(H, hash)
           IN  /\ HistorySound(R)
               /\ Remembered(R) = Remembered(H) \ {hash}
               /\ \A h \in Remembered(R) : R.entries[h] = H.entries[h]
<1>. DEFINE R == HistoryRemove(H, hash)
<1>1. CASE hash \notin Remembered(H)
  BY <1>1 DEF HistoryRemove
<1>2. CASE hash \in Remembered(H)
  <2>1. /\ DOMAIN R = {"entries", "expiry"}
        /\ R.entries = [h \in Remembered(H) \cap (Remembered(H) \ {hash}) |-> H.entries[h]]
        /\ R.expiry = H.expiry \ {<<H.entries[hash].expires_at, hash>>}
    BY <1>2 DEF HistoryRemove, Restrict, Remembered
  <2>2. /\ Remembered(R) = Remembered(H) \ {hash}
        /\ \A h \in Remembered(R) : R.entries[h] = H.entries[h]
    BY <2>1 DEF Remembered
  <2>. HIDE DEF R
  <2>3. HistoryType(R)
    BY <2>1, <2>2 DEF HistorySound, HistoryType
  <2>4. HistoryIndexed(R)
    BY <1>2, <2>1, <2>2 DEF HistorySound, HistoryIndexed
  <2>. QED
    BY <2>2, <2>3, <2>4 DEF HistorySound, R
<1>. QED
  BY <1>1, <1>2

(* Replacing the record of a remembered hash by one with the same deadline *)
(* keeps the history sound.                                                *)
LEMMA ReplaceSound ==
    ASSUME NEW H, HistorySound(H), NEW hash \in Remembered(H), NEW s \in RetryState,
           s.expires_at = H.entries[hash].expires_at
    PROVE  LET R == [H EXCEPT !.entries[hash] = s]
           IN  /\ HistorySound(R) /\ Remembered(R) = Remembered(H) /\ R.entries[hash] = s
               /\ \A h \in Remembered(H) \ {hash} : R.entries[h] = H.entries[h]
<1>. DEFINE R == [H EXCEPT !.entries[hash] = s]
<1>1. /\ DOMAIN R = {"entries", "expiry"}
      /\ R.entries = [H.entries EXCEPT ![hash] = s]
      /\ R.expiry = H.expiry
  BY DEF HistorySound, HistoryType
<1>. HIDE DEF R
<1>2. /\ Remembered(R) = Remembered(H)
      /\ R.entries[hash] = s
      /\ \A h \in Remembered(H) : h # hash => R.entries[h] = H.entries[h]
  BY <1>1 DEF Remembered
<1>3. HistoryType(R)
  BY <1>1, <1>2 DEF HistorySound, HistoryType
<1>4. HistoryIndexed(R)
  <2>1. \A h \in Remembered(H) : R.entries[h].expires_at = H.entries[h].expires_at
    BY <1>2
  <2>. QED
    BY <1>1, <1>2, <2>1 DEF HistorySound, HistoryIndexed
<1>. QED
  BY <1>2, <1>3, <1>4 DEF HistorySound, R

(* Observing endpoints keeps a record's type and its deadline.             *)
LEMMA ObserveTyped ==
    ASSUME NEW s \in RetryState, NEW ps \in SUBSET Peers, NEW ns \in SUBSET Nodes
    PROVE  LET o == Observe(s, ps, ns)
           IN  /\ o \in RetryState
               /\ o.expires_at = s.expires_at
               /\ o.next_due = s.next_due
               /\ o.failures = s.failures
               /\ o.extra_attempts = s.extra_attempts
<1>1. /\ Fill(s.peers, ps, MaxCandidates) \in SUBSET Peers
      /\ Fill(s.sources, ns, MaxSourceNodes) \in SUBSET Nodes
  <2>1. ASSUME NEW A, NEW B, NEW c, NEW U, A \subseteq U, B \subseteq U
        PROVE  Fill(A, B, c) \subseteq U
    BY <2>1 DEF Fill
  <2>2. s.peers \subseteq Peers /\ s.sources \subseteq Nodes
    BY DEF RetryState
  <2>. QED
    BY <2>1, <2>2
<1>. QED
  BY <1>1, Zenon DEF Observe, RetryState

(* What a record's budget depends on.                                      *)
SameBudget(r, s) ==
    /\ r.expires_at = s.expires_at
    /\ r.failures = s.failures
    /\ r.extra_attempts = s.extra_attempts

(* A record that exists keeps its deadline and counts the failure.         *)
RecordOutcome(R, H, hash, t, failed) ==
    LET old == IF hash \in Remembered(H) THEN H.entries[hash] ELSE NewState(t)
    IN  /\ R.entries[hash].expires_at = old.expires_at
        /\ R.entries[hash].extra_attempts = old.extra_attempts
        /\ R.entries[hash].failures = IF failed THEN old.failures + 1 ELSE old.failures

(* record makes or updates the record of a hash.                           *)
LEMMA RecordSound ==
    ASSUME NEW H, HistorySound(H), NEW hash \in Hashes, NEW t \in Nat,
           NEW failed \in BOOLEAN, NEW delay \in Nat
    PROVE  LET R == HistoryRecord(H, hash, t, failed, delay)
           IN  /\ HistorySound(R)
               /\ Remembered(R) = Remembered(H) \cup {hash}
               /\ \A h \in Remembered(H) \ {hash} : R.entries[h] = H.entries[h]
               /\ RecordOutcome(R, H, hash, t, failed)
<1>. DEFINE R == HistoryRecord(H, hash, t, failed, delay)
            old == IF hash \in Remembered(H) THEN H.entries[hash] ELSE NewState(t)
            failures == IF failed THEN old.failures + 1 ELSE old.failures
            backoff == IF failed THEN FailureBackoff(failures) ELSE delay
            due == RetryDeadline(t, Larger(backoff, MinRetryDelay))
            state == [old EXCEPT !.failures = failures, !.next_due = due]
<1>1. old \in RetryState
  <2>1. NewState(t) \in RetryState
    BY HistoryAssumption DEF NewState, RetryState, RetryDeadline, Smaller
  <2>. QED
    BY <2>1 DEF HistorySound, HistoryType
<1>2. /\ R.entries = With(H.entries, hash, state)
      /\ R.expiry = H.expiry \cup {<<state.expires_at, hash>>}
      /\ DOMAIN R = {"entries", "expiry"}
  BY DEF HistoryRecord
<1>. HIDE DEF R
<1>3. hash \in Remembered(H) => old = H.entries[hash]
  OBVIOUS
<1>. HIDE DEF old
<1>4. failures \in Nat
  BY <1>1 DEF RetryState
<1>. HIDE DEF failures
<1>5. due \in Nat
  <2>1. backoff \in Int
    <3>1. FailureBackoff(failures) \in Int
      <4>1. Smaller(Larger(failures - 1, 0), 31) \in Nat
        BY <1>4 DEF Smaller, Larger
      <4>2. ASSUME NEW k \in Nat PROVE 2^k \in Int
        OBVIOUS
      <4>3. 2^Smaller(Larger(failures - 1, 0), 31) \in Int
        BY <4>1, <4>2
      <4>4. ASSUME NEW w \in Int PROVE Smaller(RetryInitialDelay * w, RetryMaxDelay) \in Int
        BY HistoryAssumption DEF Smaller
      <4>. QED
        BY <4>3, <4>4 DEF FailureBackoff
    <3>. QED
      BY <3>1
  <2>. HIDE DEF backoff
  <2>2. Larger(backoff, MinRetryDelay) \in Nat
    BY <2>1, HistoryAssumption DEF Larger
  <2>. QED
    BY <2>2, HistoryAssumption DEF RetryDeadline, Smaller
<1>. HIDE DEF due
<1>6. /\ state \in RetryState /\ state.expires_at = old.expires_at
      /\ state.extra_attempts = old.extra_attempts /\ state.failures = failures
  BY <1>1, <1>4, <1>5, Zenon DEF RetryState
<1>. HIDE DEF state
<1>7. /\ Remembered(R) = Remembered(H) \cup {hash}
      /\ R.entries[hash] = state
      /\ \A h \in Remembered(H) \ {hash} : R.entries[h] = H.entries[h]
  BY <1>2 DEF Remembered, With
<1>8. HistoryType(R)
  <2>1. <<state.expires_at, hash>> \in Nat \X Hashes
    BY <1>6 DEF RetryState
  <2>. QED
    BY <1>2, <1>6, <1>7, <2>1 DEF HistorySound, HistoryType
<1>9. HistoryIndexed(R)
  BY <1>2, <1>3, <1>6, <1>7 DEF HistorySound, HistoryIndexed
<1>10. /\ R.entries[hash].expires_at = old.expires_at
       /\ R.entries[hash].extra_attempts = old.extra_attempts
       /\ R.entries[hash].failures = failures
  BY <1>6, <1>7
<1>. QED
  BY <1>7, <1>8, <1>9, <1>10 DEF HistorySound, RecordOutcome, R, old, failures

(* remember observes the endpoints of an entry.                            *)
LEMMA RememberSound ==
    ASSUME NEW H, HistorySound(H), NEW e, EntryType(e)
    PROVE  LET R == HistoryRemember(H, e)
           IN  /\ HistorySound(R)
               /\ Remembered(R) = Remembered(H)
               /\ \A h \in Remembered(H) : SameBudget(R.entries[h], H.entries[h])
<1>. DEFINE ps == DOMAIN e.peers
            ns == {e.source_nodes[i] : i \in DOMAIN e.source_nodes}
            s == H.entries[e.hash]
            o == Observe(s, ps, ns)
            R == HistoryRemember(H, e)
<1>1. CASE e.hash \notin Remembered(H)
  BY <1>1 DEF HistoryRemember, SameBudget
<1>2. CASE e.hash \in Remembered(H)
  <2>1. s \in RetryState
    BY <1>2 DEF HistorySound, HistoryType
  <2>2. ps \in SUBSET Peers /\ ns \in SUBSET Nodes
    BY DEF EntryType
  <2>3. R = [H EXCEPT !.entries[e.hash] = o]
    BY <1>2 DEF HistoryRemember, HistorySound, HistoryType
  <2>. HIDE DEF ps, ns
  <2>4. /\ o \in RetryState /\ o.expires_at = s.expires_at
        /\ o.failures = s.failures /\ o.extra_attempts = s.extra_attempts
    BY <2>1, <2>2, ObserveTyped, Zenon
  <2>. HIDE DEF o, R
  <2>5. /\ HistorySound(R) /\ Remembered(R) = Remembered(H) /\ R.entries[e.hash] = o
        /\ \A h \in Remembered(H) \ {e.hash} : R.entries[h] = H.entries[h]
    BY <1>2, <2>3, <2>4, ReplaceSound
  <2>6. \A h \in Remembered(H) : SameBudget(R.entries[h], H.entries[h])
    BY <2>4, <2>5 DEF SameBudget
  <2>. QED
    BY <2>5, <2>6 DEF R
<1>. QED
  BY <1>1, <1>2

(* observe_event keeps every record's deadline and failures; at most the   *)
(* limit of an exhausted one grows.                                        *)
LEMMA HistoryObserveSound ==
    ASSUME NEW H, HistorySound(H), NEW event \in Event, NEW t \in Nat
    PROVE  LET R == HistoryObserve(H, event, t)
           IN  /\ HistorySound(R)
               /\ Remembered(R) = Remembered(H)
               /\ \A h \in Remembered(H) :
                    \/ SameBudget(R.entries[h], H.entries[h])
                    \/ /\ Exhausted(H.entries[h])
                       /\ H.entries[h].extra_attempts < MaxExtraAttempts
                       /\ R.entries[h].expires_at = H.entries[h].expires_at
                       /\ R.entries[h].failures = H.entries[h].failures
                       /\ R.entries[h].extra_attempts = H.entries[h].extra_attempts + 1
<1>. DEFINE s == H.entries[event.hash]
            o == Observe(s, Some(event.peer), Some(event.source))
            due == RetryDeadline(t, Larger(RetryInitialDelay, MinRetryDelay))
            extra == o.extra_attempts + 1
            g == [o EXCEPT !.extra_attempts = extra, !.next_due = due]
            n == IF GrantsExtra(s, event) THEN g ELSE o
            R == HistoryObserve(H, event, t)
<1>1. CASE event.hash \notin Remembered(H)
  BY <1>1 DEF HistoryObserve, SameBudget
<1>2. CASE event.hash \in Remembered(H)
  <2>1. s \in RetryState
    BY <1>2 DEF HistorySound, HistoryType
  <2>2. Some(event.peer) \in SUBSET Peers /\ Some(event.source) \in SUBSET Nodes
    BY DEF Event, Some
  <2>3. R = [H EXCEPT !.entries[event.hash] = n]
    BY <1>2 DEF HistoryObserve
  <2>4. /\ o \in RetryState /\ o.expires_at = s.expires_at
        /\ o.failures = s.failures /\ o.extra_attempts = s.extra_attempts
    BY <2>1, <2>2, ObserveTyped, Zenon
  <2>5. due \in Nat
    BY HistoryAssumption DEF RetryDeadline, Larger, Smaller
  <2>. HIDE DEF o, due, R
  <2>6. /\ n \in RetryState /\ n.expires_at = s.expires_at /\ n.failures = s.failures
        /\ n.extra_attempts = IF GrantsExtra(s, event) THEN s.extra_attempts + 1
                              ELSE s.extra_attempts
    <3>0. extra \in Nat /\ extra = s.extra_attempts + 1
      BY <2>4 DEF RetryState
    <3>. HIDE DEF extra
    <3>1. /\ g \in RetryState /\ g.expires_at = o.expires_at /\ g.failures = o.failures
          /\ g.extra_attempts = extra
      BY <2>4, <2>5, <3>0, Zenon DEF RetryState
    <3>. HIDE DEF g
    <3>. QED
      BY <2>4, <3>0, <3>1
  <2>7. GrantsExtra(s, event) => Exhausted(s) /\ s.extra_attempts < MaxExtraAttempts
    BY DEF GrantsExtra
  <2>. HIDE DEF n
  <2>8. /\ HistorySound(R) /\ Remembered(R) = Remembered(H) /\ R.entries[event.hash] = n
        /\ \A h \in Remembered(H) \ {event.hash} : R.entries[h] = H.entries[h]
    BY <1>2, <2>3, <2>6, ReplaceSound
  <2>9. \A h \in Remembered(H) \ {event.hash} : SameBudget(R.entries[h], H.entries[h])
    BY <2>8 DEF SameBudget
  <2>10. \/ SameBudget(n, s)
         \/ /\ Exhausted(s)
            /\ s.extra_attempts < MaxExtraAttempts
            /\ n.expires_at = s.expires_at
            /\ n.failures = s.failures
            /\ n.extra_attempts = s.extra_attempts + 1
    BY <2>6, <2>7 DEF SameBudget
  <2>. QED
    BY <2>8, <2>9, <2>10 DEF R, s
<1>. QED
  BY <1>1, <1>2

-------------------------------------------------------------------------------
(* Entries and records.                                                    *)

(* An entry that is a retry has outlived its record or carries the         *)
(* deadline of one that may still be tried; a fresh one has no record.     *)
Follows(e, H, t) ==
    IF e.is_retry
    THEN \/ e.expires_at <= t
         \/ /\ e.hash \in Remembered(H)
            /\ H.entries[e.hash].expires_at = e.expires_at
            /\ ~Exhausted(H.entries[e.hash])
    ELSE e.hash \notin Remembered(H)

(* Records keep to their budgets.                                          *)
WithinLimits(H) ==
    \A h \in Remembered(H) :
        /\ H.entries[h].extra_attempts <= MaxExtraAttempts
        /\ H.entries[h].failures <= AttemptLimit(H.entries[h])

(* Only what Like compares matters.                                        *)
LEMMA FollowsLike ==
    ASSUME NEW e, NEW f, Like(e, f), NEW H, NEW t, Follows(f, H, t)
    PROVE  Follows(e, H, t)
BY Zenon DEF Like, Follows

(* Expiry takes a record away from entries that have outlived it only.     *)
LEMMA FollowsExpire ==
    ASSUME NEW H, HistorySound(H), NEW t \in Nat, NEW e, Follows(e, H, t)
    PROVE  Follows(e, HistoryExpire(H, t), t)
<1>. DEFINE R == HistoryExpire(H, t)
<1>1. /\ Remembered(R) \subseteq Remembered(H)
      /\ \A h \in Remembered(R) : R.entries[h] = H.entries[h]
      /\ \A h \in Remembered(H) \ Remembered(R) : H.entries[h].expires_at <= t
  BY HistoryExpireSound, Zenon
<1>. HIDE DEF R
<1>2. CASE e.hash \in Remembered(R)
  BY <1>1, <1>2, Zenon DEF Follows, R
<1>3. CASE e.hash \in Remembered(H) \ Remembered(R)
  <2>1. e.is_retry /\ e.expires_at <= t
    BY <1>1, <1>3 DEF Follows
  <2>. QED
    BY <2>1 DEF Follows
<1>4. CASE e.hash \notin Remembered(H)
  BY <1>1, <1>4 DEF Follows, R
<1>. QED
  BY <1>2, <1>3, <1>4

(* Observing an announcement takes nothing from a record that may still be *)
(* tried.                                                                  *)
LEMMA FollowsObserve ==
    ASSUME NEW H, HistorySound(H), NEW event \in Event, NEW t \in Nat, NEW e, Follows(e, H, t)
    PROVE  Follows(e, HistoryObserve(H, event, t), t)
<1>. DEFINE R == HistoryObserve(H, event, t)
<1>1. /\ Remembered(R) = Remembered(H)
      /\ \A h \in Remembered(H) :
            \/ SameBudget(R.entries[h], H.entries[h])
            \/ /\ Exhausted(H.entries[h])
               /\ R.entries[h].expires_at = H.entries[h].expires_at
  BY HistoryObserveSound, Zenon
<1>. HIDE DEF R
<1>2. \A h \in Remembered(H) : ~Exhausted(H.entries[h]) =>
            /\ R.entries[h].expires_at = H.entries[h].expires_at
            /\ ~Exhausted(R.entries[h])
  BY <1>1, Zenon DEF SameBudget, Exhausted, AttemptLimit
<1>. QED
  BY <1>1, <1>2 DEF Follows, R

(* Recording a failure or a deferral of one hash concerns no other.        *)
LEMMA FollowsOther ==
    ASSUME NEW H, NEW R, NEW hash, NEW t, NEW e, Follows(e, H, t), e.hash # hash,
           Remembered(R) \ {hash} = Remembered(H) \ {hash},
           \A h \in Remembered(H) \ {hash} : SameBudget(R.entries[h], H.entries[h])
    PROVE  Follows(e, R, t)
<1>1. e.hash \in Remembered(R) <=> e.hash \in Remembered(H)
  OBVIOUS
<1>2. e.hash \in Remembered(H) =>
            /\ R.entries[e.hash].expires_at = H.entries[e.hash].expires_at
            /\ Exhausted(R.entries[e.hash]) = Exhausted(H.entries[e.hash])
  BY Zenon DEF SameBudget, Exhausted, AttemptLimit
<1>. QED
  BY <1>1, <1>2 DEF Follows

(* The history after an announcement: the same records, less those whose   *)
(* deadline has passed, within their limits.                               *)
LEMMA LimitsObserved ==
    ASSUME NEW H, HistorySound(H), WithinLimits(H), NEW event \in Event, NEW t \in Nat
    PROVE  LET R == HistoryObserve(HistoryExpire(H, t), event, t)
           IN  /\ HistorySound(R)
               /\ WithinLimits(R)
               /\ Remembered(R) \subseteq Remembered(H)
               /\ \A h \in Remembered(R) : R.entries[h].expires_at = H.entries[h].expires_at
<1>. DEFINE L == HistoryExpire(H, t)
            R == HistoryObserve(L, event, t)
<1>1. /\ HistorySound(L)
      /\ Remembered(L) \subseteq Remembered(H)
      /\ \A h \in Remembered(L) : L.entries[h] = H.entries[h]
  BY HistoryExpireSound, Zenon
<1>. HIDE DEF L
<1>2. /\ HistorySound(R)
      /\ Remembered(R) = Remembered(L)
      /\ \A h \in Remembered(L) :
            \/ SameBudget(R.entries[h], L.entries[h])
            \/ /\ Exhausted(L.entries[h])
               /\ L.entries[h].extra_attempts < MaxExtraAttempts
               /\ R.entries[h].expires_at = L.entries[h].expires_at
               /\ R.entries[h].failures = L.entries[h].failures
               /\ R.entries[h].extra_attempts = L.entries[h].extra_attempts + 1
  BY <1>1, HistoryObserveSound, Zenon
<1>. HIDE DEF R
<1>3. ASSUME NEW h \in Remembered(R)
      PROVE  /\ R.entries[h].extra_attempts <= MaxExtraAttempts
             /\ R.entries[h].failures <= AttemptLimit(R.entries[h])
  <2>. DEFINE r == L.entries[h]
              x == r.extra_attempts
              f == r.failures
              y == R.entries[h].extra_attempts
              g == R.entries[h].failures
  <2>0. h \in Remembered(L) /\ h \in Remembered(H) /\ r = H.entries[h]
    BY <1>1, <1>2
  <2>1. x \in Nat /\ f \in Nat
    BY <1>1, <2>0 DEF HistorySound, HistoryType, RetryState
  <2>2. x <= MaxExtraAttempts /\ f <= RetryMaxAttempts + x
    BY <2>0 DEF WithinLimits, AttemptLimit
  <2>3. \/ y = x /\ g = f
        \/ x < MaxExtraAttempts /\ y = x + 1 /\ g = f
    BY <1>2, <2>0, Zenon DEF SameBudget
  <2>. HIDE DEF x, f, y, g
  <2>4. y <= MaxExtraAttempts /\ g <= RetryMaxAttempts + y
    BY <2>1, <2>2, <2>3, HistoryAssumption
  <2>. QED
    BY <2>4 DEF AttemptLimit, y, g
<1>4. \A h \in Remembered(R) : R.entries[h].expires_at = H.entries[h].expires_at
  BY <1>1, <1>2, Zenon DEF SameBudget
<1>. QED
  BY <1>1, <1>2, <1>3, <1>4 DEF WithinLimits, R, L

-------------------------------------------------------------------------------
(* The bounds of the queue and of the history.                             *)

(* The candidates of one hash.  Peers need not be a finite set, so that    *)
(* the endpoints of an entry are finitely many is part of the claim.       *)
Small(e) ==
    /\ IsFiniteSet(DOMAIN e.peers)
    /\ Cardinality(DOMAIN e.peers) <= MaxCandidates
    /\ Len(e.source_nodes) <= MaxSourceNodes

(* The queue and its retries, by number.                                   *)
Within(Q) ==
    /\ Cardinality(Queued(Q)) <= Capacity
    /\ Cardinality(Retries(Q)) <= RetryShare

KeptEntry(e, H, t) == Small(e) /\ Follows(e, H, t)

KeptQueue(Q, H, t) ==
    /\ Within(Q)
    /\ \A h \in Queued(Q) : KeptEntry(Q.entries[h], H, t)

KeptHistory(H) ==
    /\ WithinLimits(H)
    /\ Cardinality(Remembered(H)) <= RetryHistoryCapacity

-------------------------------------------------------------------------------
(* Counting hashes.                                                        *)

(* Sets of hashes are finite and ordered by their sizes.                   *)
LEMMA HashSets ==
    ASSUME NEW S \in SUBSET Hashes, NEW T \in SUBSET S
    PROVE  /\ IsFiniteSet(S) /\ Cardinality(S) \in Nat
           /\ IsFiniteSet(T) /\ Cardinality(T) \in Nat
           /\ Cardinality(T) <= Cardinality(S)
<1>1. IsFiniteSet(S)
  BY QueueAssumption, FS_Subset
<1>2. IsFiniteSet(T) /\ Cardinality(T) <= Cardinality(S)
  BY <1>1, FS_Subset
<1>. QED
  BY <1>1, <1>2, FS_CardinalityType

(* One more hash is at most one more.                                      *)
LEMMA OneMore ==
    ASSUME NEW S \in SUBSET Hashes, NEW T \in SUBSET Hashes, NEW h, T \subseteq S \cup {h}
    PROVE  Cardinality(T) <= Cardinality(S) + 1
<1>1. IsFiniteSet(S) /\ Cardinality(S) \in Nat /\ Cardinality(T) \in Nat
  BY HashSets
<1>2. /\ IsFiniteSet(S \cup {h})
      /\ Cardinality(S \cup {h}) = IF h \in S THEN Cardinality(S) ELSE Cardinality(S) + 1
  BY <1>1, FS_AddElement, Zenon
<1>3. Cardinality(T) <= Cardinality(S \cup {h})
  BY <1>2, FS_Subset
<1>. QED
  BY <1>1, <1>2, <1>3

(* A hash in the place of another: no more than there were.                *)
LEMMA SameNumber ==
    ASSUME NEW S \in SUBSET Hashes, NEW v \in S, NEW h \in Hashes, h \notin S
    PROVE  Cardinality((S \ {v}) \cup {h}) = Cardinality(S)
<1>1. IsFiniteSet(S) /\ Cardinality(S) \in Nat
  BY HashSets
<1>2. IsFiniteSet(S \ {v}) /\ Cardinality(S \ {v}) = Cardinality(S) - 1
  BY <1>1, FS_RemoveElement
<1>3. Cardinality((S \ {v}) \cup {h}) = Cardinality(S \ {v}) + 1
  BY <1>2, FS_AddElement
<1>. QED
  BY <1>1, <1>2, <1>3

(* The retry keys of a sound queue count its retries.                      *)
LEMMA RetryKeysCount ==
    ASSUME NEW Q, NEW n, Sound(Q, n)
    PROVE  /\ Queued(Q) \subseteq Hashes
           /\ Retries(Q) \subseteq Queued(Q)
           /\ Cardinality(Q.retry_expiry) = Cardinality(Retries(Q))
<1>. DEFINE T == Retries(Q)
            E == Q.retry_expiry
            f == [h \in T |-> <<Q.entries[h].expires_at, SequenceOf(Q, h), h>>]
<1>1. Queued(Q) \subseteq Hashes /\ T \subseteq Queued(Q)
  BY DEF Sound, QueueType, Retries
<1>2. E = {<<Q.entries[h].expires_at, SequenceOf(Q, h), h>> : h \in T}
  BY DEF Sound, Indexed, ExpiryKeys
<1>. HIDE DEF T, E
<1>3. IsFiniteSet(T)
  BY <1>1, HashSets
<1>4. f \in [T -> E] /\ \A g, h \in T : f[g] = f[h] => g = h
  BY <1>2
<1>5. \A k \in E : \E h \in T : f[h] = k
  BY <1>2
<1>. HIDE DEF f
<1>6. f \in Surjection(T, E)
  BY <1>4, <1>5, Zenon DEF Surjection
<1>7. f \in Injection(T, E)
  BY <1>4 DEF Injection, IsInjective
<1>. QED
  BY <1>1, <1>3, <1>6, <1>7, FS_Surjection DEF T, E

-------------------------------------------------------------------------------
(* The candidates of one hash.                                             *)

(* merge_candidate drops the oldest peer when one is too many.             *)
LEMMA MergePeerSmall ==
    ASSUME NEW peers, IsFiniteSet(DOMAIN peers), Cardinality(DOMAIN peers) <= MaxCandidates,
           \A x \in DOMAIN peers : peers[x] \in Nat, NEW p, NEW at \in Nat
    PROVE  LET m == MergePeer(peers, p, at)
           IN  IsFiniteSet(DOMAIN m) /\ Cardinality(DOMAIN m) <= MaxCandidates
<1>. DEFINE seen == IF p \in DOMAIN peers THEN Larger(peers[p], at) ELSE at
            merged == With(peers, p, seen)
            m == MergePeer(peers, p, at)
            D == DOMAIN merged
            old == OldestPeer(merged)
<1>0. MaxCandidates \in Nat
  BY QueueAssumption
<1>1. seen \in Nat
  BY DEF Larger
<1>. HIDE DEF seen
<1>2. D = DOMAIN peers \cup {p} /\ \A x \in D : merged[x] \in Nat
  BY <1>1 DEF With
<1>3. m = IF Cardinality(D) > MaxCandidates THEN Restrict(merged, D \ {old}) ELSE merged
  BY DEF MergePeer, seen
<1>. HIDE DEF merged, m
<1>4. Cardinality(DOMAIN peers) \in Nat
  BY FS_CardinalityType
<1>5. /\ IsFiniteSet(D)
      /\ Cardinality(D) = IF p \in DOMAIN peers THEN Cardinality(DOMAIN peers)
                          ELSE Cardinality(DOMAIN peers) + 1
  BY <1>2, FS_AddElement
<1>6. Cardinality(D) \in Nat /\ Cardinality(D) <= MaxCandidates + 1
  BY <1>0, <1>4, <1>5
<1>7. old \in D
  <2>. DEFINE T == {merged[x] : x \in D}
  <2>1. T \in SUBSET Nat /\ T # {}
    BY <1>2
  <2>2. PICK a \in T : \A k \in T : a <= k
    BY <2>1, LeastNatural
  <2>3. \E x \in D : \A o \in D : merged[x] <= merged[o]
    BY <2>2
  <2>. HIDE DEF T
  <2>. QED
    BY <2>3 DEF OldestPeer
<1>. HIDE DEF D, old
<1>8. CASE Cardinality(D) > MaxCandidates
  <2>1. DOMAIN m = D \ {old}
    BY <1>3, <1>8 DEF Restrict, D
  <2>2. IsFiniteSet(D \ {old}) /\ Cardinality(D \ {old}) = Cardinality(D) - 1
    BY <1>5, <1>7, FS_RemoveElement
  <2>. QED
    BY <1>0, <1>6, <2>1, <2>2 DEF m
<1>9. CASE ~(Cardinality(D) > MaxCandidates)
  <2>1. DOMAIN m = D
    BY <1>3, <1>9 DEF D
  <2>. QED
    BY <1>0, <1>5, <1>6, <1>9, <2>1 DEF m
<1>. QED
  BY <1>8, <1>9

(* The list of source nodes is cut at its limit.                           *)
LEMMA MergeSourceSmall ==
    ASSUME NEW s \in Seq(Nodes), NEW n \in Nodes
    PROVE  Len(MergeSource(s, n)) <= MaxSourceNodes
<1>. DEFINE old == {i \in 1..Len(s) : s[i] = n}
            i == CHOOSE i \in old : TRUE
            others == IF old = {} THEN s
                      ELSE SubSeq(s, 1, i - 1) \o SubSeq(s, i + 1, Len(s))
            merged == <<n>> \o others
            k == Smaller(Len(merged), MaxSourceNodes)
<1>1. old # {} => i \in 1..Len(s)
  OBVIOUS
<1>2. MergeSource(s, n) = SubSeq(merged, 1, k)
  BY Zenon DEF MergeSource
<1>. HIDE DEF i
<1>3. others \in Seq(Nodes)
  BY <1>1
<1>. HIDE DEF others
<1>4. merged \in Seq(Nodes)
  BY <1>3
<1>. HIDE DEF merged
<1>5. Len(merged) \in Nat
  BY <1>4
<1>6. k \in 0..Len(merged) /\ k <= MaxSourceNodes
  BY <1>5, QueueAssumption DEF Smaller
<1>. HIDE DEF k
<1>7. Len(SubSeq(merged, 1, k)) = k
  BY <1>4, <1>6
<1>. QED
  BY <1>2, <1>6, <1>7

(* Merging a candidate keeps an entry within its limits.                   *)
LEMMA MergeSmall ==
    ASSUME NEW e, EntryType(e), Small(e), NEW event \in Event
    PROVE  Small(MergeCandidate(e, event))
<1>. DEFINE m == MergeCandidate(e, event)
            ps == MergePeer(e.peers, event.peer, event.at)
            ns == MergeSource(e.source_nodes, event.source)
<1>1. /\ event.at \in Nat
      /\ event.source # None => event.source \in Nodes
  BY DEF Event
<1>2. /\ \A x \in DOMAIN e.peers : e.peers[x] \in Nat
      /\ e.source_nodes \in Seq(Nodes)
      /\ DOMAIN e = {"hash", "peers", "source_nodes", "ready_at", "latest_at", "order_key",
                     "expires_at", "is_retry", "ready"}
  BY DEF EntryType
<1>3. /\ m.peers = IF event.peer = None THEN e.peers ELSE ps
      /\ m.source_nodes = IF event.source = None THEN e.source_nodes ELSE ns
  BY <1>2 DEF MergeCandidate
<1>. HIDE DEF m
<1>4. IsFiniteSet(DOMAIN ps) /\ Cardinality(DOMAIN ps) <= MaxCandidates
  BY <1>1, <1>2, MergePeerSmall, Zenon DEF Small
<1>5. event.source # None => Len(ns) <= MaxSourceNodes
  BY <1>1, <1>2, MergeSourceSmall
<1>. HIDE DEF ps, ns
<1>6. Small(m)
  BY <1>3, <1>4, <1>5 DEF Small
<1>. QED
  BY <1>6 DEF m

(* A hash seen for the first time has at most the one candidate.           *)
LEMMA FreshSmall ==
    ASSUME NEW event \in Event, NEW n \in Nat
    PROVE  Small(Fresh(event, n)) /\ Fresh(event, n).hash = event.hash
                /\ Fresh(event, n).is_retry = FALSE
<1>. DEFINE new == NewEntry(event, n)
<1>1. EntryType(new) /\ new.hash = event.hash
  BY NewTyped, Zenon
<1>2. DOMAIN new.peers = {} /\ new.source_nodes = <<>> /\ new.is_retry = FALSE
  BY DEF NewEntry
<1>. HIDE DEF new
<1>3. IsFiniteSet({}) /\ Cardinality({}) = 0
  BY FS_EmptySet
<1>4. Len(<<>>) = 0 /\ 0 <= MaxCandidates /\ 0 <= MaxSourceNodes
  BY QueueAssumption
<1>5. Small(new)
  BY <1>2, <1>3, <1>4 DEF Small
<1>6. Small(MergeCandidate(new, event))
  BY <1>1, <1>5, MergeSmall
<1>7. MergeCandidate(new, event).hash = new.hash /\ MergeCandidate(new, event).is_retry = new.is_retry
  BY <1>1, MergeTyped, Zenon
<1>. QED
  BY <1>1, <1>2, <1>6, <1>7 DEF Fresh, new

(* Merging an announcement into a running entry.                           *)
LEMMA MergeKept ==
    ASSUME NEW e, EntryType(e), NEW event \in Event, NEW H, NEW t, KeptEntry(e, H, t)
    PROVE  KeptEntry(MergeCandidate(e, event), H, t)
<1>. DEFINE m == MergeCandidate(e, event)
<1>1. m.hash = e.hash /\ m.expires_at = e.expires_at /\ m.is_retry = e.is_retry
  BY MergeTyped, Zenon
<1>2. Small(m)
  BY MergeSmall, Zenon DEF KeptEntry
<1>. HIDE DEF m
<1>3. Follows(m, H, t)
  BY <1>1, Zenon DEF KeptEntry, Follows
<1>. QED
  BY <1>2, <1>3 DEF KeptEntry, m

-------------------------------------------------------------------------------
(* What the operations of the queue keep of its bounds.                    *)

(* Only what Like compares matters.                                        *)
LEMMA KeptLike ==
    ASSUME NEW e, NEW f, Like(e, f), NEW H, NEW t, KeptEntry(f, H, t)
    PROVE  KeptEntry(e, H, t)
<1>1. Follows(e, H, t)
  BY FollowsLike, Zenon DEF KeptEntry
<1>2. Small(e)
  BY Zenon DEF KeptEntry, Small, Like
<1>. QED
  BY <1>1, <1>2 DEF KeptEntry

(* A queue with fewer hashes and fewer retries is within its bounds.       *)
LEMMA WithinSub ==
    ASSUME NEW Q, NEW n, Sound(Q, n), Within(Q), NEW R, Queued(R) \subseteq Queued(Q),
           Retries(R) \subseteq Retries(Q)
    PROVE  Within(R)
<1>1. Queued(Q) \subseteq Hashes /\ Retries(Q) \subseteq Queued(Q)
  BY RetryKeysCount
<1>2. /\ Cardinality(Queued(R)) <= Cardinality(Queued(Q))
      /\ Cardinality(Queued(R)) \in Nat /\ Cardinality(Queued(Q)) \in Nat
  BY <1>1, HashSets
<1>3. /\ Cardinality(Retries(R)) <= Cardinality(Retries(Q))
      /\ Cardinality(Retries(R)) \in Nat /\ Cardinality(Retries(Q)) \in Nat
  BY <1>1, HashSets
<1>4. Capacity \in Nat /\ RetryShare \in Nat
  BY QueueAssumption DEF RetryShare, Larger
<1>. QED
  BY <1>2, <1>3, <1>4 DEF Within

(* What promotes, removes, expires or pops only keeps or loses entries.    *)
LEMMA KeptSub ==
    ASSUME NEW Q, NEW n, Sound(Q, n), NEW R, Queued(R) \subseteq Queued(Q),
           \A h \in Queued(R) : Like(R.entries[h], Q.entries[h]),
           NEW H, NEW t, KeptQueue(Q, H, t)
    PROVE  KeptQueue(R, H, t)
<1>1. Retries(R) \subseteq Retries(Q)
  BY DEF Retries, Like
<1>2. Within(R)
  BY <1>1, WithinSub, Zenon DEF KeptQueue
<1>3. \A h \in Queued(R) : KeptEntry(R.entries[h], H, t)
  BY KeptLike DEF KeptQueue
<1>. QED
  BY <1>2, <1>3 DEF KeptQueue

(* defer looks at both bounds.                                             *)
LEMMA DeferWithin ==
    ASSUME NEW Q, NEW n \in Nat, Sound(Q, n), Within(Q), NEW e, EntryType(e), e.latest_at <= n,
           NEW r, NEW R, Sound(R, n), DeferOutcome(R, Q, e, r),
           \A h \in Queued(R) \ {e.hash} : h \in Queued(Q) /\ R.entries[h] = Q.entries[h]
    PROVE  Within(R)
<1>. DEFINE P == QueueRemove(Q, e.hash)
<1>0. Capacity \in Nat /\ RetryShare \in Nat
  BY QueueAssumption DEF RetryShare, Larger
<1>1. /\ Sound(P, n) /\ Queued(P) = Queued(Q) \ {e.hash} /\ Retries(P) = Retries(Q) \ {e.hash}
  BY RemoveAllSound, Zenon DEF QueueRemove
<1>2. CanDefer(Q, e.hash) => /\ Cardinality(Queued(P)) < Capacity
                             /\ Cardinality(P.retry_expiry) < RetryShare
  BY DEF CanDefer
<1>. HIDE DEF P
<1>3. /\ Queued(P) \subseteq Hashes /\ Retries(P) \subseteq Queued(P)
      /\ Cardinality(P.retry_expiry) = Cardinality(Retries(P))
  BY <1>1, RetryKeysCount
<1>4. /\ Queued(Q) \subseteq Hashes /\ Retries(Q) \subseteq Queued(Q)
      /\ Queued(R) \subseteq Hashes /\ Retries(R) \subseteq Queued(R)
  BY RetryKeysCount
<1>5. Retries(R) \subseteq Retries(P) \cup {e.hash}
  BY <1>1 DEF Retries
<1>6. /\ Cardinality(Queued(P)) \in Nat /\ Cardinality(Retries(P)) \in Nat
      /\ Cardinality(Queued(Q)) \in Nat /\ Cardinality(Retries(Q)) \in Nat
      /\ Cardinality(Queued(R)) \in Nat /\ Cardinality(Retries(R)) \in Nat
  BY <1>3, <1>4, HashSets
<1>7. CASE CanDefer(Q, e.hash)
  <2>1. Queued(R) \subseteq Queued(P) \cup {e.hash}
    BY <1>1, <1>7 DEF DeferOutcome
  <2>2. Cardinality(Queued(R)) <= Cardinality(Queued(P)) + 1
    <3>1. Queued(P) \in SUBSET Hashes /\ Queued(R) \in SUBSET Hashes
      BY <1>3, <1>4
    <3>. QED
      BY <2>1, <3>1, OneMore, Zenon
  <2>3. Cardinality(Retries(R)) <= Cardinality(Retries(P)) + 1
    <3>1. Retries(P) \in SUBSET Hashes /\ Retries(R) \in SUBSET Hashes
      BY <1>3, <1>4
    <3>. QED
      BY <1>5, <3>1, OneMore, Zenon
  <2>. QED
    BY <1>0, <1>2, <1>3, <1>6, <1>7, <2>2, <2>3 DEF Within
<1>8. CASE ~CanDefer(Q, e.hash)
  <2>1. Queued(R) = Queued(Q) \ {e.hash}
    BY <1>8 DEF DeferOutcome
  <2>2. Retries(R) \subseteq Retries(Q)
    BY <1>1, <1>4, <1>5, <2>1
  <2>3. /\ Cardinality(Queued(R)) <= Cardinality(Queued(Q))
        /\ Cardinality(Retries(R)) <= Cardinality(Retries(Q))
    BY <1>4, <2>1, <2>2, HashSets
  <2>. QED
    BY <1>0, <1>6, <2>3 DEF Within
<1>. QED
  BY <1>7, <1>8

(* An entry that is brought up to date stays what it was; only a fresh one *)
(* gets another deadline.                                                  *)
LEMMA UpdatedKept ==
    ASSUME NEW Q, NEW event \in Event, NEW H, NEW t,
           EntryType(Q.entries[event.hash]), KeptEntry(Q.entries[event.hash], H, t)
    PROVE  /\ KeptEntry(UpdatedEntry(Q, event), H, t)
           /\ UpdatedEntry(Q, event).is_retry = Q.entries[event.hash].is_retry
<1>. DEFINE e == Q.entries[event.hash]
            m == MergeCandidate(e, event)
            deadline == IF m.is_retry THEN m.expires_at ELSE m.latest_at + Ttl
            u == UpdatedEntry(Q, event)
<1>1. /\ EntryType(m) /\ m.hash = e.hash /\ m.expires_at = e.expires_at
      /\ m.is_retry = e.is_retry
  BY MergeTyped, Zenon
<1>2. Small(m)
  BY MergeSmall, Zenon DEF KeptEntry
<1>3. u = [m EXCEPT !.expires_at = deadline]
  BY DEF UpdatedEntry
<1>. HIDE DEF m, u
<1>4. /\ u.hash = m.hash /\ u.peers = m.peers /\ u.source_nodes = m.source_nodes
      /\ u.is_retry = m.is_retry /\ (m.is_retry => u.expires_at = m.expires_at)
  <2>. HIDE DEF deadline
  <2>1. /\ u.hash = m.hash /\ u.peers = m.peers /\ u.source_nodes = m.source_nodes
        /\ u.is_retry = m.is_retry /\ u.expires_at = deadline
    BY <1>1, <1>3 DEF EntryType
  <2>. QED
    BY <2>1 DEF deadline
<1>5. Small(u)
  BY <1>2, <1>4 DEF Small
<1>6. Follows(u, H, t)
  <2>1. Follows(e, H, t)
    BY DEF KeptEntry
  <2>2. u.hash = e.hash /\ u.is_retry = e.is_retry /\ (e.is_retry => u.expires_at = e.expires_at)
    BY <1>1, <1>4
  <2>. HIDE DEF e
  <2>. QED
    BY <2>1, <2>2 DEF Follows
<1>. QED
  BY <1>1, <1>4, <1>5, <1>6 DEF KeptEntry, u

(* push keeps the queue within its bounds and never makes it shorter; the  *)
(* entry of its hash has its limits, and follows a history that has no     *)
(* record of the hash.                                                     *)
LEMMA PushKept ==
    ASSUME NEW Q, NEW n \in Nat, Sound(Q, n), NEW H, KeptQueue(Q, H, n),
           NEW event \in Event, event.at <= n
    PROVE  LET U == QueuePush(Q, event, n)
               h == event.hash
           IN  /\ Within(U)
               /\ Cardinality(Queued(U)) >= Cardinality(Queued(Q))
               /\ h \in Queued(U) => /\ Small(U.entries[h])
                                     /\ h \notin Remembered(H) => Follows(U.entries[h], H, n)
<1>. DEFINE U == QueuePush(Q, event, n)
            h == event.hash
            up == UpdatedEntry(Q, event)
            fresh == Fresh(event, n)
<1>. SUFFICES /\ Within(U)
              /\ Cardinality(Queued(U)) >= Cardinality(Queued(Q))
              /\ h \in Queued(U) => /\ Small(U.entries[h])
                                    /\ h \notin Remembered(H) => Follows(U.entries[h], H, n)
  OBVIOUS
<1>1. /\ Sound(U, n)
      /\ \A g \in Queued(U) \ {h} : g \in Queued(Q) /\ U.entries[g] = Q.entries[g]
      /\ PushOutcome(U, Q, event, n)
  BY PushSound, Zenon
<1>. HIDE DEF U
<1>2. /\ Queued(Q) \subseteq Hashes /\ Retries(Q) \subseteq Queued(Q)
      /\ Queued(U) \subseteq Hashes /\ Retries(U) \subseteq Queued(U)
  BY <1>1, RetryKeysCount
<1>3. /\ Cardinality(Queued(Q)) \in Nat /\ Cardinality(Queued(U)) \in Nat
      /\ Capacity \in Nat /\ h \in Hashes
  BY <1>2, HashSets, QueueAssumption DEF Event
<1>4. ASSUME Retries(U) \subseteq Retries(Q), Cardinality(Queued(U)) <= Capacity
      PROVE  Within(U)
  <2>1. Cardinality(Retries(U)) <= Cardinality(Retries(Q))
    BY <1>2, <1>4, HashSets
  <2>2. Cardinality(Retries(Q)) <= RetryShare
    BY DEF KeptQueue, Within
  <2>3. Cardinality(Retries(U)) \in Nat /\ Cardinality(Retries(Q)) \in Nat /\ RetryShare \in Nat
    BY <1>2, HashSets, QueueAssumption DEF RetryShare, Larger
  <2>. QED
    BY <1>4, <2>1, <2>2, <2>3 DEF Within
<1>5. \A g \in Queued(Q) : EntryType(Q.entries[g]) /\ Q.entries[g].hash = g
  BY DEF Sound, QueueType, Indexed, Sequenced
<1>6. CASE U = Q
  BY <1>3, <1>6 DEF KeptQueue, KeptEntry
<1>7. CASE h \in Queued(Q) /\ Queued(U) = Queued(Q) /\ Like(U.entries[h], up)
  <2>1. KeptEntry(up, H, n) /\ up.is_retry = Q.entries[h].is_retry
    <3>1. EntryType(Q.entries[h]) /\ KeptEntry(Q.entries[h], H, n)
      BY <1>5, <1>7 DEF KeptQueue
    <3>. QED
      BY <3>1, UpdatedKept, Zenon
  <2>2. KeptEntry(U.entries[h], H, n)
    BY <1>7, <2>1, KeptLike
  <2>3. Retries(U) \subseteq Retries(Q)
    BY <1>1, <1>7, <2>1 DEF Retries, Like
  <2>4. Within(U)
    BY <1>4, <1>7, <2>3 DEF KeptQueue, Within
  <2>. QED
    BY <1>3, <1>7, <2>2, <2>4 DEF KeptEntry
<1>8. CASE /\ h \notin Queued(Q) /\ Like(U.entries[h], fresh)
           /\ \/ Cardinality(Queued(Q)) < Capacity /\ Queued(U) = Queued(Q) \cup {h}
              \/ \E v \in Queued(Q) : Queued(U) = (Queued(Q) \ {v}) \cup {h}
  <2>1. Small(fresh) /\ fresh.hash = h /\ fresh.is_retry = FALSE
    BY FreshSmall, Zenon
  <2>. HIDE DEF fresh
  <2>2. Small(U.entries[h])
    BY <1>8, <2>1 DEF Small, Like
  <2>3. h \notin Remembered(H) => Follows(U.entries[h], H, n)
    BY <1>8, <2>1 DEF Follows, Like
  <2>4. Retries(U) \subseteq Retries(Q)
    BY <1>1, <1>8, <2>1 DEF Retries, Like
  <2>5. /\ Cardinality(Queued(U)) >= Cardinality(Queued(Q))
        /\ Cardinality(Queued(U)) <= Capacity
    <3>1. CASE Cardinality(Queued(Q)) < Capacity /\ Queued(U) = Queued(Q) \cup {h}
      <4>0. /\ Queued(Q) \in SUBSET Hashes /\ Queued(U) \in SUBSET Hashes
            /\ Queued(U) \subseteq Queued(Q) \cup {h} /\ Queued(Q) \subseteq Queued(U)
        BY <1>2, <3>1
      <4>1. Cardinality(Queued(U)) <= Cardinality(Queued(Q)) + 1
        BY <4>0, OneMore, Zenon
      <4>2. Cardinality(Queued(Q)) <= Cardinality(Queued(U))
        BY <4>0, HashSets
      <4>. QED
        BY <1>3, <3>1, <4>1, <4>2
    <3>2. ASSUME NEW v \in Queued(Q), Queued(U) = (Queued(Q) \ {v}) \cup {h}
          PROVE  /\ Cardinality(Queued(U)) >= Cardinality(Queued(Q))
                 /\ Cardinality(Queued(U)) <= Capacity
      <4>1. Cardinality(Queued(U)) = Cardinality(Queued(Q))
        BY <1>2, <1>3, <1>8, <3>2, SameNumber
      <4>2. Cardinality(Queued(Q)) <= Capacity
        BY DEF KeptQueue, Within
      <4>. QED
        BY <1>3, <4>1, <4>2
    <3>. QED
      BY <1>8, <3>1, <3>2, Zenon
  <2>6. Within(U)
    BY <1>4, <2>4, <2>5
  <2>. QED
    BY <2>2, <2>3, <2>5, <2>6
<1>. QED
  BY <1>1, <1>6, <1>7, <1>8, Zenon DEF PushOutcome

-------------------------------------------------------------------------------
(* A retry: its record and its place in the queue.                         *)

(* What follows from KeptEntry for a job that is to be retried: it has no  *)
(* record, or one that has not expired and may still be tried.             *)
LEMMA RetriedRecord ==
    ASSUME NEW n \in Nat, NEW H, HistorySound(H), NEW e, EntryType(e), KeptEntry(e, H, n),
           ~(e.is_retry /\ e.expires_at <= n)
    PROVE  LET live == HistoryExpire(H, n)
           IN  /\ e.hash \in Remembered(H) <=> e.hash \in Remembered(live)
               /\ e.hash \in Remembered(live) => ~Exhausted(live.entries[e.hash])
<1>. DEFINE live == HistoryExpire(H, n)
<1>1. /\ Remembered(live) \subseteq Remembered(H)
      /\ \A h \in Remembered(live) : live.entries[h] = H.entries[h]
      /\ \A h \in Remembered(H) \ Remembered(live) : H.entries[h].expires_at <= n
  BY HistoryExpireSound, Zenon
<1>. HIDE DEF live
<1>3. e.hash \in Remembered(H) =>
        e.is_retry /\ H.entries[e.hash].expires_at = e.expires_at
                   /\ ~Exhausted(H.entries[e.hash])
  BY DEF KeptEntry, Follows
<1>4. e.hash \in Remembered(H) <=> e.hash \in Remembered(live)
  BY <1>1, <1>3
<1>5. e.hash \in Remembered(live) => ~Exhausted(live.entries[e.hash])
  BY <1>1, <1>3
<1>. QED
  BY <1>4, <1>5 DEF live

(* What schedule_retry leaves of the history: the live records, with the   *)
(* one of the entry when there is room for it.                             *)
Recorded(H, e, n, failed, delay) ==
    LET live == HistoryExpire(H, n)
    IN  IF CanRecord(live, e.hash)
        THEN HistoryRemember(HistoryRecord(live, e.hash, n, failed, delay), e)
        ELSE live

RecordKept(R, H, e, n) ==
    /\ HistorySound(R)
    /\ KeptHistory(R)
    /\ \A f : KeptEntry(f, H, n) /\ f.hash # e.hash => KeptEntry(f, R, n)
    /\ \A h \in Remembered(H) \cap Remembered(R) :
            R.entries[h].expires_at = H.entries[h].expires_at

(* What schedule_retry records is within the budget, moves no deadline and *)
(* concerns no other hash.                                                 *)
LEMMA RecordedKept ==
    ASSUME NEW n \in Nat, NEW H, HistorySound(H), KeptHistory(H),
           NEW e, EntryType(e), KeptEntry(e, H, n),
           ~(e.is_retry /\ e.expires_at <= n), RetryMaxAttempts # 0,
           NEW failed \in BOOLEAN, NEW delay \in Nat
    PROVE  RecordKept(Recorded(H, e, n, failed, delay), H, e, n)
<1>. DEFINE live == HistoryExpire(H, n)
            hash == e.hash
            noted == HistoryRecord(live, hash, n, failed, delay)
            kept == HistoryRemember(noted, e)
            R == Recorded(H, e, n, failed, delay)
            old == IF hash \in Remembered(live) THEN live.entries[hash] ELSE NewState(n)
<1>0. hash \in Hashes /\ RetryHistoryCapacity \in Nat /\ RetryMaxAttempts \in Nat
      /\ MaxExtraAttempts \in Nat
  BY HistoryAssumption DEF EntryType
<1>1. /\ HistorySound(live)
      /\ Remembered(live) \subseteq Remembered(H)
      /\ \A h \in Remembered(live) : live.entries[h] = H.entries[h]
  BY HistoryExpireSound, Zenon
<1>2. /\ hash \in Remembered(H) <=> hash \in Remembered(live)
      /\ hash \in Remembered(live) => ~Exhausted(live.entries[hash])
  BY RetriedRecord, Zenon
<1>3. R = IF CanRecord(live, hash) THEN kept ELSE live
  BY DEF Recorded
<1>4. \A f : KeptEntry(f, H, n) => KeptEntry(f, live, n)
  BY FollowsExpire DEF KeptEntry
<1>. SUFFICES RecordKept(R, H, e, n)
  OBVIOUS
<1>. HIDE DEF live, R
<1>6. /\ HistorySound(noted)
      /\ Remembered(noted) = Remembered(live) \cup {hash}
      /\ \A h \in Remembered(live) \ {hash} : noted.entries[h] = live.entries[h]
      /\ RecordOutcome(noted, live, hash, n, failed)
  <2>1. HistorySound(live) /\ hash \in Hashes
    BY <1>0, <1>1
  <2>. HIDE DEF hash
  <2>. QED
    BY <2>1, RecordSound
<1>. HIDE DEF noted
<1>7. HistorySound(noted)
  BY <1>6
<1>8. /\ HistorySound(kept)
      /\ Remembered(kept) = Remembered(noted)
      /\ \A h \in Remembered(noted) : SameBudget(kept.entries[h], noted.entries[h])
  BY <1>7, RememberSound, Zenon
<1>. HIDE DEF kept
<1>9. /\ Remembered(live) \subseteq Hashes /\ Remembered(H) \subseteq Hashes
      /\ WithinLimits(live) /\ Cardinality(Remembered(live)) <= RetryHistoryCapacity
  <2>1. Remembered(live) \subseteq Hashes /\ Remembered(H) \subseteq Hashes
    BY <1>1 DEF HistorySound, HistoryType
  <2>2. /\ Cardinality(Remembered(live)) <= Cardinality(Remembered(H))
        /\ Cardinality(Remembered(live)) \in Nat /\ Cardinality(Remembered(H)) \in Nat
    BY <1>1, <2>1, HashSets
  <2>3. WithinLimits(live)
    BY <1>1 DEF WithinLimits, KeptHistory
  <2>4. Cardinality(Remembered(H)) <= RetryHistoryCapacity
    BY DEF KeptHistory
  <2>. QED
    BY <1>0, <2>1, <2>2, <2>3, <2>4
<1>10. CASE ~CanRecord(live, hash)
  <2>1. R = live
    BY <1>3, <1>10
  <2>. QED
    BY <1>1, <1>4, <1>9, <2>1 DEF KeptHistory, RecordKept
<1>11. CASE CanRecord(live, hash)
  <2>1. /\ R = kept
        /\ Remembered(kept) = Remembered(live) \cup {hash}
    BY <1>3, <1>6, <1>8, <1>11
  <2>2. \A h \in Remembered(live) \ {hash} : SameBudget(kept.entries[h], live.entries[h])
    BY <1>6, <1>8
  <2>3. /\ kept.entries[hash].expires_at = old.expires_at
        /\ kept.entries[hash].extra_attempts = old.extra_attempts
        /\ kept.entries[hash].failures = IF failed THEN old.failures + 1 ELSE old.failures
    BY <1>6, <1>8 DEF SameBudget, RecordOutcome
  <2>4. /\ kept.entries[hash].extra_attempts <= MaxExtraAttempts
        /\ kept.entries[hash].failures <= AttemptLimit(kept.entries[hash])
    <3>1. CASE hash \in Remembered(live)
      <4>1. /\ old.extra_attempts \in Nat /\ old.failures \in Nat
        BY <1>1, <3>1 DEF HistorySound, HistoryType, RetryState
      <4>2. /\ old.extra_attempts <= MaxExtraAttempts
            /\ ~(old.failures >= RetryMaxAttempts + old.extra_attempts)
        BY <1>2, <1>9, <3>1 DEF WithinLimits, Exhausted, AttemptLimit
      <4>. HIDE DEF old
      <4>. QED
        BY <1>0, <2>3, <4>1, <4>2 DEF AttemptLimit
    <3>2. CASE hash \notin Remembered(live)
      <4>1. old.extra_attempts = 0 /\ old.failures = 0
        BY <3>2 DEF NewState
      <4>. HIDE DEF old
      <4>. QED
        BY <1>0, <2>3, <4>1 DEF AttemptLimit
    <3>. QED
      BY <3>1, <3>2
  <2>. HIDE DEF old
  <2>5. WithinLimits(kept)
    <3>1. \A h \in Remembered(live) \ {hash} :
            /\ kept.entries[h].extra_attempts <= MaxExtraAttempts
            /\ kept.entries[h].failures <= AttemptLimit(kept.entries[h])
      BY <1>9, <2>2, Zenon DEF WithinLimits, SameBudget, AttemptLimit
    <3>. QED
      BY <2>1, <2>4, <3>1 DEF WithinLimits
  <2>6. Cardinality(Remembered(kept)) <= RetryHistoryCapacity
    <3>1. CASE hash \in Remembered(live)
      <4>1. Remembered(kept) = Remembered(live)
        BY <2>1, <3>1
      <4>. QED
        BY <1>9, <4>1
    <3>2. CASE hash \notin Remembered(live)
      <4>1. Cardinality(Remembered(live)) < RetryHistoryCapacity
        BY <1>11, <3>2 DEF CanRecord
      <4>2. Remembered(kept) \subseteq Hashes
        BY <1>0, <1>9, <2>1
      <4>3. Cardinality(Remembered(kept)) <= Cardinality(Remembered(live)) + 1
        <5>1. Remembered(kept) \subseteq Remembered(live) \cup {hash}
          BY <2>1
        <5>2. Remembered(kept) \in SUBSET Hashes /\ Remembered(live) \in SUBSET Hashes
          BY <1>9, <4>2
        <5>. QED
          BY <5>1, <5>2, OneMore, Zenon
      <4>4. Cardinality(Remembered(kept)) \in Nat /\ Cardinality(Remembered(live)) \in Nat
        BY <1>9, <4>2, HashSets
      <4>. QED
        BY <1>0, <4>1, <4>3, <4>4
    <3>. QED
      BY <3>1, <3>2
  <2>7. ASSUME NEW f, KeptEntry(f, H, n), f.hash # hash
        PROVE  KeptEntry(f, kept, n)
    <3>1. Follows(f, live, n) /\ Small(f)
      BY <1>4, <2>7 DEF KeptEntry
    <3>2. Remembered(kept) \ {hash} = Remembered(live) \ {hash}
      BY <2>1
    <3>3. Follows(f, kept, n)
      BY <2>2, <2>7, <3>1, <3>2, FollowsOther
    <3>. QED
      BY <3>1, <3>3 DEF KeptEntry
  <2>8. ASSUME NEW h \in Remembered(H) \cap Remembered(kept)
        PROVE  kept.entries[h].expires_at = H.entries[h].expires_at
    <3>1. CASE h = hash
      BY <1>1, <1>2, <2>3, <3>1 DEF old
    <3>2. CASE h # hash
      BY <1>1, <2>1, <2>2, <3>2 DEF SameBudget
    <3>. QED
      BY <3>1, <3>2
  <2>. QED
    BY <1>8, <2>1, <2>5, <2>6, <2>7, <2>8 DEF KeptHistory, RecordKept
<1>. QED
  BY <1>10, <1>11

(* A retry queued under the deadline of its record follows the history,    *)
(* and the queue stays within its bounds.                                  *)
LEMMA DeferKept ==
    ASSUME NEW n \in Nat, NEW Q, Sound(Q, n), NEW H, HistorySound(H), KeptQueue(Q, H, n),
           NEW e, EntryType(e), e.latest_at <= n, Small(e),
           e.hash \in Remembered(H), ~Exhausted(H.entries[e.hash])
    PROVE  LET R == QueueDefer(Q, e, H.entries[e.hash])
           IN  /\ Sound(R, n)
               /\ KeptQueue(R, H, n)
               /\ R.fresh_dispatches = Q.fresh_dispatches
<1>. DEFINE h == e.hash
            r == H.entries[h]
            D == QueueDefer(Q, e, r)
<1>3. r.next_due \in Nat /\ r.expires_at \in Nat
  BY DEF HistorySound, HistoryType, RetryState
<1>. HIDE DEF r
<1>4. /\ Sound(D, n)
      /\ \A g \in Queued(D) \ {e.hash} : g \in Queued(Q) /\ D.entries[g] = Q.entries[g]
      /\ D.fresh_dispatches = Q.fresh_dispatches
      /\ DeferOutcome(D, Q, e, r)
  BY <1>3, DeferSound, Zenon
<1>. HIDE DEF D
<1>5. Within(D)
  <2>1. Within(Q)
    BY DEF KeptQueue
  <2>. QED
    BY <1>4, <2>1, DeferWithin
<1>6. h \in Queued(D) => KeptEntry(D.entries[h], H, n)
  <2>. SUFFICES ASSUME h \in Queued(D) PROVE KeptEntry(D.entries[h], H, n)
    OBVIOUS
  <2>1. /\ D.entries[h].hash = h
        /\ D.entries[h].peers = e.peers
        /\ D.entries[h].source_nodes = e.source_nodes
        /\ D.entries[h].is_retry
        /\ D.entries[h].expires_at = r.expires_at
    BY <1>4 DEF DeferOutcome
  <2>2. Small(D.entries[h])
    BY <2>1 DEF Small
  <2>3. Follows(D.entries[h], H, n)
    BY <2>1 DEF Follows, r
  <2>. QED
    BY <2>2, <2>3 DEF KeptEntry
<1>7. \A g \in Queued(D) \ {h} : KeptEntry(D.entries[g], H, n)
  BY <1>4 DEF KeptQueue
<1>8. KeptQueue(D, H, n)
  BY <1>5, <1>6, <1>7 DEF KeptQueue
<1>. QED
  BY <1>4, <1>8 DEF D, r

(* An entry with fewer peers keeps its limits.                             *)
LEMMA FewerPeersKept ==
    ASSUME NEW e, EntryType(e), NEW H, NEW n, KeptEntry(e, H, n),
           NEW ps, DOMAIN ps \subseteq DOMAIN e.peers
    PROVE  KeptEntry([e EXCEPT !.peers = ps], H, n)
<1>. DEFINE d == [e EXCEPT !.peers = ps]
<1>1. /\ d.hash = e.hash /\ d.is_retry = e.is_retry /\ d.expires_at = e.expires_at
      /\ d.peers = ps /\ d.source_nodes = e.source_nodes
  BY DEF EntryType
<1>. HIDE DEF d
<1>2. Small(e) /\ Follows(e, H, n)
  BY DEF KeptEntry
<1>3. /\ IsFiniteSet(DOMAIN ps) /\ Cardinality(DOMAIN ps) <= Cardinality(DOMAIN e.peers)
      /\ Cardinality(DOMAIN ps) \in Nat /\ Cardinality(DOMAIN e.peers) \in Nat
  BY <1>2, FS_Subset, FS_CardinalityType DEF Small
<1>4. Small(d)
  BY <1>1, <1>2, <1>3, QueueAssumption DEF Small
<1>5. Follows(d, H, n)
  BY <1>1, <1>2, Zenon DEF Follows
<1>. QED
  BY <1>4, <1>5 DEF KeptEntry, d

===============================================================================
