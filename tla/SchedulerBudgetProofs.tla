------------------------- MODULE SchedulerBudgetProofs -------------------------
(***************************************************************************)
(* The bounds of the metadata scheduler, the turn of its retries and the   *)
(* agreement of its queue, its jobs and its retry history hold for every   *)
(* value of its constants.                                                 *)
(***************************************************************************)
EXTENDS MetadataSchedulerProofs

KeptJobs == \A h \in Running : KeptEntry(in_flight[h].entry, history, now)

(* The scheduler's count of fresh dispatches is at least that of the fresh *)
(* hashes popped past a due retry, which stops it in time.                 *)
KeptTurn ==
    /\ passed_over <= q.fresh_dispatches
    /\ passed_over <= FreshPerRetry

(* The second inductive invariant, on top of Inv.                          *)
Kept ==
    /\ KeptQueue(q, history, now)
    /\ KeptJobs
    /\ KeptHistory(history)
    /\ KeptTurn

-------------------------------------------------------------------------------
(* Receiving a hash.                                                       *)

(* The history an announcement leaves is one that entries still follow.    *)
LEMMA ObservedFollowed ==
    ASSUME now \in Nat, HistorySound(history), NEW event \in Event,
           NEW e, KeptEntry(e, history, now)
    PROVE  KeptEntry(e, Observed(event), now)
<1>. DEFINE L == HistoryExpire(history, now)
<1>1. HistorySound(L)
  BY HistoryExpireSound, Zenon
<1>2. Follows(e, L, now)
  BY FollowsExpire, Zenon DEF KeptEntry
<1>. HIDE DEF L
<1>3. Follows(e, HistoryObserve(L, event, now), now)
  BY <1>1, <1>2, FollowsObserve, Zenon
<1>. QED
  BY <1>3 DEF KeptEntry, Observed, L

(* The queue an announcement leaves follows that history.                  *)
LEMMA EnqueuedKept ==
    ASSUME now \in Nat, Sound(q, now), HistorySound(history), KeptQueue(q, history, now),
           NEW event \in Event, event.at <= now, ~Refused(event)
    PROVE  KeptQueue(Enqueued(event), Observed(event), now)
<1>. DEFINE U == QueuePush(q, event, now)
            O == Observed(event)
            E == Enqueued(event)
            h == event.hash
            P == QueueRemove(U, h)
            e == U.entries[h]
<1>1. KeptQueue(q, O, now)
  BY ObservedFollowed DEF KeptQueue
<1>2. /\ Sound(E, now)
      /\ \A g \in Queued(E) \ {h} : g \in Queued(q) /\ E.entries[g] = q.entries[g]
      /\ EnqueueOutcome(E, event)
  BY EnqueuedSound, Zenon
<1>3. ~(h \in Remembered(O) /\ Exhausted(O.entries[h]))
  BY DEF Refused
<1>. HIDE DEF O, E
<1>4. /\ Within(U)
      /\ h \in Queued(U) => Small(e) /\ (h \notin Remembered(O) => Follows(e, O, now))
  BY <1>1, PushKept, Zenon
<1>5. Sound(U, now)
  BY PushSound, Zenon
<1>6. \A g \in Queued(E) \ {h} : KeptEntry(E.entries[g], O, now)
  BY <1>1, <1>2 DEF KeptQueue
<1>7. CASE h \in Remembered(O) /\ h \in Queued(U)
  <2>1. DeferOutcome(E, P, e, O.entries[h])
    BY <1>2, <1>7 DEF EnqueueOutcome, O
  <2>. HIDE DEF U
  <2>2. EntryType(e) /\ e.hash = h /\ e.latest_at <= now
    BY <1>5, <1>7 DEF Sound, QueueType, Indexed, Sequenced
  <2>3. /\ Sound(P, now) /\ Queued(P) = Queued(U) \ {h} /\ Retries(P) = Retries(U) \ {h}
        /\ \A g \in Queued(P) : P.entries[g] = U.entries[g]
    BY <1>5, RemoveAllSound, Zenon DEF QueueRemove
  <2>4. Within(P)
    <3>1. Queued(P) \subseteq Queued(U) /\ Retries(P) \subseteq Retries(U)
      BY <2>3
    <3>. QED
      BY <1>4, <1>5, <3>1, WithinSub
  <2>5. h \in Queued(E) => KeptEntry(E.entries[h], O, now)
    <3>. HIDE DEF P, e
    <3>. SUFFICES ASSUME h \in Queued(E) PROVE KeptEntry(E.entries[h], O, now)
      OBVIOUS
    <3>1. /\ E.entries[h].hash = h
          /\ E.entries[h].peers = e.peers
          /\ E.entries[h].source_nodes = e.source_nodes
          /\ E.entries[h].is_retry
          /\ E.entries[h].expires_at = O.entries[h].expires_at
      BY <2>1, <2>2, <2>3 DEF DeferOutcome
    <3>2. Small(e)
      BY <1>4, <1>7 DEF e
    <3>3. Small(E.entries[h])
      BY <3>1, <3>2 DEF Small
    <3>4. Follows(E.entries[h], O, now)
      BY <1>3, <1>7, <3>1 DEF Follows
    <3>. QED
      BY <3>3, <3>4 DEF KeptEntry
  <2>6. \A g \in Queued(E) \ {e.hash} : g \in Queued(P) /\ E.entries[g] = P.entries[g]
    <3>1. /\ Queued(E) \subseteq Queued(P) \cup {h}
      BY <2>1, <2>2 DEF DeferOutcome
    <3>2. \A g \in Queued(U) \ {h} : U.entries[g] = q.entries[g]
      BY PushSound, Zenon DEF U
    <3>. QED
      BY <1>2, <2>2, <2>3, <3>1, <3>2
  <2>. HIDE DEF P, e
  <2>7. Within(E)
    BY <1>2, <2>1, <2>2, <2>3, <2>4, <2>6, DeferWithin
  <2>. QED
    BY <1>6, <2>5, <2>7 DEF KeptQueue, E, O
<1>8. CASE ~(h \in Remembered(O) /\ h \in Queued(U))
  <2>1. E = U
    BY <1>2, <1>8 DEF EnqueueOutcome, O
  <2>. HIDE DEF U
  <2>2. h \in Queued(E) => KeptEntry(E.entries[h], O, now)
    BY <1>4, <1>8, <2>1 DEF KeptEntry
  <2>3. Within(E)
    BY <1>4, <2>1
  <2>. QED
    BY <1>6, <2>2, <2>3 DEF KeptQueue, E, O
<1>. QED
  BY <1>7, <1>8

(* A hash taken out of a queue within its bounds can be deferred when its  *)
(* going leaves room among the retries.                                    *)
LEMMA RoomToDefer ==
    ASSUME NEW U, NEW n \in Nat, Sound(U, n), Within(U), NEW h \in Queued(U),
           Cardinality(Retries(U) \ {h}) < RetryShare
    PROVE  CanDefer(QueueRemove(U, h), h)
<1>. DEFINE P == QueueRemove(U, h)
            R == QueueRemove(P, h)
<1>1. Sound(P, n) /\ Queued(P) = Queued(U) \ {h} /\ Retries(P) = Retries(U) \ {h}
  BY RemoveAllSound, Zenon DEF QueueRemove
<1>. HIDE DEF P
<1>2. Sound(P, n)
  BY <1>1
<1>3. Sound(R, n) /\ Queued(R) = Queued(P) \ {h} /\ Retries(R) = Retries(P) \ {h}
  BY <1>2, RemoveAllSound, Zenon DEF QueueRemove
<1>. HIDE DEF R
<1>4. Cardinality(R.retry_expiry) = Cardinality(Retries(R))
  BY <1>3, RetryKeysCount
<1>5. Queued(R) = Queued(U) \ {h} /\ Retries(R) = Retries(U) \ {h}
  BY <1>1, <1>3
<1>6. Queued(U) \subseteq Hashes
  BY RetryKeysCount
<1>7. IsFiniteSet(Queued(U)) /\ Cardinality(Queued(U)) \in Nat /\ Capacity \in Nat
  BY <1>6, HashSets, QueueAssumption
<1>8. Cardinality(Queued(U) \ {h}) = Cardinality(Queued(U)) - 1
  BY <1>7, FS_RemoveElement
<1>9. Cardinality(Queued(R)) < Capacity
  BY <1>5, <1>7, <1>8 DEF Within
<1>. QED
  BY <1>4, <1>5, <1>9 DEF CanDefer, R, P

(* An announcement never makes the queue shorter: the hash push evicts is  *)
(* made up for by the newcomer, which a deferral then finds room for.      *)
LEMMA EnqueuedNotShorter ==
    ASSUME now \in Nat, Sound(q, now), HistorySound(history), KeptQueue(q, history, now),
           NEW event \in Event, event.at <= now
    PROVE  Cardinality(Queued(Enqueued(event))) >= Cardinality(Queued(q))
<1>. DEFINE U == QueuePush(q, event, now)
            O == Observed(event)
            E == Enqueued(event)
            h == event.hash
            P == QueueRemove(U, h)
            e == U.entries[h]
<1>1. KeptQueue(q, O, now)
  BY ObservedFollowed DEF KeptQueue
<1>2. Sound(E, now) /\ EnqueueOutcome(E, event)
  BY EnqueuedSound, Zenon
<1>. HIDE DEF O, E
<1>3. Within(U) /\ Cardinality(Queued(U)) >= Cardinality(Queued(q))
  BY <1>1, PushKept, Zenon
<1>4. /\ Sound(U, now)
      /\ \A g \in Queued(U) \ {h} : g \in Queued(q) /\ U.entries[g] = q.entries[g]
      /\ PushOutcome(U, q, event, now)
  BY PushSound, Zenon
<1>5. CASE ~(h \in Remembered(O) /\ h \in Queued(U))
  <2>1. E = U
    BY <1>2, <1>5 DEF EnqueueOutcome, O
  <2>. QED
    BY <1>3, <2>1 DEF E
<1>6. CASE h \in Remembered(O) /\ h \in Queued(U)
  <2>1. DeferOutcome(E, P, e, O.entries[h])
    BY <1>2, <1>6 DEF EnqueueOutcome, O
  <2>. HIDE DEF U
  <2>2. e.hash = h
    BY <1>4, <1>6 DEF Sound, Indexed, Sequenced
  <2>3. Sound(P, now) /\ Queued(P) = Queued(U) \ {h}
    BY <1>4, RemoveOne, Zenon
  <2>4. /\ Queued(q) \subseteq Hashes /\ Retries(q) \subseteq Queued(q)
        /\ Queued(E) \subseteq Hashes /\ Queued(U) \subseteq Hashes
    BY <1>2, <1>4, RetryKeysCount
  <2>5. h \in Queued(q) => h \in Retries(q)
    <3>1. h \in Queued(q) => Follows(q.entries[h], O, now) /\ q.entries[h].hash = h
      BY <1>1 DEF KeptQueue, KeptEntry, Sound, Indexed, Sequenced
    <3>. QED
      BY <1>6, <3>1 DEF Follows, Retries
  <2>6. /\ IsFiniteSet(Retries(q)) /\ Cardinality(Retries(q)) \in Nat
        /\ Cardinality(Retries(q)) <= RetryShare /\ RetryShare \in Nat \ {0}
    BY <1>1, <2>4, HashSets, QueueAssumption DEF KeptQueue, Within, RetryShare, Larger
  <2>7. ASSUME NEW x, x \in Retries(q) \/ Retries(q) = {}, x = h \/ x \notin Queued(U)
        PROVE  CanDefer(P, h)
    <3>1. Retries(U) \ {h} \subseteq Retries(q) \ {x}
      BY <1>4, <2>7 DEF Retries
    <3>2. /\ IsFiniteSet(Retries(q) \ {x})
          /\ Cardinality(Retries(q) \ {x}) = IF x \in Retries(q) THEN Cardinality(Retries(q)) - 1
                                             ELSE Cardinality(Retries(q))
      BY <2>6, FS_RemoveElement
    <3>3. Cardinality(Retries(U) \ {h}) <= Cardinality(Retries(q) \ {x})
      BY <3>1, <3>2, FS_Subset
    <3>4. Cardinality(Retries(q) \ {x}) \in Nat /\ Cardinality(Retries(q) \ {x}) < RetryShare
      <4>1. CASE x \in Retries(q)
        BY <2>6, <3>2, <4>1, FS_CardinalityType
      <4>2. CASE Retries(q) = {}
        BY <2>6, <3>2, <4>2, FS_EmptySet
      <4>. QED
        BY <2>7, <4>1, <4>2
    <3>5. Cardinality(Retries(U) \ {h}) \in Nat
      BY <3>1, <3>2, FS_Subset, FS_CardinalityType
    <3>6. Cardinality(Retries(U) \ {h}) < RetryShare
      BY <2>6, <3>3, <3>4, <3>5
    <3>. QED
      BY <1>3, <1>4, <1>6, <3>6, RoomToDefer
  <2>8. \/ h \in Queued(q)
        \/ Queued(U) = Queued(q) \cup {h}
        \/ \E v \in Queued(q) : /\ Queued(U) = (Queued(q) \ {v}) \cup {h}
                                /\ v \in Retries(q) \/ Retries(q) = {}
    BY <1>4, <1>6, Zenon DEF PushOutcome
  <2>9. CASE CanDefer(P, h)
    <3>1. Queued(E) = Queued(U)
      BY <1>6, <2>1, <2>2, <2>3, <2>9 DEF DeferOutcome
    <3>. QED
      BY <1>3, <3>1 DEF E
  <2>10. CASE Queued(U) = Queued(q) \cup {h} /\ h \notin Queued(q)
    <3>1. Queued(q) \subseteq Queued(E)
      BY <2>1, <2>2, <2>3, <2>10 DEF DeferOutcome
    <3>2. /\ Cardinality(Queued(q)) <= Cardinality(Queued(E))
          /\ Cardinality(Queued(q)) \in Nat /\ Cardinality(Queued(E)) \in Nat
      BY <2>4, <3>1, HashSets
    <3>. QED
      BY <3>2 DEF E
  <2>11. CASE h \in Queued(q)
    BY <2>5, <2>7, <2>9, <2>11
  <2>12. ASSUME NEW v \in Queued(q), Queued(U) = (Queued(q) \ {v}) \cup {h},
                v \in Retries(q) \/ Retries(q) = {}
         PROVE  CanDefer(P, h)
    BY <2>7, <2>12
  <2>. QED
    BY <2>8, <2>9, <2>10, <2>11, <2>12
<1>. QED
  BY <1>5, <1>6

(* A select! arm that leaves a queue, jobs and a history in step.          *)
LEMMA NextTurnKept ==
    ASSUME now \in Nat, NEW Q, Sound(Q, now), NEW C, NextTurn(Q, C),
           KeptQueue(Q, history', now), KeptJobs', KeptHistory(history'),
           passed_over <= Q.fresh_dispatches, passed_over <= FreshPerRetry
    PROVE  Kept'
<1>. DEFINE R == QueuePromote(Q, now)
<1>1. now' = now /\ passed_over' = passed_over /\ q' = R
  BY DEF NextTurn
<1>2. /\ Queued(R) = Queued(Q) /\ R.fresh_dispatches = Q.fresh_dispatches
      /\ \A h \in Queued(Q) : Like(R.entries[h], Q.entries[h])
  BY PromoteSound, Zenon
<1>. HIDE DEF R
<1>3. KeptQueue(R, history', now)
  BY <1>2, KeptSub
<1>. QED
  BY <1>1, <1>2, <1>3 DEF Kept, KeptTurn

(* The history an announcement leaves keeps to its limits and deadlines.   *)
LEMMA ObservedLimits ==
    ASSUME now \in Nat, HistorySound(history), KeptHistory(history), NEW event \in Event
    PROVE  /\ KeptHistory(Observed(event))
           /\ \A h \in Remembered(history) \cap Remembered(Observed(event)) :
                    Observed(event).entries[h].expires_at = history.entries[h].expires_at
<1>. DEFINE O == Observed(event)
<1>1. /\ WithinLimits(O)
      /\ Remembered(O) \subseteq Remembered(history)
      /\ \A h \in Remembered(O) : O.entries[h].expires_at = history.entries[h].expires_at
  BY LimitsObserved, Zenon DEF Observed, KeptHistory
<1>. HIDE DEF O
<1>2. Remembered(history) \subseteq Hashes
  BY DEF HistorySound, HistoryType
<1>3. /\ Cardinality(Remembered(O)) <= Cardinality(Remembered(history))
      /\ Cardinality(Remembered(O)) \in Nat /\ Cardinality(Remembered(history)) \in Nat
  BY <1>1, <1>2, HashSets
<1>4. Cardinality(Remembered(O)) <= RetryHistoryCapacity
  BY <1>3, HistoryAssumption DEF KeptHistory
<1>. QED
  BY <1>1, <1>4 DEF KeptHistory, O

(* An announcement keeps the bounds: a hash that runs gains its sources,   *)
(* an exhausted one is refused, any other is queued as its record says.    *)
LEMMA RecvHashKept ==
    ASSUME Inv, Kept, NEW event \in Events, RecvHash(event)
    PROVE  Kept'
<1>. DEFINE h == event.hash
            O == Observed(event)
<1>0. /\ now \in Nat /\ Sound(q, now) /\ HistorySound(history)
      /\ \A g \in Running : EntryType(in_flight[g].entry)
  BY DEF Inv, ScalarsOK, JobsOK
<1>1. event \in Event /\ event.at <= now /\ h \in Hashes
  BY <1>0, EventsTyped
<1>2. /\ KeptQueue(q, history, now) /\ KeptJobs /\ KeptHistory(history)
      /\ passed_over <= q.fresh_dispatches /\ passed_over <= FreshPerRetry
  BY DEF Kept, KeptTurn
<1>3. /\ KeptHistory(O)
      /\ \A e : KeptEntry(e, history, now) => KeptEntry(e, O, now)
  BY <1>0, <1>1, <1>2, ObservedLimits, ObservedFollowed
<1>. HIDE DEF O
<1>4. ASSUME in_flight' = in_flight, now' = now, history' = O
      PROVE  KeptJobs'
  BY <1>2, <1>3, <1>4 DEF KeptJobs, Running
<1>5. CASE EnqueueInFlight(event)
  <2>1. h \in Running /\ NextTurn(q, {}) /\ history' = history /\ now' = now
    BY <1>5 DEF EnqueueInFlight, NextTurn
  <2>2. \/ in_flight' = in_flight
        \/ \E s : in_flight' = [in_flight EXCEPT ![h] =
                        [entry |-> MergeCandidate(in_flight[h].entry, event), scheduled |-> s]]
    BY <1>5, Zenon DEF EnqueueInFlight
  <2>3. KeptJobs'
    <3>1. CASE in_flight' = in_flight
      BY <1>2, <2>1, <3>1 DEF KeptJobs, Running
    <3>2. ASSUME NEW s, in_flight' = [in_flight EXCEPT ![h] =
                        [entry |-> MergeCandidate(in_flight[h].entry, event), scheduled |-> s]]
          PROVE  KeptJobs'
      <4>. DEFINE m == MergeCandidate(in_flight[h].entry, event)
      <4>1. KeptEntry(m, history, now)
        <5>1. EntryType(in_flight[h].entry) /\ KeptEntry(in_flight[h].entry, history, now)
          BY <1>0, <1>2, <2>1 DEF KeptJobs
        <5>. QED
          BY <1>1, <5>1, MergeKept, Zenon
      <4>. HIDE DEF m
      <4>2. /\ Running' = Running
            /\ in_flight'[h].entry = m
            /\ \A g \in Running : g # h => in_flight'[g] = in_flight[g]
        BY <2>1, <3>2 DEF Running, m
      <4>. QED
        BY <1>2, <2>1, <4>1, <4>2 DEF KeptJobs
    <3>. QED
      BY <2>2, <3>1, <3>2
  <2>. QED
    BY <1>0, <1>2, <2>1, <2>3, NextTurnKept
<1>6. CASE EnqueueExhausted(event)
  <2>1. NextTurn(q, {}) /\ history' = O /\ in_flight' = in_flight /\ now' = now
    BY <1>6 DEF EnqueueExhausted, NextTurn, O
  <2>2. KeptQueue(q, history', now)
    BY <1>2, <1>3, <2>1 DEF KeptQueue
  <2>3. KeptJobs' /\ KeptHistory(history')
    BY <1>3, <1>4, <2>1
  <2>. QED
    BY <1>0, <1>2, <2>1, <2>2, <2>3, NextTurnKept
<1>7. CASE EnqueuePending(event)
  <2>. DEFINE E == Enqueued(event)
  <2>1. /\ NextTurn(E, {}) /\ history' = O /\ in_flight' = in_flight /\ now' = now
        /\ ~Refused(event)
    BY <1>7 DEF EnqueuePending, NextTurn, O
  <2>2. Sound(E, now) /\ E.fresh_dispatches = q.fresh_dispatches
    BY <1>0, <1>1, EnqueuedSound, Zenon
  <2>3. KeptQueue(E, O, now)
    BY <1>0, <1>1, <1>2, <2>1, EnqueuedKept, Zenon DEF O
  <2>. HIDE DEF E
  <2>4. KeptQueue(E, history', now)
    BY <2>1, <2>3
  <2>5. KeptJobs' /\ KeptHistory(history')
    BY <1>3, <1>4, <2>1
  <2>6. passed_over <= E.fresh_dispatches
    BY <1>2, <2>2
  <2>. QED
    BY <1>0, <1>2, <2>1, <2>2, <2>4, <2>5, <2>6, NextTurnKept
<1>. QED
  BY <1>5, <1>6, <1>7 DEF RecvHash

-------------------------------------------------------------------------------
(* A finished job.                                                         *)

(* What schedule_retry records is within the budget, moves no deadline and *)
(* concerns no other hash.                                                 *)
LEMMA RetryRecordedKept ==
    ASSUME now \in Nat, HistorySound(history), KeptHistory(history), NEW e, EntryType(e),
           KeptEntry(e, history, now), ~NoRetry(e), NEW outcome, outcome.delay \in Nat
    PROVE  RecordKept(RetryRecorded(e, outcome), history, e, now)
<1>1. RetryRecorded(e, outcome) = Recorded(history, e, now, Failed(outcome), outcome.delay)
  BY DEF RetryRecorded, Recorded
<1>2. Failed(outcome) \in BOOLEAN
  BY DEF Failed
<1>3. RetryMaxAttempts # 0 /\ ~(e.is_retry /\ e.expires_at <= now)
  BY DEF NoRetry
<1>4. RecordKept(Recorded(history, e, now, Failed(outcome), outcome.delay), history, e, now)
  BY <1>2, <1>3, RecordedKept
<1>. QED
  BY <1>1, <1>4

(* schedule_retry queues the entry again under the record's deadline, or   *)
(* not at all.                                                             *)
LEMMA RescheduledKept ==
    ASSUME now \in Nat, NEW Q, Sound(Q, now), NEW H, HistorySound(H), KeptQueue(Q, H, now),
           NEW e, EntryType(e), e.latest_at <= now, Small(e)
    PROVE  LET R == Rescheduled(Q, e, H)
           IN  /\ Sound(R, now)
               /\ KeptQueue(R, H, now)
               /\ R.fresh_dispatches = Q.fresh_dispatches
<1>1. CASE ~Retriable(H, e.hash)
  <2>1. Rescheduled(Q, e, H) = Q
    BY <1>1 DEF Rescheduled
  <2>. QED
    BY <2>1
<1>2. CASE Retriable(H, e.hash)
  <2>1. Rescheduled(Q, e, H) = QueueDefer(Q, e, H.entries[e.hash])
    BY <1>2 DEF Rescheduled
  <2>2. e.hash \in Remembered(H) /\ ~Exhausted(H.entries[e.hash])
    BY <1>2 DEF Retriable
  <2>. DEFINE D == QueueDefer(Q, e, H.entries[e.hash])
  <2>3. Sound(D, now) /\ KeptQueue(D, H, now) /\ D.fresh_dispatches = Q.fresh_dispatches
    BY <2>2, DeferKept
  <2>. HIDE DEF D
  <2>. QED
    BY <2>1, <2>3 DEF D
<1>. QED
  BY <1>1, <1>2

(* A hash whose job is joined is forgotten, or recorded and queued again;  *)
(* the others still follow the history, and no deadline has moved.         *)
LEMMA JoinJobKept ==
    ASSUME Inv, Kept, NEW t \in TaskIds, JoinJob(t)
    PROVE  /\ Kept'
           /\ \A h \in Remembered(history) \cap Remembered(history') :
                    history'.entries[h].expires_at = history.entries[h].expires_at
<1>. DEFINE h == tasks[t].hash
            outcome == tasks[t].outcome
            entry == in_flight[h].entry
            rest == QueueRemove(q, h)
            completions == IF outcome.kind \in {"GateRejected", "Deferred"} THEN {} ELSE {h}
            recorded == RetryRecorded(entry, outcome)
            removed == HistoryRemove(history, h)
<1>0. /\ now \in Nat /\ Sound(q, now) /\ HistorySound(history) /\ JobsOK
      /\ Running \cap Queued(q) = {}
  BY DEF Inv, ScalarsOK
<1>1. t \in DOMAIN tasks /\ h \in Running /\ h \in Hashes
  BY <1>0 DEF JoinJob, JobsOK
<1>2. HandleJobResult(h, outcome)
  BY <1>1 DEF JoinJob
<1>3. in_flight' = Restrict(in_flight, Running \ {h}) /\ now' = now
  BY <1>2 DEF HandleJobResult, NextTurn
<1>4. /\ Running' = Running \ {h}
      /\ \A g \in Running' : in_flight'[g] = in_flight[g]
  BY <1>3 DEF Restrict, Running
<1>5. /\ EntryType(entry) /\ entry.hash = h /\ entry.latest_at <= now
      /\ \A g \in Running : in_flight[g].entry.hash = g
  BY <1>0, <1>1 DEF JobsOK
<1>6. /\ KeptQueue(q, history, now) /\ KeptJobs /\ KeptHistory(history)
      /\ passed_over <= q.fresh_dispatches /\ passed_over <= FreshPerRetry
      /\ KeptEntry(entry, history, now)
  BY <1>1 DEF Kept, KeptTurn, KeptJobs
<1>7. /\ Sound(rest, now) /\ Queued(rest) = Queued(q) \ {h}
      /\ \A g \in Queued(rest) : rest.entries[g] = q.entries[g]
      /\ rest.fresh_dispatches = q.fresh_dispatches
  BY <1>0, RemoveAllSound, Zenon DEF QueueRemove
<1>8. Failed(outcome) \in BOOLEAN /\ outcome.delay \in Nat
  BY <1>0, <1>1, OutcomeTyped
<1>9. \/ NextTurn(rest, completions) /\ history' = removed
      \/ NextTurn(rest, completions) /\ history' = history
      \/ /\ NextTurn(Rescheduled(rest, entry, recorded), completions)
         /\ ~NoRetry(entry)
         /\ history' = recorded
  BY <1>2, Zenon DEF HandleJobResult
<1>. HIDE DEF h, outcome, entry, rest, completions, recorded
<1>10. KeptQueue(rest, history, now)
  <2>1. \A g \in Queued(rest) : Like(rest.entries[g], q.entries[g])
    BY <1>7 DEF Like
  <2>. QED
    BY <1>0, <1>6, <1>7, <2>1, KeptSub
<1>11. \A g \in Queued(rest) : rest.entries[g].hash # h
  BY <1>7 DEF Sound, Indexed, Sequenced
(* The entries that are left follow what the others follow.                *)
<1>12. ASSUME NEW H, \A f : KeptEntry(f, history, now) /\ f.hash # h => KeptEntry(f, H, now)
       PROVE  /\ KeptQueue(rest, H, now)
              /\ history' = H => KeptJobs'
  <2>1. KeptQueue(rest, H, now)
    BY <1>10, <1>11, <1>12 DEF KeptQueue
  <2>2. ASSUME history' = H, NEW g \in Running'
        PROVE  KeptEntry(in_flight'[g].entry, history', now')
    <3>1. g \in Running /\ g # h /\ in_flight'[g] = in_flight[g]
      BY <1>4, <2>2
    <3>2. KeptEntry(in_flight[g].entry, history, now) /\ in_flight[g].entry.hash # h
      BY <1>5, <1>6, <3>1 DEF KeptJobs
    <3>3. KeptEntry(in_flight[g].entry, H, now)
      BY <1>12, <3>2
    <3>. QED
      BY <1>3, <2>2, <3>1, <3>3
  <2>. QED
    BY <2>1, <2>2 DEF KeptJobs
<1>13. passed_over <= rest.fresh_dispatches
  BY <1>6, <1>7
<1>14. CASE NextTurn(rest, completions) /\ history' = history
  <2>1. KeptJobs'
    BY <1>12, <1>14
  <2>2. KeptQueue(rest, history', now) /\ KeptHistory(history')
    BY <1>6, <1>10, <1>14
  <2>3. Kept'
    BY <1>0, <1>6, <1>7, <1>13, <1>14, <2>1, <2>2, NextTurnKept
  <2>. QED
    BY <1>14, <2>3
<1>15. CASE NextTurn(rest, completions) /\ history' = removed
  <2>1. /\ Remembered(removed) = Remembered(history) \ {h}
        /\ \A g \in Remembered(removed) : removed.entries[g] = history.entries[g]
    BY <1>0, HistoryRemoveSound, Zenon
  <2>. HIDE DEF removed
  <2>2. ASSUME NEW f, KeptEntry(f, history, now), f.hash # h
        PROVE  KeptEntry(f, removed, now)
    BY <2>1, <2>2, Zenon DEF KeptEntry, Follows
  <2>3. KeptHistory(removed)
    <3>1. Remembered(history) \subseteq Hashes
      BY <1>0 DEF HistorySound, HistoryType
    <3>2. /\ Cardinality(Remembered(removed)) <= Cardinality(Remembered(history))
          /\ Cardinality(Remembered(removed)) \in Nat /\ Cardinality(Remembered(history)) \in Nat
      BY <2>1, <3>1, HashSets
    <3>3. Cardinality(Remembered(removed)) <= RetryHistoryCapacity
      BY <1>6, <3>2, HistoryAssumption DEF KeptHistory
    <3>4. WithinLimits(removed)
      BY <1>6, <2>1 DEF KeptHistory, WithinLimits
    <3>. QED
      BY <3>3, <3>4 DEF KeptHistory
  <2>4. KeptQueue(rest, removed, now) /\ KeptJobs'
    BY <1>12, <1>15, <2>2
  <2>5. KeptQueue(rest, history', now) /\ KeptHistory(history')
    BY <1>15, <2>3, <2>4
  <2>6. Kept'
    BY <1>0, <1>6, <1>7, <1>13, <1>15, <2>4, <2>5, NextTurnKept
  <2>. QED
    BY <1>15, <2>1, <2>6
<1>16. CASE /\ NextTurn(Rescheduled(rest, entry, recorded), completions)
            /\ ~NoRetry(entry) /\ history' = recorded
  <2>. DEFINE S == Rescheduled(rest, entry, recorded)
  <2>1. /\ HistorySound(recorded) /\ KeptHistory(recorded)
        /\ \A f : KeptEntry(f, history, now) /\ f.hash # entry.hash => KeptEntry(f, recorded, now)
        /\ \A g \in Remembered(history) \cap Remembered(recorded) :
                recorded.entries[g].expires_at = history.entries[g].expires_at
    <3>1. /\ EntryType(entry) /\ KeptEntry(entry, history, now) /\ KeptHistory(history)
          /\ ~NoRetry(entry) /\ outcome.delay \in Nat
      BY <1>5, <1>6, <1>8, <1>16
    <3>. QED
      BY <1>0, <3>1, RetryRecordedKept, Zenon DEF recorded, RecordKept
  <2>2. KeptQueue(rest, recorded, now) /\ KeptJobs'
    BY <1>5, <1>12, <1>16, <2>1
  <2>3. Sound(S, now) /\ KeptQueue(S, recorded, now) /\ S.fresh_dispatches = rest.fresh_dispatches
    <3>1. EntryType(entry) /\ entry.latest_at <= now /\ Small(entry)
      BY <1>5, <1>6 DEF KeptEntry
    <3>2. HistorySound(recorded) /\ KeptQueue(rest, recorded, now) /\ Sound(rest, now)
      BY <1>7, <2>1, <2>2
    <3>. QED
      BY <1>0, <3>1, <3>2, RescheduledKept, Zenon
  <2>. HIDE DEF S
  <2>4. NextTurn(S, completions) /\ KeptQueue(S, history', now) /\ KeptHistory(history')
    BY <1>16, <2>1, <2>3 DEF S
  <2>5. passed_over <= S.fresh_dispatches
    BY <1>13, <2>3
  <2>6. Kept'
    BY <1>0, <1>6, <2>2, <2>3, <2>4, <2>5, NextTurnKept
  <2>. QED
    BY <1>16, <2>1, <2>6
<1>. QED
  BY <1>9, <1>14, <1>15, <1>16

-------------------------------------------------------------------------------
(* Dispatching, and the steps that leave queue and history alone.          *)

(* The arms of select! that only promote the due retries keep them.        *)
LEMMA TurnKept ==
    ASSUME Inv, Kept, InputClosed \/ DispatchTick \/ Maintain
    PROVE  Kept'
<1>. DEFINE X == QueueExpire(q, now)
<1>0. now \in Nat /\ Sound(q, now)
  BY DEF Inv, ScalarsOK
<1>1. /\ KeptQueue(q, history, now) /\ KeptJobs /\ KeptHistory(history)
      /\ passed_over <= q.fresh_dispatches /\ passed_over <= FreshPerRetry
  BY DEF Kept, KeptTurn
<1>2. history' = history /\ in_flight' = in_flight /\ now' = now
  BY DEF InputClosed, DispatchTick, Maintain, NextTurn
<1>3. KeptJobs' /\ KeptHistory(history')
  BY <1>1, <1>2 DEF KeptJobs, Running
<1>4. NextTurn(q, {}) \/ NextTurn(X, {})
  BY DEF InputClosed, DispatchTick, Maintain
<1>5. /\ Sound(X, now) /\ Queued(X) = Queued(q) \ ExpiredHashes(q, now)
      /\ \A h \in Queued(X) : X.entries[h] = q.entries[h]
      /\ X.fresh_dispatches = q.fresh_dispatches
  BY <1>0, RemoveAllSound, Zenon DEF QueueExpire
<1>. HIDE DEF X
<1>6. CASE NextTurn(q, {})
  <2>1. KeptQueue(q, history', now)
    BY <1>1, <1>2
  <2>. QED
    BY <1>0, <1>1, <1>3, <1>6, <2>1, NextTurnKept
<1>7. CASE NextTurn(X, {})
  <2>1. Queued(X) \subseteq Queued(q) /\ \A h \in Queued(X) : Like(X.entries[h], q.entries[h])
    BY <1>5 DEF Like
  <2>2. KeptQueue(X, history, now)
    BY <1>0, <1>1, <2>1, KeptSub
  <2>3. KeptQueue(X, history', now) /\ passed_over <= X.fresh_dispatches
    BY <1>1, <1>2, <1>5, <2>2
  <2>. QED
    BY <1>0, <1>1, <1>3, <1>5, <1>7, <2>3, NextTurnKept
<1>. QED
  BY <1>4, <1>6, <1>7

(* A pop loses one hash at most, and counts it: the count of the queue     *)
(* reaches FreshPerRetry before the fresh hashes taken past a due retry    *)
(* can exceed it.                                                          *)
LEMMA PopKept ==
    ASSUME Inv, Kept, PopNext
    PROVE  /\ KeptQueue(Poppable(q, now), history, now)
           /\ KeptQueue(q', history, now)
           /\ KeptTurn'
<1>. DEFINE p == Poppable(q, now)
            a == AfterPop(p)
            f == q.fresh_dispatches
            use == UseRetry(p)
<1>0. now \in Nat /\ Sound(q, now) /\ passed_over \in Nat
  BY DEF Inv, ScalarsOK
<1>1. /\ KeptQueue(q, history, now)
      /\ passed_over <= f /\ passed_over <= FreshPerRetry
  BY DEF Kept, KeptTurn
<1>2. /\ Sound(p, now) /\ Queued(p) \subseteq Queued(q)
      /\ \A h \in Queued(p) : Like(p.entries[h], q.entries[h])
      /\ p.fresh_dispatches = f
      /\ Queued(a) \subseteq Queued(p)
      /\ \A h \in Queued(a) : a.entries[h] = p.entries[h]
      /\ a.fresh_dispatches = Counted(p)
  <2>1. PopOutcome(q, p, now)
    BY <1>0, PopSound, Zenon
  <2>. HIDE DEF p, use
  <2>. QED
    BY <2>1 DEF PopOutcome
<1>3. /\ q' = a
      /\ passed_over' = IF p.ready_retry = {} \/ use THEN 0 ELSE passed_over + 1
  BY DEF PopNext
<1>5. f \in 0..FreshSaturation
  BY <1>0 DEF Sound, QueueType
<1>. HIDE DEF p, a, use, f
<1>6. KeptQueue(p, history, now)
  BY <1>0, <1>1, <1>2, KeptSub
<1>7. KeptQueue(a, history, now)
  <2>1. Queued(a) \subseteq Queued(p) /\ \A h \in Queued(a) : Like(a.entries[h], p.entries[h])
    BY <1>2 DEF Like
  <2>. QED
    BY <1>2, <1>6, <2>1, KeptSub
<1>8. passed_over' <= a.fresh_dispatches /\ passed_over' <= FreshPerRetry
  <2>1. /\ p.fresh_dispatches \in 0..FreshSaturation
        /\ passed_over <= p.fresh_dispatches /\ passed_over <= FreshPerRetry
    BY <1>1, <1>2, <1>5
  <2>2. passed_over' <= Counted(p) /\ passed_over' <= FreshPerRetry
    BY <1>0, <1>3, <2>1, PopCount DEF use
  <2>. QED
    BY <1>2, <2>2
<1>. QED
  BY <1>3, <1>6, <1>7, <1>8 DEF KeptTurn, p

(* Dropping stale peers makes an entry smaller, and changes nothing else.  *)
LEMMA FreshPeersKept ==
    ASSUME NEW e, EntryType(e), KeptEntry(e, history, now)
    PROVE  KeptEntry([e EXCEPT !.peers = FreshPeers(e)], history, now)
<1>1. DOMAIN FreshPeers(e) \subseteq DOMAIN e.peers
  BY DEF FreshPeers, Restrict
<1>. QED
  BY <1>1, FewerPeersKept, Zenon

(* A dispatch moves the popped hash into the jobs, with no more peers than *)
(* it had, or drops it.                                                    *)
LEMMA DispatchKept ==
    ASSUME Inv, Kept, Dispatch
    PROVE  Kept'
<1>. DEFINE p == Poppable(q, now)
            c == Popped(p)
            popped == p.entries[c]
            entry == [popped EXCEPT !.peers = FreshPeers(popped)]
<1>0. now \in Nat /\ Sound(q, now)
  BY DEF Inv, ScalarsOK
<1>1. PopNext /\ history' = history /\ now' = now /\ c # None
  BY DEF Dispatch, Candidate
<1>2. KeptQueue(p, history, now) /\ KeptQueue(q', history, now) /\ KeptTurn'
  BY <1>1, PopKept
<1>3. Sound(p, now) /\ (c # None => c \in Queued(p))
  <2>1. PopOutcome(q, p, now)
    BY <1>0, PopSound, Zenon
  <2>. QED
    BY <2>1 DEF PopOutcome
<1>4. in_flight' = in_flight \/ SpawnJob(entry)
  BY DEF Dispatch, Candidate
<1>. HIDE DEF p, c
<1>5. EntryType(popped) /\ KeptEntry(popped, history, now)
  BY <1>1, <1>2, <1>3 DEF Sound, QueueType, KeptQueue
<1>. HIDE DEF popped
<1>6. KeptEntry(entry, history, now)
  BY <1>5, FreshPeersKept
<1>. HIDE DEF entry
<1>7. KeptJobs
  BY DEF Kept
<1>8. KeptJobs'
  <2>1. CASE in_flight' = in_flight
    BY <1>1, <1>7, <2>1 DEF KeptJobs, Running
  <2>2. CASE SpawnJob(entry)
    <3>1. in_flight' = With(in_flight, entry.hash,
                            [scheduled |-> DOMAIN entry.peers, entry |-> entry])
      BY <2>2 DEF SpawnJob
    <3>2. \A g \in Running' : \/ in_flight'[g].entry = entry
                              \/ g \in Running /\ in_flight'[g] = in_flight[g]
      BY <3>1 DEF With, Running
    <3>. QED
      BY <1>1, <1>6, <1>7, <3>2 DEF KeptJobs
  <2>. QED
    BY <1>4, <2>1, <2>2
<1>. QED
  BY <1>1, <1>2, <1>8 DEF Kept

(* The ends of the dispatch loop and the queue gauge keep them.            *)
LEMMA GaugeKept ==
    ASSUME Inv, Kept, DispatchIdle \/ DispatchFull \/ Publish
    PROVE  Kept'
<1>1. history' = history /\ in_flight' = in_flight /\ now' = now
  BY DEF DispatchIdle, DispatchFull, Publish, SyncQueueLen
<1>2. KeptJobs' /\ KeptHistory(history')
  BY <1>1 DEF Kept, KeptJobs, Running
<1>3. PopNext \/ (q' = q /\ passed_over' = passed_over)
  BY DEF DispatchIdle, DispatchFull, Publish
<1>4. KeptQueue(q', history, now) /\ KeptTurn'
  <2>1. CASE PopNext
    BY <2>1, PopKept
  <2>2. CASE q' = q /\ passed_over' = passed_over
    BY <2>2 DEF Kept, KeptTurn
  <2>. QED
    BY <1>3, <2>1, <2>2
<1>. QED
  BY <1>1, <1>2, <1>4 DEF Kept

(* Jobs, the clock and cancellation leave the queue and the history alone; *)
(* time lets retries outlive their history, and cancellation drops jobs.   *)
LEMMA QuietKept ==
    ASSUME Inv, Kept, q' = q, history' = history, passed_over' = passed_over,
           now' = now \/ now' = now + 1,
           in_flight' = in_flight \/ in_flight' = [h \in {} |-> 0]
    PROVE  Kept'
<1>0. now \in Nat /\ Sound(q, now) /\ JobsOK
  BY DEF Inv, ScalarsOK
<1>1. ASSUME NEW e, EntryType(e), KeptEntry(e, history, now)
      PROVE  KeptEntry(e, history, now')
  <2>1. e.expires_at \in Nat
    BY <1>1 DEF EntryType
  <2>2. e.expires_at <= now => e.expires_at <= now'
    BY <1>0, <2>1
  <2>. QED
    BY <1>1, <2>2, Zenon DEF KeptEntry, Follows
<1>2. KeptQueue(q', history', now')
  <2>1. \A h \in Queued(q) : EntryType(q.entries[h])
    BY <1>0 DEF Sound, QueueType
  <2>. QED
    BY <1>1, <2>1 DEF Kept, KeptQueue
<1>3. KeptJobs'
  <2>1. CASE in_flight' = in_flight
    BY <1>0, <1>1, <2>1 DEF Kept, KeptJobs, JobsOK, Running
  <2>2. CASE in_flight' = [h \in {} |-> 0]
    BY <2>2 DEF KeptJobs, Running
  <2>. QED
    BY <2>1, <2>2
<1>. QED
  BY <1>2, <1>3 DEF Kept, KeptTurn

-------------------------------------------------------------------------------
(* The invariant and the properties.                                       *)

(* The empty actor satisfies the bounds.                                   *)
LEMMA InitKept == Init => Kept
<1>. SUFFICES ASSUME Init PROVE Kept
  OBVIOUS
<1>1. /\ Queued(q) = {} /\ Retries(q) = {} /\ Remembered(history) = {} /\ Running = {}
      /\ passed_over = 0 /\ q.fresh_dispatches = 0
  BY DEF Init, EmptyQueue, EmptyHistory, Queued, Retries, Remembered, Running
<1>2. /\ Cardinality({}) = 0 /\ 0 <= Capacity /\ 0 <= RetryShare
      /\ 0 <= RetryHistoryCapacity /\ 0 <= FreshPerRetry
  BY FS_EmptySet, QueueAssumption, HistoryAssumption DEF RetryShare, Larger
<1>3. KeptQueue(q, history, now)
  BY <1>1, <1>2 DEF KeptQueue, Within
<1>4. KeptHistory(history)
  BY <1>1, <1>2 DEF KeptHistory, WithinLimits
<1>5. KeptJobs /\ KeptTurn
  BY <1>1, <1>2 DEF KeptJobs, KeptTurn
<1>. QED
  BY <1>3, <1>4, <1>5 DEF Kept

(* Every step of the actor, its jobs or the clock preserves it.            *)
LEMMA NextKept == Inv /\ Kept /\ [Next]_vars => Kept'
<1>. SUFFICES ASSUME Inv, Kept, [Next]_vars PROVE Kept'
  OBVIOUS
<1>1. CASE \E event \in Events : RecvHash(event)
  BY <1>1, RecvHashKept
<1>2. CASE \E t \in TaskIds : JoinJob(t)
  BY <1>2, JoinJobKept
<1>3. CASE InputClosed \/ DispatchTick \/ Maintain
  BY <1>3, TurnKept
<1>4. CASE Dispatch
  BY <1>4, DispatchKept
<1>5. CASE DispatchIdle \/ DispatchFull \/ Publish
  BY <1>5, GaugeKept
<1>6. CASE \E t \in TaskIds : JobAdmit(t) \/ JobEnds(t)
  <2>1. /\ q' = q /\ history' = history /\ passed_over' = passed_over /\ now' = now
        /\ in_flight' = in_flight
    BY <1>6 DEF JobAdmit, JobEnds, JobSkip, JobPanic, JobRetryAfter, JobComplete, JobStep
  <2>. QED
    BY <2>1, QuietKept
<1>7. CASE Tick
  <2>1. /\ q' = q /\ history' = history /\ passed_over' = passed_over /\ now' = now + 1
        /\ in_flight' = in_flight
    BY <1>7 DEF Tick
  <2>. QED
    BY <2>1, QuietKept
<1>8. CASE Shutdown
  <2>1. /\ q' = q /\ history' = history /\ passed_over' = passed_over /\ now' = now
        /\ in_flight' = [h \in {} |-> 0]
    BY <1>8 DEF Shutdown
  <2>. QED
    BY <2>1, QuietKept
<1>9. CASE UNCHANGED vars
  <2>1. /\ q' = q /\ history' = history /\ passed_over' = passed_over /\ now' = now
        /\ in_flight' = in_flight
    BY <1>9 DEF vars
  <2>. QED
    BY <2>1, QuietKept
<1>. QED
  BY <1>1, <1>2, <1>3, <1>4, <1>5, <1>6, <1>7, <1>8, <1>9 DEF Next, LoopStep

(* The two invariants give the properties.                                 *)
LEMMA KeptImplies ==
    ASSUME Inv, Kept
    PROVE  Bounded /\ RetriesFollowHistory /\ WithinRetryBudget /\ RetriesGetTheirTurn
<1>0. now \in Nat /\ Sound(q, now) /\ JobsOK
  BY DEF Inv, ScalarsOK
<1>1. \A e \in Owned : EntryType(e) /\ Small(e) /\ Follows(e, history, now)
  <2>1. \A h \in Queued(q) : EntryType(q.entries[h]) /\ KeptEntry(q.entries[h], history, now)
    BY <1>0 DEF Sound, QueueType, Kept, KeptQueue
  <2>2. \A h \in Running : /\ EntryType(in_flight[h].entry)
                           /\ KeptEntry(in_flight[h].entry, history, now)
    BY <1>0 DEF JobsOK, Kept, KeptJobs
  <2>. QED
    BY <2>1, <2>2, Zenon DEF Owned, KeptEntry
<1>2. Cardinality(DOMAIN tasks) <= MaxConcurrent
  <2>1. IsFiniteSet(TaskIds) /\ Cardinality(TaskIds) = MaxConcurrent
    BY SchedulerAssumption, FS_Interval DEF TaskIds
  <2>2. DOMAIN tasks \subseteq TaskIds
    BY <1>0 DEF JobsOK
  <2>. QED
    BY <2>1, <2>2, FS_Subset
<1>3. Bounded
  BY <1>1, <1>2 DEF Bounded, Kept, KeptQueue, Within, KeptHistory, Small
<1>4. RetriesFollowHistory
  BY <1>1 DEF RetriesFollowHistory, Follows
<1>5. WithinRetryBudget
  <2>1. ASSUME NEW e \in Owned, e.hash \in Remembered(history), e.expires_at > now
        PROVE  ~Exhausted(history.entries[e.hash])
    <3>1. e.expires_at \in Nat /\ Follows(e, history, now)
      BY <1>1 DEF EntryType
    <3>2. ~(e.expires_at <= now)
      BY <1>0, <2>1, <3>1
    <3>. QED
      BY <2>1, <3>1, <3>2 DEF Follows
  <2>. QED
    BY <2>1 DEF WithinRetryBudget, Kept, KeptHistory, WithinLimits
<1>. QED
  BY <1>3, <1>4, <1>5 DEF RetriesGetTheirTurn, Kept, KeptTurn

(* Both inductive invariants hold in every reachable state.                *)
THEOREM KeptInvariance == Spec => [](Inv /\ Kept)
<1>1. Init => Inv /\ Kept
  BY InitInv, InitKept
<1>2. (Inv /\ Kept) /\ [Next]_vars => (Inv /\ Kept)'
  BY NextInv, NextKept
<1>. QED
  BY <1>1, <1>2, PTL DEF Spec

(* The queue, its retries, the jobs, the records and the candidates of     *)
(* every hash never exceed their limits, whatever is announced.            *)
THEOREM AlwaysBounded == Spec => []Bounded
<1>1. Inv /\ Kept => Bounded
  BY KeptImplies
<1>. QED
  BY <1>1, KeptInvariance, PTL

(* A live retry carries the deadline of its record, and a hash with a      *)
(* record never runs as a fresh one.                                       *)
THEOREM RetriesAlwaysFollowHistory == Spec => []RetriesFollowHistory
<1>1. Inv /\ Kept => RetriesFollowHistory
  BY KeptImplies
<1>. QED
  BY <1>1, KeptInvariance, PTL

(* No record exceeds its budget of failures, and no hash that used its     *)
(* budget up is queued or running while its record lives.                  *)
THEOREM AlwaysWithinRetryBudget == Spec => []WithinRetryBudget
<1>1. Inv /\ Kept => WithinRetryBudget
  BY KeptImplies
<1>. QED
  BY <1>1, KeptInvariance, PTL

(* pop_newest_ready never takes more than FreshPerRetry fresh hashes in a  *)
(* row past a due retry.                                                   *)
THEOREM RetriesAlwaysGetTheirTurn == Spec => []RetriesGetTheirTurn
<1>1. Inv /\ Kept => RetriesGetTheirTurn
  BY KeptImplies
<1>. QED
  BY <1>1, KeptInvariance, PTL

-------------------------------------------------------------------------------
(* The action properties.                                                  *)

(* No step moves the deadline of a record that is kept: an announcement    *)
(* leaves it, and a failure makes a new record only for a hash without.    *)
THEOREM LifetimeAlwaysAbsolute == Spec => LifetimeIsAbsolute
<1>1. ASSUME Inv, Kept, [Next]_vars
      PROVE  \A h \in Remembered(history) \cap Remembered(history') :
                history'.entries[h].expires_at = history.entries[h].expires_at
  <2>1. CASE \E t \in TaskIds : JoinJob(t)
    BY <1>1, <2>1, JoinJobKept
  <2>2. ASSUME NEW event \in Events, RecvHash(event)
        PROVE  history' = history \/ history' = Observed(event)
    BY <2>2 DEF RecvHash, EnqueueInFlight, EnqueueExhausted, EnqueuePending
  <2>3. CASE \E event \in Events : RecvHash(event)
    <3>1. PICK event \in Events : RecvHash(event)
      BY <2>3
    <3>2. now \in Nat /\ HistorySound(history) /\ KeptHistory(history)
      BY <1>1 DEF Inv, ScalarsOK, Kept
    <3>3. event \in Event
      BY <3>2, EventsTyped
    <3>4. \A h \in Remembered(history) \cap Remembered(Observed(event)) :
                Observed(event).entries[h].expires_at = history.entries[h].expires_at
      BY <3>2, <3>3, ObservedLimits
    <3>. QED
      BY <2>2, <3>1, <3>4
  <2>4. CASE InputClosed \/ DispatchTick \/ Maintain \/ LoopStep \/ Shutdown \/ Tick
                \/ UNCHANGED vars
    <3>1. history' = history
      BY <2>4 DEF InputClosed, DispatchTick, Maintain, LoopStep, Dispatch, DispatchIdle,
                  DispatchFull, SyncQueueLen, Publish, Shutdown, Tick, vars
    <3>. QED
      BY <3>1
  <2>5. CASE \E t \in TaskIds : JobAdmit(t) \/ JobEnds(t)
    <3>1. history' = history
      BY <2>5 DEF JobAdmit, JobEnds, JobSkip, JobPanic, JobRetryAfter, JobComplete, JobStep
    <3>. QED
      BY <3>1
  <2>. QED
    BY <1>1, <2>1, <2>3, <2>4, <2>5 DEF Next
<1>2. Inv /\ Kept /\ [Next]_vars =>
        [\A h \in Remembered(history) \cap Remembered(history') :
            history'.entries[h].expires_at = history.entries[h].expires_at]_vars
  BY <1>1
<1>. QED
  BY <1>2, KeptInvariance, PTL DEF Spec, LifetimeIsAbsolute

(* No announcement makes the queue shorter: an eviction always pays for    *)
(* the newcomer, also when its record puts it off at once.                 *)
THEOREM EvictionNeverWasted == Spec => NoWastedEviction
<1>1. ASSUME Inv, Kept, [Next]_vars, received' # received
      PROVE  Cardinality(Queued(q')) >= Cardinality(Queued(q))
  <2>1. PICK event \in Events : RecvHash(event)
    <3>1. CASE InputClosed \/ DispatchTick \/ Maintain \/ LoopStep \/ Shutdown \/ Tick
                  \/ UNCHANGED vars
      BY <1>1, <3>1 DEF InputClosed, DispatchTick, Maintain, LoopStep, Dispatch, DispatchIdle,
                        DispatchFull, SyncQueueLen, Publish, Shutdown, Tick, vars
    <3>2. CASE \E t \in TaskIds : JobAdmit(t) \/ JobEnds(t)
      BY <1>1, <3>2 DEF JobAdmit, JobEnds, JobSkip, JobPanic, JobRetryAfter, JobComplete, JobStep
    <3>3. CASE \E t \in TaskIds : JoinJob(t)
      BY <1>1, <3>3 DEF JoinJob
    <3>. QED
      BY <1>1, <3>1, <3>2, <3>3 DEF Next
  <2>2. now \in Nat /\ Sound(q, now) /\ HistorySound(history) /\ KeptQueue(q, history, now)
    BY <1>1 DEF Inv, ScalarsOK, Kept
  <2>3. event \in Event /\ event.at <= now
    BY <2>2, EventsTyped
  <2>4. Sound(Enqueued(event), now)
    BY <2>2, <2>3, EnqueuedSound, Zenon
  <2>5. \A Q : Sound(Q, now) => Queued(QueuePromote(Q, now)) = Queued(Q)
    BY <2>2, PromoteSound, Zenon
  <2>6. q' = QueuePromote(q, now) \/ q' = QueuePromote(Enqueued(event), now)
    BY <2>1, Zenon DEF RecvHash, EnqueueInFlight, EnqueueExhausted, EnqueuePending, NextTurn
  <2>7. Queued(q') = Queued(q) \/ Queued(q') = Queued(Enqueued(event))
    BY <2>2, <2>4, <2>5, <2>6
  <2>8. Cardinality(Queued(Enqueued(event))) >= Cardinality(Queued(q))
    BY <2>2, <2>3, EnqueuedNotShorter
  <2>9. Cardinality(Queued(q)) \in Nat
    <3>1. Queued(q) \subseteq Hashes
      BY <2>2 DEF Sound, QueueType
    <3>. QED
      BY <3>1, HashSets
  <2>. QED
    BY <2>7, <2>8, <2>9
<1>2. Inv /\ Kept /\ [Next]_vars =>
        [received' # received => Cardinality(Queued(q')) >= Cardinality(Queued(q))]_vars
  BY <1>1
<1>. QED
  BY <1>2, KeptInvariance, PTL DEF Spec, NoWastedEviction

===============================================================================
