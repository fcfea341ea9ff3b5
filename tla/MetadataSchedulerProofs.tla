------------------------ MODULE MetadataSchedulerProofs ------------------------
(***************************************************************************)
(* TypeOK, IndexesAgree and OneOwner hold of the metadata scheduler for    *)
(* every value of its constants.                                           *)
(***************************************************************************)
EXTENDS MetadataScheduler, RetryHistoryProofs

(* The jobs in flight and their tasks, one task per hash.                  *)
JobsOK ==
    /\ Running \subseteq Hashes
    /\ \A h \in Running :
        /\ DOMAIN in_flight[h] = {"scheduled", "entry"}
        /\ in_flight[h].scheduled \subseteq Peers
        /\ EntryType(in_flight[h].entry)
        /\ in_flight[h].entry.hash = h
        /\ in_flight[h].entry.latest_at <= now
    /\ DOMAIN tasks \subseteq TaskIds
    /\ \A t \in DOMAIN tasks : tasks[t] \in Task
    /\ \A t \in DOMAIN tasks : tasks[t].hash \in Running
    /\ \A h \in Running : \E t \in DOMAIN tasks : tasks[t].hash = h
    /\ \A t, u \in DOMAIN tasks : tasks[t].hash = tasks[u].hash => t = u

ScalarsOK ==
    /\ now \in Nat
    /\ pc \in {"dispatch", "sync", "select", "stopped"}
    /\ input_closed \in BOOLEAN
    /\ queue_len \in Nat
    /\ received \in Nat
    /\ reported \subseteq Hashes
    /\ passed_over \in Nat

(* The inductive invariant: the three properties, and that nothing queued  *)
(* or running was sighted in the future, which bounds the ordering keys    *)
(* and so gives every pop a newest one.                                    *)
Inv ==
    /\ ScalarsOK
    /\ Sound(q, now)
    /\ HistorySound(history)
    /\ JobsOK
    /\ Running \cap Queued(q) = {}

(* The inductive invariant gives the three properties.                     *)
LEMMA InvImplies == Inv => TypeOK /\ IndexesAgree /\ OneOwner
<1>. SUFFICES ASSUME Inv PROVE TypeOK /\ IndexesAgree /\ OneOwner
  OBVIOUS
<1>1. TypeOK
  BY DEF Inv, ScalarsOK, JobsOK, Sound, HistorySound, TypeOK
<1>2. IndexesAgree
  BY DEF Inv, Sound, HistorySound, IndexesAgree
<1>3. OneOwner
  BY DEF Inv, JobsOK, OneOwner
<1>. QED
  BY <1>1, <1>2, <1>3

(* The initial state satisfies it.                                         *)
LEMMA InitInv == Init => Inv
<1>. SUFFICES ASSUME Init PROVE Inv
  OBVIOUS
<1>1. ScalarsOK
  BY Zenon DEF Init, ScalarsOK
<1>2. Sound(q, now) /\ Queued(q) = {}
  BY EmptyQueueSound DEF Init
<1>3. HistorySound(history)
  BY EmptyHistorySound DEF Init
<1>4. JobsOK
  BY DEF Init, JobsOK, Running
<1>. QED
  BY <1>1, <1>2, <1>3, <1>4 DEF Inv

-------------------------------------------------------------------------------
(* Facts shared by the actions.                                            *)

(* A select! arm that leaves a sound queue, a sound history and its jobs   *)
(* in order preserves the invariant.                                       *)
LEMMA NextTurnInv ==
    ASSUME ScalarsOK, NEW Q, Sound(Q, now), NEW C \in SUBSET Hashes, NextTurn(Q, C),
           input_closed' \in BOOLEAN, received' \in Nat,
           HistorySound(history'), JobsOK', Running' \cap Queued(Q) = {}
    PROVE  Inv'
<1>1. now' = now /\ now \in Nat /\ q' = QueuePromote(Q, now)
  BY DEF NextTurn, ScalarsOK
<1>2. Sound(QueuePromote(Q, now), now) /\ Queued(QueuePromote(Q, now)) = Queued(Q)
  BY <1>1, PromoteSound, Zenon
<1>3. Sound(q', now') /\ Queued(q') = Queued(Q)
  BY <1>1, <1>2
<1>4. ScalarsOK'
  BY DEF ScalarsOK, NextTurn
<1>. QED
  BY <1>3, <1>4 DEF Inv

(* Removing one hash, in the form the actions use.                         *)
LEMMA RemoveOne ==
    ASSUME NEW Q, NEW n \in Nat, Sound(Q, n), NEW h
    PROVE  Sound(QueueRemove(Q, h), n) /\ Queued(QueueRemove(Q, h)) = Queued(Q) \ {h}
BY RemoveAllSound, Zenon DEF QueueRemove

(* The events of the ingress channel are events, none from the future.     *)
LEMMA EventsTyped ==
    ASSUME now \in Nat, NEW event \in Events
    PROVE  event \in Event /\ event.at <= now /\ event.hash \in Hashes
<1>1. Larger(0, now - IngressLag)..now \subseteq Nat
  BY SchedulerAssumption DEF Larger
<1>2. event.at \in Larger(0, now - IngressLag)..now
  BY DEF Events
<1>3. event.at <= now
  BY <1>2, SchedulerAssumption DEF Larger
<1>. QED
  BY <1>1, <1>3 DEF Events, Event

(* The depths the gauge adds up are numbers.                               *)
LEMMA DepthsTyped ==
    ASSUME NEW Q, NEW n \in Nat, Sound(Q, n), NEW S \in SUBSET Hashes
    PROVE  /\ Cardinality(Queued(Q)) \in Nat
           /\ Cardinality(S) \in Nat
           /\ PressureLen(Q) \in Nat
<1>1. \A T \in SUBSET Hashes : IsFiniteSet(T) /\ Cardinality(T) \in Nat
  BY QueueAssumption, FS_Subset, FS_CardinalityType
<1>2. Queued(Q) \subseteq Hashes
  BY DEF Sound, QueueType
<1>3. ASSUME NEW T \in SUBSET Queued(Q)
      PROVE  Cardinality(ExpiryKeys(Q, T)) \in Nat /\ Cardinality(ReadyKeys(Q, T)) \in Nat
  <2>. DEFINE E == ExpiryKeys(Q, T)
              R == ReadyKeys(Q, T)
              f == [h \in T |-> <<Q.entries[h].expires_at, SequenceOf(Q, h), h>>]
              g == [h \in T |-> <<Q.entries[h].ready_at, SequenceOf(Q, h), h>>]
  <2>1. IsFiniteSet(T)
    BY <1>1, <1>2
  <2>2. f \in Surjection(T, E) /\ g \in Surjection(T, R)
    BY Zenon DEF Surjection, ExpiryKeys, ReadyKeys
  <2>. HIDE DEF E, R, f, g
  <2>3. IsFiniteSet(E) /\ IsFiniteSet(R)
    BY <2>1, <2>2, FS_Surjection
  <2>. QED
    BY <2>3, FS_CardinalityType DEF E, R
<1>4. Cardinality(Q.retry_expiry) \in Nat /\ Cardinality(Q.ready_retry) \in Nat
  <2>1. Retries(Q) \subseteq Queued(Q) /\ Ready(Q) \cap Retries(Q) \subseteq Queued(Q)
    BY DEF Retries, Ready
  <2>2. /\ Q.retry_expiry = ExpiryKeys(Q, Retries(Q))
        /\ Q.ready_retry = ReadyKeys(Q, Ready(Q) \cap Retries(Q))
    BY DEF Sound, Indexed
  <2>. QED
    BY <1>3, <2>1, <2>2
<1>. QED
  BY <1>1, <1>2, <1>4 DEF PressureLen, Larger

(* What enqueue makes of the queue for a hash that may be tried: the push, *)
(* and the deferral of a hash with a record.                               *)
EnqueueOutcome(E, event) ==
    LET U == QueuePush(q, event, now)
        O == Observed(event)
        h == event.hash
    IN  IF h \in Remembered(O) /\ h \in Queued(U)
        THEN DeferOutcome(E, QueueRemove(U, h), U.entries[h], O.entries[h])
        ELSE E = U

(* It is sound, and no other hash has changed.                             *)
LEMMA EnqueuedSound ==
    ASSUME now \in Nat, Sound(q, now), HistorySound(history), NEW event \in Event, event.at <= now
    PROVE  /\ Sound(Enqueued(event), now)
           /\ \A g \in Queued(Enqueued(event)) \ {event.hash} :
                    g \in Queued(q) /\ Enqueued(event).entries[g] = q.entries[g]
           /\ Enqueued(event).fresh_dispatches = q.fresh_dispatches
           /\ EnqueueOutcome(Enqueued(event), event)
<1>. DEFINE U == QueuePush(q, event, now)
            O == Observed(event)
            h == event.hash
            P == QueueRemove(U, h)
            e == U.entries[h]
            r == O.entries[h]
            D == QueueDefer(P, e, r)
<1>1. HistorySound(O)
  <2>1. HistorySound(HistoryExpire(history, now))
    BY HistoryExpireSound, Zenon
  <2>. QED
    BY <2>1, HistoryObserveSound, Zenon DEF Observed
<1>. HIDE DEF O
<1>2. /\ Sound(U, now)
      /\ \A g \in Queued(U) \ {h} : g \in Queued(q) /\ U.entries[g] = q.entries[g]
      /\ U.fresh_dispatches = q.fresh_dispatches
  BY PushSound, Zenon
<1>. HIDE DEF U
<1>3. CASE h \in Remembered(O) /\ h \in Queued(U)
  <2>1. Enqueued(event) = D
    BY <1>3 DEF Enqueued, U, O
  <2>2. EntryType(e) /\ e.hash = h /\ e.latest_at <= now
    BY <1>2, <1>3 DEF Sound, QueueType, Indexed, Sequenced
  <2>3. r.next_due \in Nat /\ r.expires_at \in Nat
    BY <1>1, <1>3 DEF HistorySound, HistoryType, RetryState
  <2>4. /\ Sound(P, now) /\ Queued(P) = Queued(U) \ {h}
        /\ \A g \in Queued(P) : P.entries[g] = U.entries[g]
        /\ P.fresh_dispatches = U.fresh_dispatches
    <3>1. Sound(U, now)
      BY <1>2
    <3>. QED
      BY <3>1, RemoveAllSound, Zenon DEF QueueRemove
  <2>. HIDE DEF P, e, r
  <2>5. EntryType(e) /\ e.latest_at <= now /\ Sound(P, now)
    BY <2>2, <2>4
  <2>6. /\ Sound(D, now)
        /\ \A g \in Queued(D) \ {e.hash} : g \in Queued(P) /\ D.entries[g] = P.entries[g]
        /\ D.fresh_dispatches = P.fresh_dispatches
        /\ DeferOutcome(D, P, e, r)
    BY <2>3, <2>5, DeferSound, Zenon
  <2>. HIDE DEF D
  <2>7. \A g \in Queued(D) \ {h} : g \in Queued(q) /\ D.entries[g] = q.entries[g]
    BY <1>2, <2>2, <2>4, <2>6
  <2>8. EnqueueOutcome(D, event)
    BY <1>3, <2>6 DEF EnqueueOutcome, U, O, P, e, r
  <2>. QED
    BY <1>2, <2>1, <2>4, <2>6, <2>7, <2>8
<1>4. CASE ~(h \in Remembered(O) /\ h \in Queued(U))
  <2>1. Enqueued(event) = U
    BY <1>4 DEF Enqueued, U, O
  <2>2. EnqueueOutcome(U, event)
    BY <1>4 DEF EnqueueOutcome, U, O
  <2>. QED
    BY <1>2, <2>1, <2>2
<1>. QED
  BY <1>3, <1>4

-------------------------------------------------------------------------------
(* The arms of select!.                                                    *)

(* Receiving a hash.                                                       *)
LEMMA RecvHashInv ==
    ASSUME Inv, NEW event \in Events, RecvHash(event)
    PROVE  Inv'
<1>. DEFINE h == event.hash
<1>0. /\ ScalarsOK /\ now \in Nat /\ Sound(q, now) /\ HistorySound(history) /\ JobsOK
      /\ Running \cap Queued(q) = {}
  BY DEF Inv, ScalarsOK
<1>1. event \in Event /\ event.at <= now /\ h \in Hashes
  BY <1>0, EventsTyped
<1>2. tasks' = tasks /\ input_closed' \in BOOLEAN /\ received' \in Nat
  BY <1>0 DEF RecvHash, ScalarsOK
<1>3. HistorySound(Observed(event))
  <2>1. HistorySound(HistoryExpire(history, now))
    BY <1>0, HistoryExpireSound, Zenon
  <2>. QED
    BY <1>0, <1>1, <2>1, HistoryObserveSound, Zenon DEF Observed
<1>4. ASSUME in_flight' = in_flight, now' = now
      PROVE  JobsOK' /\ Running' = Running
  BY <1>0, <1>2, <1>4 DEF JobsOK, Running
<1>5. CASE EnqueueInFlight(event)
  <2>1. h \in Running /\ NextTurn(q, {}) /\ history' = history /\ now' = now
    BY <1>5 DEF EnqueueInFlight, NextTurn
  <2>2. JobsOK' /\ Running' = Running
    <3>1. CASE in_flight' = in_flight
      BY <1>4, <2>1, <3>1
    <3>2. CASE in_flight' # in_flight
      <4>. DEFINE old == in_flight[h].entry
                  m == MergeCandidate(old, event)
                  offers == /\ event.peer # None
                            /\ event.peer \notin in_flight[h].scheduled
                            /\ Cardinality(in_flight[h].scheduled) < MaxCandidates
      <4>0. PICK sent : in_flight' = [in_flight EXCEPT ![h] =
                            [entry |-> m,
                             scheduled |-> IF offers /\ sent
                                           THEN in_flight[h].scheduled \cup {event.peer}
                                           ELSE in_flight[h].scheduled]]
        BY <1>5, <3>2, Zenon DEF EnqueueInFlight
      <4>. DEFINE s == IF offers /\ sent THEN in_flight[h].scheduled \cup {event.peer}
                       ELSE in_flight[h].scheduled
      <4>1. in_flight' = [in_flight EXCEPT ![h] = [entry |-> m, scheduled |-> s]]
        BY <4>0
      <4>2. EntryType(old) /\ old.hash = h /\ old.latest_at <= now
        BY <1>0, <2>1 DEF JobsOK
      <4>. HIDE DEF old
      <4>3. EntryType(m) /\ m.hash = old.hash /\ m.latest_at = Larger(old.latest_at, event.at)
        BY <1>1, <4>2, MergeTyped, Zenon
      <4>. HIDE DEF m
      <4>4. m.latest_at <= now
        BY <1>0, <1>1, <4>2, <4>3 DEF EntryType, Larger, Event
      <4>5. s \subseteq Peers
        BY <1>0, <1>1, <2>1 DEF JobsOK, Event
      <4>. HIDE DEF s
      <4>6. /\ Running' = Running
            /\ in_flight'[h] = [entry |-> m, scheduled |-> s]
            /\ \A g \in Running : g # h => in_flight'[g] = in_flight[g]
        BY <2>1, <4>1 DEF Running
      <4>7. \A g \in Running : /\ DOMAIN in_flight'[g] = {"scheduled", "entry"}
                               /\ in_flight'[g].scheduled \subseteq Peers
                               /\ EntryType(in_flight'[g].entry)
                               /\ in_flight'[g].entry.hash = g
                               /\ in_flight'[g].entry.latest_at <= now
        <5>. TAKE g \in Running
        <5>1. CASE g = h
          BY <4>2, <4>3, <4>4, <4>5, <4>6, <5>1
        <5>2. CASE g # h
          BY <1>0, <4>6, <5>2 DEF JobsOK
        <5>. QED
          BY <5>1, <5>2
      <4>. QED
        BY <1>0, <1>2, <2>1, <4>6, <4>7 DEF JobsOK
    <3>. QED
      BY <3>1, <3>2
  <2>. QED
    BY <1>0, <1>2, <2>1, <2>2, NextTurnInv
<1>6. CASE EnqueueExhausted(event)
  <2>1. /\ NextTurn(q, {}) /\ history' = Observed(event) /\ in_flight' = in_flight
        /\ now' = now
    BY <1>6 DEF EnqueueExhausted, NextTurn
  <2>2. JobsOK' /\ Running' = Running
    BY <1>4, <2>1
  <2>3. HistorySound(history')
    BY <1>3, <2>1
  <2>. QED
    BY <1>0, <1>2, <2>1, <2>2, <2>3, NextTurnInv
<1>7. CASE EnqueuePending(event)
  <2>1. /\ NextTurn(Enqueued(event), {}) /\ history' = Observed(event)
        /\ in_flight' = in_flight /\ now' = now /\ h \notin Running
    BY <1>7 DEF EnqueuePending, NextTurn
  <2>2. JobsOK' /\ Running' = Running /\ HistorySound(history')
    BY <1>3, <1>4, <2>1
  <2>4. /\ Sound(Enqueued(event), now)
        /\ \A g \in Queued(Enqueued(event)) \ {h} : g \in Queued(q)
    BY <1>0, <1>1, EnqueuedSound, Zenon
  <2>5. Running' \cap Queued(Enqueued(event)) = {}
    BY <1>0, <2>1, <2>2, <2>4
  <2>. QED
    BY <1>0, <1>2, <2>1, <2>2, <2>4, <2>5, NextTurnInv
<1>. QED
  BY <1>5, <1>6, <1>7 DEF RecvHash

(* The outcome of a task can be recorded.                                  *)
LEMMA OutcomeTyped ==
    ASSUME JobsOK, NEW t \in DOMAIN tasks
    PROVE  Failed(tasks[t].outcome) \in BOOLEAN /\ tasks[t].outcome.delay \in Nat
<1>. DEFINE outcome == tasks[t].outcome
<1>1. outcome \in Outcomes \cup {NoOutcome}
  BY DEF JobsOK, Task
<1>. HIDE DEF outcome
<1>2. outcome.delay \in Nat
  <2>1. CASE outcome \in [kind : Statuses \cup {"GateRejected", "JoinError"}, delay : {0}]
    BY <2>1
  <2>2. CASE outcome \in [kind : {"Deferred"}, delay : AdmissionDelays]
    <3>1. outcome.delay \in AdmissionDelays
      BY <2>2
    <3>. QED
      BY <3>1, SchedulerAssumption, Zenon
  <2>3. CASE outcome = NoOutcome
    BY <2>3 DEF NoOutcome
  <2>. QED
    BY <1>1, <2>1, <2>2, <2>3 DEF Outcomes
<1>3. Failed(outcome) \in BOOLEAN
  BY DEF Failed
<1>. QED
  BY <1>2, <1>3 DEF outcome

(* Joining a finished task: its hash leaves in_flight with it, and only    *)
(* then may the retry queue the hash again.                                *)
LEMMA JoinJobInv ==
    ASSUME Inv, NEW t \in TaskIds, JoinJob(t)
    PROVE  Inv'
<1>. DEFINE h == tasks[t].hash
            outcome == tasks[t].outcome
            entry == in_flight[h].entry
            rest == QueueRemove(q, h)
            completions == IF outcome.kind \in {"GateRejected", "Deferred"} THEN {} ELSE {h}
            recorded == RetryRecorded(entry, outcome)
<1>0. /\ ScalarsOK /\ now \in Nat /\ Sound(q, now) /\ HistorySound(history) /\ JobsOK
      /\ Running \cap Queued(q) = {}
  BY DEF Inv, ScalarsOK
<1>1. t \in DOMAIN tasks /\ h \in Running /\ h \in Hashes
  BY <1>0 DEF JoinJob, JobsOK
<1>2. /\ HandleJobResult(h, outcome)
      /\ tasks' = Restrict(tasks, DOMAIN tasks \ {t})
      /\ input_closed' \in BOOLEAN /\ received' \in Nat
  BY <1>0, <1>1 DEF JoinJob, ScalarsOK
<1>3. in_flight' = Restrict(in_flight, Running \ {h}) /\ now' = now
  BY <1>2 DEF HandleJobResult, NextTurn
<1>4. JobsOK' /\ Running' = Running \ {h}
  <2>1. /\ Running' = Running \ {h}
        /\ \A g \in Running' : in_flight'[g] = in_flight[g]
    BY <1>3 DEF Restrict, Running
  <2>2. /\ DOMAIN tasks' = DOMAIN tasks \ {t}
        /\ \A u \in DOMAIN tasks' : tasks'[u] = tasks[u]
    BY <1>2 DEF Restrict
  <2>3. \A u \in DOMAIN tasks' : tasks'[u].hash \in Running'
    BY <1>0, <1>1, <2>1, <2>2 DEF JobsOK
  <2>4. \A g \in Running' : \E u \in DOMAIN tasks' : tasks'[u].hash = g
    <3>1. \A g \in Running : \E u \in DOMAIN tasks : tasks[u].hash = g
      BY <1>0 DEF JobsOK
    <3>. QED
      BY <2>1, <2>2, <3>1
  <2>5. \A g \in Running' : /\ DOMAIN in_flight'[g] = {"scheduled", "entry"}
                            /\ in_flight'[g].scheduled \subseteq Peers
                            /\ EntryType(in_flight'[g].entry)
                            /\ in_flight'[g].entry.hash = g
                            /\ in_flight'[g].entry.latest_at <= now'
    BY <1>0, <1>3, <2>1, ZenonT(60) DEF JobsOK
  <2>6. /\ \A u \in DOMAIN tasks' : tasks'[u] \in Task
        /\ \A u, v \in DOMAIN tasks' : tasks'[u].hash = tasks'[v].hash => u = v
        /\ DOMAIN tasks' \subseteq TaskIds
        /\ Running' \subseteq Hashes
    BY <1>0, <2>1, <2>2 DEF JobsOK
  <2>. QED
    BY <2>1, <2>3, <2>4, <2>5, <2>6 DEF JobsOK
<1>5. EntryType(entry) /\ entry.hash = h /\ entry.latest_at <= now
  BY <1>0, <1>1 DEF JobsOK
<1>6. Sound(rest, now) /\ Queued(rest) = Queued(q) \ {h}
  BY <1>0, RemoveOne, Zenon
<1>7. completions \in SUBSET Hashes
  BY <1>1
<1>8. Failed(outcome) \in BOOLEAN /\ outcome.delay \in Nat
  BY <1>0, <1>1, OutcomeTyped
<1>9. HistorySound(recorded)
  <2>. DEFINE live == HistoryExpire(history, now)
              noted == HistoryRecord(live, entry.hash, now, Failed(outcome), outcome.delay)
  <2>1. HistorySound(live)
    BY <1>0, HistoryExpireSound, Zenon
  <2>2. recorded = IF CanRecord(live, entry.hash) THEN HistoryRemember(noted, entry) ELSE live
    BY DEF RetryRecorded
  <2>. HIDE DEF live, recorded, entry, outcome
  <2>3. HistorySound(noted)
    BY <1>0, <1>1, <1>5, <1>8, <2>1, RecordSound, Zenon
  <2>. HIDE DEF noted
  <2>4. HistorySound(HistoryRemember(noted, entry))
    BY <1>5, <2>3, RememberSound, Zenon
  <2>. QED
    BY <2>1, <2>2, <2>4
<1>10. /\ Sound(Rescheduled(rest, entry, recorded), now)
       /\ Queued(Rescheduled(rest, entry, recorded)) \subseteq Queued(q) \cup {h}
  <2>. DEFINE r == recorded.entries[entry.hash]
  <2>1. CASE ~Retriable(recorded, entry.hash)
    <3>1. Rescheduled(rest, entry, recorded) = rest
      BY <2>1 DEF Rescheduled
    <3>. QED
      BY <1>6, <3>1
  <2>2. CASE Retriable(recorded, entry.hash)
    <3>1. Rescheduled(rest, entry, recorded) = QueueDefer(rest, entry, r)
      BY <2>2 DEF Rescheduled
    <3>2. r.next_due \in Nat /\ r.expires_at \in Nat
      BY <1>9, <2>2, ZenonT(60) DEF Retriable, HistorySound, HistoryType, RetryState
    <3>. HIDE DEF rest, entry, r
    <3>3. /\ Sound(QueueDefer(rest, entry, r), now)
          /\ \A g \in Queued(QueueDefer(rest, entry, r)) \ {entry.hash} : g \in Queued(rest)
      BY <1>0, <1>5, <1>6, <3>2, DeferSound, Zenon
    <3>. QED
      BY <1>5, <1>6, <3>1, <3>3
  <2>. QED
    BY <2>1, <2>2, ZenonT(60)
<1>11. HistorySound(HistoryRemove(history, h))
  BY <1>0, HistoryRemoveSound, Zenon
<1>12. \/ NextTurn(rest, completions) /\ history' = HistoryRemove(history, h)
       \/ NextTurn(rest, completions) /\ history' = history
       \/ /\ NextTurn(Rescheduled(rest, entry, recorded), completions)
          /\ history' = recorded
  BY <1>2, ZenonT(60) DEF HandleJobResult
<1>. HIDE DEF h, outcome, entry, rest, completions, recorded
<1>13. CASE NextTurn(rest, completions) /\ (history' = HistoryRemove(history, h)
                                                \/ history' = history)
  <2>1. HistorySound(history') /\ Running' \cap Queued(rest) = {}
    BY <1>0, <1>4, <1>6, <1>11, <1>13
  <2>. QED
    BY <1>0, <1>2, <1>4, <1>6, <1>7, <1>13, <2>1, NextTurnInv
<1>14. CASE NextTurn(Rescheduled(rest, entry, recorded), completions) /\ history' = recorded
  <2>1. HistorySound(history') /\ Running' \cap Queued(Rescheduled(rest, entry, recorded)) = {}
    BY <1>0, <1>4, <1>9, <1>10, <1>14
  <2>. QED
    BY <1>0, <1>2, <1>4, <1>7, <1>10, <1>14, <2>1, NextTurnInv
<1>. QED
  BY <1>12, <1>13, <1>14

(* The other arms only turn the loop, over the queue or what expiry leaves *)
(* of it.                                                                  *)
LEMMA TurnInv ==
    ASSUME Inv, InputClosed \/ DispatchTick \/ Maintain
    PROVE  Inv'
<1>0. /\ ScalarsOK /\ now \in Nat /\ Sound(q, now) /\ HistorySound(history) /\ JobsOK
      /\ Running \cap Queued(q) = {}
  BY DEF Inv, ScalarsOK
<1>1. /\ history' = history /\ in_flight' = in_flight /\ tasks' = tasks /\ now' = now
      /\ input_closed' \in BOOLEAN /\ received' \in Nat
  BY <1>0, Zenon DEF InputClosed, DispatchTick, Maintain, NextTurn, ScalarsOK
<1>2. JobsOK' /\ Running' = Running /\ HistorySound(history')
  BY <1>0, <1>1 DEF JobsOK, Running
<1>3. NextTurn(q, {}) \/ NextTurn(QueueExpire(q, now), {})
  BY DEF InputClosed, DispatchTick, Maintain
<1>4. /\ Sound(QueueExpire(q, now), now)
      /\ Queued(QueueExpire(q, now)) = Queued(q) \ ExpiredHashes(q, now)
  BY <1>0, RemoveAllSound, Zenon DEF QueueExpire
<1>5. /\ Running' \cap Queued(q) = {}
      /\ Running' \cap Queued(QueueExpire(q, now)) = {}
  BY <1>0, <1>2, <1>4
<1>. QED
  BY <1>0, <1>1, <1>2, <1>3, <1>4, <1>5, NextTurnInv

-------------------------------------------------------------------------------
(* Dispatching.                                                            *)

(* A popped hash leaves the queue before it runs, and its task takes an    *)
(* unused slot.                                                            *)
LEMMA DispatchInv ==
    ASSUME Inv, Dispatch
    PROVE  Inv'
<1>. DEFINE p == Poppable(q, now)
            c == Popped(p)
            popped == p.entries[c]
            peers == FreshPeers(popped)
            entry == [popped EXCEPT !.peers = peers]
<1>0. /\ ScalarsOK /\ now \in Nat /\ Sound(q, now) /\ HistorySound(history) /\ JobsOK
      /\ Running \cap Queued(q) = {}
  BY DEF Inv, ScalarsOK
<1>1. /\ Sound(p, now) /\ Queued(p) \subseteq Queued(q)
      /\ c # None => c \in Queued(p)
      /\ Sound(AfterPop(p), now) /\ Queued(AfterPop(p)) = Queued(p) \ {c}
  <2>1. PopOutcome(q, p, now)
    BY <1>0, PopSound, Zenon
  <2>. QED
    BY <2>1 DEF PopOutcome
<1>2. /\ c # None /\ HasRoom
      /\ q' = AfterPop(p)
      /\ passed_over' \in Nat
      /\ now' = now /\ pc' = pc /\ history' = history
      /\ input_closed' = input_closed /\ queue_len' = queue_len
      /\ received' = received /\ reported' = reported
  BY <1>0 DEF Dispatch, Candidate, PopNext, ScalarsOK
<1>3. \/ in_flight' = in_flight /\ tasks' = tasks
      \/ SpawnJob(entry)
  BY DEF Dispatch, Candidate
<1>. HIDE DEF p, c
<1>4. ScalarsOK' /\ Sound(q', now') /\ HistorySound(history')
  BY <1>0, <1>1, <1>2 DEF ScalarsOK
<1>5. c \in Queued(q) /\ c \notin Queued(q') /\ Queued(q') \subseteq Queued(q) /\ c \notin Running
  BY <1>0, <1>1, <1>2
<1>6. CASE in_flight' = in_flight /\ tasks' = tasks
  <2>1. JobsOK' /\ Running' = Running
    BY <1>0, <1>2, <1>6 DEF JobsOK, Running
  <2>. QED
    BY <1>0, <1>4, <1>5, <2>1 DEF Inv
<1>7. CASE SpawnJob(entry)
  <2>1. EntryType(popped) /\ popped.hash = c /\ popped.latest_at <= now /\ c \in Hashes
    BY <1>1, <1>2, ZenonT(60) DEF Sound, QueueType, Indexed, Sequenced
  <2>. HIDE DEF popped
  <2>2. DOMAIN peers \subseteq Peers /\ \A x \in DOMAIN peers : peers[x] \in Nat
    BY <2>1 DEF FreshPeers, Restrict, EntryType
  <2>. HIDE DEF peers
  <2>3. EntryType(entry) /\ entry.hash = c /\ entry.latest_at <= now /\ DOMAIN entry.peers \subseteq Peers
    BY <2>1, <2>2 DEF EntryType
  <2>. HIDE DEF entry
  <2>. DEFINE id == CHOOSE t \in TaskIds \ DOMAIN tasks : TRUE
              state == [scheduled |-> DOMAIN entry.peers, entry |-> entry]
              task == [hash |-> c, state |-> "gate", outcome |-> NoOutcome]
  <2>4. id \in TaskIds /\ id \notin DOMAIN tasks
    <3>1. IsFiniteSet(TaskIds) /\ Cardinality(TaskIds) = MaxConcurrent
      BY SchedulerAssumption, FS_Interval DEF TaskIds
    <3>2. DOMAIN tasks # TaskIds
      BY <1>2, <3>1, SchedulerAssumption DEF HasRoom
    <3>3. \E t \in TaskIds : t \notin DOMAIN tasks
      BY <1>0, <3>2 DEF JobsOK
    <3>. QED
      BY <3>3
  <2>5. in_flight' = With(in_flight, c, state) /\ tasks' = With(tasks, id, task)
    BY <1>7, <2>3 DEF SpawnJob
  <2>. HIDE DEF id
  <2>6. task \in Task
    BY <2>1 DEF Task
  <2>7. /\ Running' = Running \cup {c}
        /\ in_flight'[c] = state
        /\ \A g \in Running : in_flight'[g] = in_flight[g]
    BY <1>5, <2>5 DEF With, Running
  <2>8. /\ DOMAIN tasks' = DOMAIN tasks \cup {id}
        /\ tasks'[id] = task
        /\ \A t \in DOMAIN tasks : tasks'[t] = tasks[t]
    BY <2>4, <2>5 DEF With
  <2>9. task.hash = c
    OBVIOUS
  <2>10. /\ DOMAIN state = {"scheduled", "entry"}
         /\ state.scheduled \subseteq Peers
         /\ state.entry = entry
    BY <2>3
  <2>. HIDE DEF state, task
  <2>11. \A g \in Running' : /\ DOMAIN in_flight'[g] = {"scheduled", "entry"}
                             /\ in_flight'[g].scheduled \subseteq Peers
                             /\ EntryType(in_flight'[g].entry)
                             /\ in_flight'[g].entry.hash = g
                             /\ in_flight'[g].entry.latest_at <= now'
    <3>. TAKE g \in Running'
    <3>1. CASE g = c
      BY <1>2, <2>3, <2>7, <2>10, <3>1
    <3>2. CASE g # c
      BY <1>0, <1>2, <2>7, <3>2 DEF JobsOK
    <3>. QED
      BY <3>1, <3>2
  <2>12. /\ Running' \subseteq Hashes
         /\ DOMAIN tasks' \subseteq TaskIds
         /\ \A t \in DOMAIN tasks' : tasks'[t] \in Task /\ tasks'[t].hash \in Running'
    BY <1>0, <2>1, <2>4, <2>6, <2>7, <2>8, <2>9 DEF JobsOK
  <2>13. \A g \in Running' : \E t \in DOMAIN tasks' : tasks'[t].hash = g
    <3>1. \A g \in Running : \E t \in DOMAIN tasks : tasks[t].hash = g
      BY <1>0 DEF JobsOK
    <3>. QED
      BY <2>7, <2>8, <2>9, <3>1
  <2>14. \A t, u \in DOMAIN tasks' : tasks'[t].hash = tasks'[u].hash => t = u
    <3>1. /\ \A t \in DOMAIN tasks : tasks[t].hash \in Running
          /\ \A t, u \in DOMAIN tasks : tasks[t].hash = tasks[u].hash => t = u
      BY <1>0 DEF JobsOK
    <3>. QED
      BY <1>5, <2>8, <2>9, <3>1
  <2>15. JobsOK'
    BY <2>11, <2>12, <2>13, <2>14 DEF JobsOK
  <2>. QED
    BY <1>0, <1>4, <1>5, <2>7, <2>15 DEF Inv
<1>. QED
  BY <1>3, <1>6, <1>7

(* The end of the dispatch loop and the two stores of the gauge.           *)
LEMMA GaugeInv ==
    ASSUME Inv, DispatchIdle \/ DispatchFull \/ Publish
    PROVE  Inv'
<1>. DEFINE p == Poppable(q, now)
<1>0. /\ ScalarsOK /\ now \in Nat /\ Sound(q, now) /\ HistorySound(history) /\ JobsOK
      /\ Running \cap Queued(q) = {} /\ Running \subseteq Hashes
  BY DEF Inv, ScalarsOK, JobsOK
<1>1. /\ Queued(p) \subseteq Queued(q)
      /\ Sound(AfterPop(p), now) /\ Queued(AfterPop(p)) = Queued(p) \ {Popped(p)}
  <2>1. PopOutcome(q, p, now)
    BY <1>0, PopSound, Zenon
  <2>. QED
    BY <2>1 DEF PopOutcome
<1>2. /\ history' = history /\ in_flight' = in_flight /\ tasks' = tasks /\ now' = now
      /\ input_closed' = input_closed /\ received' = received /\ reported' = reported
  BY DEF DispatchIdle, DispatchFull, Publish, SyncQueueLen
<1>3. /\ q' = q \/ q' = AfterPop(p)
      /\ passed_over' \in {0, passed_over, passed_over + 1}
  BY Zenon DEF DispatchIdle, DispatchFull, Publish, PopNext
<1>. HIDE DEF p
<1>4. Sound(q', now') /\ Queued(q') \subseteq Queued(q)
  BY <1>0, <1>1, <1>2, <1>3
<1>5. queue_len' \in Nat
  <2>1. /\ Cardinality(Queued(q)) \in Nat /\ PressureLen(q) \in Nat
        /\ Cardinality(Running) \in Nat
    BY <1>0, DepthsTyped
  <2>2. Cardinality(Queued(q')) \in Nat
    BY <1>0, <1>2, <1>4, DepthsTyped
  <2>. QED
    BY <2>1, <2>2 DEF DispatchIdle, DispatchFull, Publish, SyncQueueLen
<1>6. pc' \in {"dispatch", "sync", "select", "stopped"}
  BY DEF DispatchIdle, DispatchFull, Publish, SyncQueueLen
<1>7. ScalarsOK'
  <2>1. passed_over' \in Nat
    BY <1>0, <1>3 DEF ScalarsOK
  <2>. QED
    BY <1>0, <1>2, <1>5, <1>6, <2>1 DEF ScalarsOK
<1>8. JobsOK' /\ Running' = Running
  BY <1>0, <1>2, Zenon DEF JobsOK, Running
<1>. QED
  BY <1>0, <1>2, <1>4, <1>7, <1>8 DEF Inv

-------------------------------------------------------------------------------
(* Jobs, the clock and cancellation.                                       *)

(* A job's own steps change its task's progress, not whose task it is.     *)
LEMMA JobStepInv ==
    ASSUME Inv, NEW t \in TaskIds, NEW from, NEW state \in {"fetch", "done"},
           NEW outcome \in Outcomes \cup {NoOutcome}, JobStep(t, from, state, outcome)
    PROVE  Inv'
<1>0. /\ ScalarsOK /\ now \in Nat /\ Sound(q, now) /\ HistorySound(history) /\ JobsOK
      /\ Running \cap Queued(q) = {}
  BY DEF Inv, ScalarsOK
<1>2. /\ t \in DOMAIN tasks
      /\ tasks' = [tasks EXCEPT ![t].state = state, ![t].outcome = outcome]
      /\ now' = now /\ pc' = pc /\ q' = q /\ history' = history /\ in_flight' = in_flight
      /\ input_closed' = input_closed /\ queue_len' = queue_len /\ received' = received
      /\ reported' = reported /\ passed_over' = passed_over
  BY DEF JobStep
<1>3. /\ DOMAIN tasks' = DOMAIN tasks
      /\ tasks'[t] = [tasks[t] EXCEPT !.state = state, !.outcome = outcome]
      /\ \A u \in DOMAIN tasks : u # t => tasks'[u] = tasks[u]
  BY <1>2
<1>4. tasks'[t] \in Task /\ tasks'[t].hash = tasks[t].hash
  BY <1>0, <1>2, <1>3 DEF JobsOK, Task
<1>5. \A u \in DOMAIN tasks : tasks'[u] \in Task /\ tasks'[u].hash = tasks[u].hash
  BY <1>0, <1>3, <1>4, ZenonT(60) DEF JobsOK
<1>6. Running' = Running
  BY <1>2 DEF Running
<1>7. JobsOK'
  <2>1. /\ DOMAIN tasks' \subseteq TaskIds
        /\ \A u \in DOMAIN tasks' : tasks'[u] \in Task /\ tasks'[u].hash \in Running'
        /\ \A u, v \in DOMAIN tasks' : tasks'[u].hash = tasks'[v].hash => u = v
    BY <1>0, <1>3, <1>5, <1>6 DEF JobsOK
  <2>2. \A h \in Running' : \E u \in DOMAIN tasks' : tasks'[u].hash = h
    BY <1>0, <1>3, <1>5, <1>6 DEF JobsOK
  <2>. QED
    BY <1>0, <1>2, <1>6, <2>1, <2>2 DEF JobsOK
<1>. QED
  BY <1>0, <1>2, <1>6, <1>7 DEF Inv, ScalarsOK

(* Admission, and every way a job can end, is such a step.                 *)
LEMMA JobInv ==
    ASSUME Inv, NEW t \in TaskIds, JobAdmit(t) \/ JobEnds(t)
    PROVE  Inv'
<1>1. /\ Ended("GateRejected", 0) \in Outcomes
      /\ Ended("JoinError", 0) \in Outcomes
      /\ \A delay \in AdmissionDelays : Ended("Deferred", delay) \in Outcomes
      /\ \A status \in Statuses : Ended(status, 0) \in Outcomes
  BY DEF Ended, Outcomes
<1>2. CASE JobAdmit(t)
  BY <1>2, JobStepInv DEF JobAdmit
<1>3. CASE JobSkip(t)
  BY <1>1, <1>3, JobStepInv DEF JobSkip
<1>4. CASE JobPanic(t)
  BY <1>1, <1>4, JobStepInv DEF JobPanic
<1>5. ASSUME NEW delay \in AdmissionDelays, JobRetryAfter(t, delay) PROVE Inv'
  BY <1>1, <1>5, JobStepInv DEF JobRetryAfter
<1>6. ASSUME NEW status \in Statuses, JobComplete(t, status) PROVE Inv'
  BY <1>1, <1>6, JobStepInv DEF JobComplete
<1>. QED
  BY <1>2, <1>3, <1>4, <1>5, <1>6 DEF JobEnds

(* Time only makes sightings older.                                        *)
LEMMA TickInv ==
    ASSUME Inv, Tick
    PROVE  Inv'
<1>0. /\ ScalarsOK /\ now \in Nat /\ Sound(q, now) /\ JobsOK
  BY DEF Inv, ScalarsOK
<1>1. /\ now' = now + 1 /\ q' = q /\ in_flight' = in_flight /\ tasks' = tasks
      /\ pc' = pc /\ history' = history /\ input_closed' = input_closed
      /\ queue_len' = queue_len /\ received' = received /\ reported' = reported
      /\ passed_over' = passed_over
  BY DEF Tick
<1>2. Sound(q, now + 1)
  <2>1. QueueType(q) /\ Indexed(q)
    BY <1>0 DEF Sound
  <2>2. \A h \in Queued(q) : EntryType(q.entries[h])
    BY <2>1 DEF QueueType
  <2>3. \A h \in Queued(q) : q.entries[h].order_key[1] <= now /\ q.entries[h].latest_at <= now
    BY <1>0 DEF Sound
  <2>4. ASSUME NEW h \in Queued(q)
        PROVE  q.entries[h].order_key[1] <= now + 1 /\ q.entries[h].latest_at <= now + 1
    <3>1. q.entries[h].order_key[1] \in Nat /\ q.entries[h].latest_at \in Nat
      BY <2>2 DEF EntryType
    <3>. QED
      BY <1>0, <2>3, <3>1
  <2>. QED
    BY <2>1, <2>4, Zenon DEF Sound
<1>3. JobsOK' /\ Running' = Running
  <2>1. ASSUME NEW h \in Running
        PROVE  in_flight[h].entry.latest_at <= now + 1
    <3>1. EntryType(in_flight[h].entry) /\ in_flight[h].entry.latest_at <= now
      BY <1>0 DEF JobsOK
    <3>2. in_flight[h].entry.latest_at \in Nat
      BY <3>1 DEF EntryType
    <3>. QED
      BY <1>0, <3>1, <3>2
  <2>. QED
    BY <1>0, <1>1, <2>1 DEF JobsOK, Running
<1>. QED
  BY <1>0, <1>1, <1>2, <1>3 DEF Inv, ScalarsOK

(* Cancellation aborts and joins every job.                                *)
LEMMA ShutdownInv ==
    ASSUME Inv, Shutdown
    PROVE  Inv'
<1>1. Running' = {} /\ DOMAIN tasks' = {}
  BY DEF Shutdown, Running
<1>2. JobsOK'
  BY <1>1 DEF JobsOK
<1>3. ScalarsOK'
  BY DEF Shutdown, Inv, ScalarsOK
<1>. QED
  BY <1>1, <1>2, <1>3 DEF Inv, Shutdown

-------------------------------------------------------------------------------
(* The invariant and the properties.                                       *)

(* Every step of the actor, its jobs or the clock preserves the invariant. *)
LEMMA NextInv == Inv /\ [Next]_vars => Inv'
<1>. SUFFICES ASSUME Inv, [Next]_vars PROVE Inv'
  OBVIOUS
<1>1. CASE \E event \in Events : RecvHash(event)
  BY <1>1, RecvHashInv
<1>2. CASE \E t \in TaskIds : JoinJob(t)
  BY <1>2, JoinJobInv
<1>3. CASE InputClosed \/ DispatchTick \/ Maintain
  BY <1>3, TurnInv
<1>4. CASE Dispatch
  BY <1>4, DispatchInv
<1>5. CASE DispatchIdle \/ DispatchFull \/ Publish
  BY <1>5, GaugeInv
<1>6. CASE \E t \in TaskIds : JobAdmit(t) \/ JobEnds(t)
  BY <1>6, JobInv
<1>7. CASE Tick
  BY <1>7, TickInv
<1>8. CASE Shutdown
  BY <1>8, ShutdownInv
<1>9. CASE UNCHANGED vars
  BY <1>9, Zenon DEF vars, Inv, ScalarsOK, JobsOK, Running
<1>. QED
  BY <1>1, <1>2, <1>3, <1>4, <1>5, <1>6, <1>7, <1>8, <1>9 DEF Next, LoopStep

(* The inductive invariant holds in every reachable state of the actor.    *)
THEOREM Invariance == Spec => []Inv
BY InitInv, NextInv, PTL DEF Spec

(* The state of the metadata scheduler always has its type.                *)
THEOREM TypeCorrect == Spec => []TypeOK
BY Invariance, InvImplies, PTL

(* The ordered indexes of the pending queue and the expiry order of the    *)
(* retry history always agree with their entries.                          *)
THEOREM IndexesAlwaysAgree == Spec => []IndexesAgree
BY Invariance, InvImplies, PTL

(* No hash is ever both queued and running, or run by two tasks.           *)
THEOREM OneOwnerAlways == Spec => []OneOwner
BY Invariance, InvImplies, PTL

===============================================================================
