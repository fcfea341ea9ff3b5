--------------------------- MODULE MetadataScheduler ---------------------------
(***************************************************************************)
(* The metadata scheduler actor (src/src/scheduler.rs): one loop that owns *)
(* the pending queue, the retry history and the jobs in flight, and job    *)
(* tasks that run beside it.  One step of the loop is one select! arm      *)
(* (then the promote_ready that opens the next dispatch_ready), one turn   *)
(* of the dispatch loop, or one store of the shared depth gauge.           *)
(*                                                                         *)
(* What a job does between admission and its result (race_peer_fetches) is *)
(* abstract here: it ends with some outcome, and may close its live-peer   *)
(* channel at any time before that.                                        *)
(***************************************************************************)
EXTENDS RetryHistory

CONSTANTS
    MaxConcurrent,    \* max_concurrent, after max(1)
    LookupEnabled,    \* whether peer_lookup_tx is present
    AdmissionDelays,  \* the delays RetryAfter may ask for
    IngressLag,       \* bound: how long an event waits in the ingress channel
    MaxEvents,        \* bound: hashes received
    MaxTime           \* bound: the clock

ASSUME SchedulerAssumption ==
    /\ MaxConcurrent \in Nat \ {0}
    /\ LookupEnabled \in BOOLEAN
    /\ AdmissionDelays \subseteq Nat
    /\ IngressLag \in Nat
    /\ MaxEvents \in Nat
    /\ MaxTime \in Nat

VARIABLES
    now,           \* the monotonic clock
    pc,            \* where the loop is: "dispatch", "sync", "select" or "stopped"
    q,             \* queue
    history,       \* retry_history
    in_flight,     \* hash -> [scheduled, entry]: InFlightState
    tasks,         \* the JoinSet with task_hashes: task id -> [hash, state, outcome]
    input_closed,
    queue_len,     \* the gauge shared with the crawl actor
    received,      \* total_received
    reported,      \* completions handed to the callback by the last select! arm
    passed_over    \* fresh hashes popped in a row while a retry was due

vars == <<now, pc, q, history, in_flight, tasks, input_closed, queue_len, received,
          reported, passed_over>>

TaskIds == 1..MaxConcurrent

Statuses == {"Accepted", "FetchFailed", "DeliveryRejected"}

Outcomes ==
    [kind : Statuses \cup {"GateRejected", "JoinError"}, delay : {0}]
        \cup [kind : {"Deferred"}, delay : AdmissionDelays]

NoOutcome == [kind |-> "Running", delay |-> 0]

Task ==
    [hash : Hashes, state : {"gate", "fetch", "done"}, outcome : Outcomes \cup {NoOutcome}]

Init ==
    /\ now = 0
    /\ pc = "dispatch"
    /\ q = EmptyQueue
    /\ history = EmptyHistory
    /\ in_flight = [h \in {} |-> 0]
    /\ tasks = [t \in {} |-> 0]
    /\ input_closed = FALSE
    /\ queue_len = 0
    /\ received = 0
    /\ reported = {}
    /\ passed_over = 0

Running == DOMAIN in_flight

-------------------------------------------------------------------------------
(* The end of a select! arm: the loop turns and promotes what is due.      *)

NextTurn(queue, completions) ==
    /\ q' = QueuePromote(queue, now)
    /\ reported' = completions
    /\ pc' = "dispatch"
    /\ UNCHANGED <<now, queue_len, passed_over>>

(* enqueue, for a hash in flight: its entry learns the candidate, and a    *)
(* peer the job has not seen is offered to it (try_send, which fails once  *)
(* the job has closed or dropped its receiver).                            *)
SendResults(hash) ==
    LET in(states) == \E t \in DOMAIN tasks : tasks[t].hash = hash /\ tasks[t].state \in states
    IN  {sent \in BOOLEAN : IF sent THEN in({"gate", "fetch"}) ELSE ~in({"gate"})}

EnqueueInFlight(event) ==
    /\ event.hash \in Running
    /\ LET state  == in_flight[event.hash]
           offers == /\ event.peer # None
                     /\ event.peer \notin state.scheduled
                     /\ Cardinality(state.scheduled) < MaxCandidates
       IN  IF IsStale(event, now) THEN UNCHANGED in_flight
           ELSE \E sent \in SendResults(event.hash) :
                    in_flight' = [in_flight EXCEPT ![event.hash] =
                        [entry |-> MergeCandidate(state.entry, event),
                         scheduled |-> IF offers /\ sent
                                       THEN state.scheduled \cup {event.peer}
                                       ELSE state.scheduled]]
    /\ NextTurn(q, {})
    /\ UNCHANGED history

(* enqueue, for a hash not in flight: an exhausted one is refused, one     *)
(* with a record is pushed and put off to the record's due time, another   *)
(* is pushed.                                                              *)
Observed(event) == HistoryObserve(HistoryExpire(history, now), event, now)

Refused(event) ==
    /\ event.hash \in Remembered(Observed(event))
    /\ Exhausted(Observed(event).entries[event.hash])

EnqueueExhausted(event) ==
    /\ event.hash \notin Running
    /\ Refused(event)
    /\ history' = Observed(event)
    /\ NextTurn(q, {})
    /\ UNCHANGED in_flight

(* Mutant of Enqueued: the record of a pushed hash is ignored.             *)
EnqueuedFresh(event) == QueuePush(q, event, now)

Enqueued(event) ==
    LET pushed == QueuePush(q, event, now)
    IN  IF event.hash \in Remembered(Observed(event)) /\ event.hash \in Queued(pushed)
        THEN QueueDefer(QueueRemove(pushed, event.hash), pushed.entries[event.hash],
                        Observed(event).entries[event.hash])
        ELSE pushed

(* Mutant of EnqueuePending: a hash in flight is queued again.             *)
EnqueueAnyway(event) ==
    /\ ~Refused(event)
    /\ history' = Observed(event)
    /\ NextTurn(Enqueued(event), {})
    /\ UNCHANGED in_flight

EnqueuePending(event) ==
    /\ event.hash \notin Running
    /\ ~Refused(event)
    /\ history' = Observed(event)
    /\ NextTurn(Enqueued(event), {})
    /\ UNCHANGED in_flight

RecvHash(event) ==
    /\ pc = "select"
    /\ ~input_closed
    /\ received < MaxEvents
    /\ received' = received + 1
    /\ \/ EnqueueInFlight(event)
       \/ EnqueueExhausted(event)
       \/ EnqueuePending(event)
    /\ UNCHANGED <<tasks, input_closed>>

InputClosed ==
    /\ pc = "select"
    /\ ~input_closed
    /\ input_closed' = TRUE
    /\ NextTurn(q, {})
    /\ UNCHANGED <<history, in_flight, tasks, received>>

-------------------------------------------------------------------------------
(* handle_job_result: the finished job leaves in_flight; a rejected or an  *)
(* accepted hash is forgotten, any other is retried (schedule_retry); all  *)
(* but a rejection and a deferral are reported.  A job that panicked is    *)
(* handled as a failed fetch.                                              *)

Failed(outcome) == outcome.kind \in {"FetchFailed", "DeliveryRejected", "JoinError"}

(* Mutant of NoRetry: a retry that outlived its history starts another.    *)
NoRetryWhenDisabled(entry) == RetryMaxAttempts = 0

(* schedule_retry's early returns before the history is touched.           *)
NoRetry(entry) ==
    \/ RetryMaxAttempts = 0
    \/ entry.is_retry /\ entry.expires_at <= now

RetryRecorded(entry, outcome) ==
    LET live == HistoryExpire(history, now)
    IN  IF CanRecord(live, entry.hash)
        THEN HistoryRemember(
                HistoryRecord(live, entry.hash, now, Failed(outcome), outcome.delay), entry)
        ELSE live

(* Mutant of Retriable: the failure limit is not looked at.                *)
RetriableBeforeExpiry(recorded, hash) ==
    /\ hash \in Remembered(recorded)
    /\ recorded.entries[hash].next_due < recorded.entries[hash].expires_at

Retriable(recorded, hash) ==
    /\ hash \in Remembered(recorded)
    /\ ~Exhausted(recorded.entries[hash])
    /\ recorded.entries[hash].next_due < recorded.entries[hash].expires_at

Rescheduled(queue, entry, recorded) ==
    IF Retriable(recorded, entry.hash)
    THEN QueueDefer(queue, entry, recorded.entries[entry.hash])
    ELSE queue

Settled(outcome) == outcome.kind \in {"GateRejected", "Accepted"}

HandleJobResult(hash, outcome) ==
    LET entry       == in_flight[hash].entry
        rest        == QueueRemove(q, hash)
        completions == IF outcome.kind \in {"GateRejected", "Deferred"} THEN {} ELSE {hash}
    IN  /\ in_flight' = Restrict(in_flight, Running \ {hash})
        /\ \/ /\ Settled(outcome)
              /\ history' = HistoryRemove(history, hash)
              /\ NextTurn(rest, completions)
           \/ /\ ~Settled(outcome)
              /\ NoRetry(entry)
              /\ NextTurn(rest, completions)
              /\ UNCHANGED history
           \/ /\ ~Settled(outcome)
              /\ ~NoRetry(entry)
              /\ history' = RetryRecorded(entry, outcome)
              /\ NextTurn(Rescheduled(rest, entry, RetryRecorded(entry, outcome)), completions)

(* Mutant of JoinJob: the hash of a job that panicked is not cleaned up.   *)
JoinJobIgnoringPanics(t) ==
    /\ pc = "select"
    /\ t \in DOMAIN tasks
    /\ tasks[t].state = "done"
    /\ tasks' = Restrict(tasks, DOMAIN tasks \ {t})
    /\ IF tasks[t].hash \in Running /\ tasks[t].outcome.kind # "JoinError"
       THEN HandleJobResult(tasks[t].hash, tasks[t].outcome)
       ELSE NextTurn(q, {}) /\ UNCHANGED <<history, in_flight>>
    /\ UNCHANGED <<input_closed, received>>

JoinJob(t) ==
    /\ pc = "select"
    /\ t \in DOMAIN tasks
    /\ tasks[t].state = "done"
    /\ tasks' = Restrict(tasks, DOMAIN tasks \ {t})
    /\ IF tasks[t].hash \in Running
       THEN HandleJobResult(tasks[t].hash, tasks[t].outcome)
       ELSE NextTurn(q, {}) /\ UNCHANGED <<history, in_flight>>
    /\ UNCHANGED <<input_closed, received>>

(* The dispatch and maintenance ticks.                                     *)
DispatchTick ==
    /\ pc = "select"
    /\ NextTurn(q, {})
    /\ UNCHANGED <<history, in_flight, tasks, input_closed, received>>

Maintain ==
    /\ pc = "select"
    /\ NextTurn(QueueExpire(q, now), {})
    /\ UNCHANGED <<history, in_flight, tasks, input_closed, received>>

-------------------------------------------------------------------------------
(* One turn of dispatch_ready's loop: pop, drop peers gone stale, and      *)
(* either drop the hash (nobody to ask) or start its job.                  *)

FreshPeers(entry) ==
    IF entry.is_retry THEN entry.peers
    ELSE Restrict(entry.peers, {p \in DOMAIN entry.peers : now - entry.peers[p] <= Ttl})

HasRoom == Cardinality(DOMAIN tasks) < MaxConcurrent

Candidate == Popped(Poppable(q, now))

PopNext ==
    LET p == Poppable(q, now)
    IN  /\ q' = AfterPop(p)
        /\ passed_over' = IF p.ready_retry = {} \/ UseRetry(p) THEN 0 ELSE passed_over + 1

SpawnJob(entry) ==
    LET id == CHOOSE t \in TaskIds \ DOMAIN tasks : TRUE
    IN  /\ in_flight' = With(in_flight, entry.hash,
                             [scheduled |-> DOMAIN entry.peers, entry |-> entry])
        /\ tasks' = With(tasks, id,
                         [hash |-> entry.hash, state |-> "gate", outcome |-> NoOutcome])

Dispatch ==
    /\ pc = "dispatch"
    /\ HasRoom
    /\ Candidate # None
    /\ PopNext
    /\ LET popped == Poppable(q, now).entries[Candidate]
           entry  == [popped EXCEPT !.peers = FreshPeers(popped)]
       IN  IF DOMAIN entry.peers = {} /\ ~LookupEnabled
           THEN UNCHANGED <<in_flight, tasks>>
           ELSE SpawnJob(entry)
    /\ UNCHANGED <<now, pc, history, input_closed, queue_len, received, reported>>

(* The dispatch loop ends, on an empty pop or with every job slot taken,   *)
(* and sync_queue_len stores the whole depth in the gauge.                 *)
SyncQueueLen(queue) ==
    /\ queue_len' = Cardinality(Queued(queue)) + Cardinality(Running)
    /\ pc' = "sync"
    /\ UNCHANGED <<now, history, in_flight, tasks, input_closed, received, reported>>

DispatchIdle ==
    /\ pc = "dispatch"
    /\ HasRoom
    /\ Candidate = None
    /\ PopNext
    /\ SyncQueueLen(q')

DispatchFull ==
    /\ pc = "dispatch"
    /\ ~HasRoom
    /\ SyncQueueLen(q)
    /\ UNCHANGED <<q, passed_over>>

(* The gauge is overwritten with the runnable depth; the loop ends here    *)
(* once its input is closed and nothing is left.                           *)
Drained == input_closed /\ Queued(q) = {} /\ tasks = [t \in {} |-> 0]

Publish ==
    /\ pc = "sync"
    /\ queue_len' = IF Drained THEN 0 ELSE PressureLen(q) + Cardinality(Running)
    /\ pc' = IF Drained THEN "stopped" ELSE "select"
    /\ UNCHANGED <<now, q, history, in_flight, tasks, input_closed, received, reported,
                   passed_over>>

(* Cancellation: running jobs are aborted and joined, nothing is reported, *)
(* the gauge goes to zero.                                                 *)
Shutdown ==
    /\ pc = "select"
    /\ pc' = "stopped"
    /\ queue_len' = 0
    /\ reported' = {}
    /\ tasks' = [t \in {} |-> 0]
    /\ in_flight' = [h \in {} |-> 0]
    /\ UNCHANGED <<now, q, history, input_closed, received, passed_over>>

-------------------------------------------------------------------------------
(* process_hash, in a task of its own: the admission gate fetches, skips   *)
(* or puts off; the fetch ends with a status; either may panic.            *)

JobStep(t, from, state, outcome) ==
    /\ t \in DOMAIN tasks
    /\ tasks[t].state \in from
    /\ tasks' = [tasks EXCEPT ![t].state = state, ![t].outcome = outcome]
    /\ UNCHANGED <<now, pc, q, history, in_flight, input_closed, queue_len, received,
                   reported, passed_over>>

Ended(kind, delay) == [kind |-> kind, delay |-> delay]

JobAdmit(t) == JobStep(t, {"gate"}, "fetch", NoOutcome)
JobSkip(t) == JobStep(t, {"gate"}, "done", Ended("GateRejected", 0))
JobRetryAfter(t, delay) == JobStep(t, {"gate"}, "done", Ended("Deferred", delay))
JobComplete(t, status) == JobStep(t, {"fetch"}, "done", Ended(status, 0))
JobPanic(t) == JobStep(t, {"gate", "fetch"}, "done", Ended("JoinError", 0))

JobEnds(t) ==
    \/ JobSkip(t)
    \/ JobPanic(t)
    \/ \E delay \in AdmissionDelays : JobRetryAfter(t, delay)
    \/ \E status \in Statuses : JobComplete(t, status)

Tick ==
    /\ pc # "stopped"
    /\ now < MaxTime
    /\ now' = now + 1
    /\ UNCHANGED <<pc, q, history, in_flight, tasks, input_closed, queue_len, received,
                   reported, passed_over>>

(* What the ingress channel can hold: an announcement (a peer, and the     *)
(* node if its id is well formed) or a bare hash (its node only), found    *)
(* now or up to IngressLag earlier.                                        *)
Events ==
    {e \in [hash : Hashes, peer : Peers \cup {None}, source : Nodes \cup {None},
            at : Larger(0, now - IngressLag)..now] :
        e.peer # None \/ e.source # None}

LoopStep ==
    \/ Dispatch
    \/ DispatchIdle
    \/ DispatchFull
    \/ Publish

Next ==
    \/ \E event \in Events : RecvHash(event)
    \/ InputClosed
    \/ \E t \in TaskIds : JoinJob(t)
    \/ DispatchTick
    \/ Maintain
    \/ LoopStep
    \/ Shutdown
    \/ \E t \in TaskIds : JobAdmit(t)
    \/ \E t \in TaskIds : JobEnds(t)
    \/ Tick

Spec == Init /\ [][Next]_vars

-------------------------------------------------------------------------------
(* Properties.                                                             *)

(* The state of the actor has its type.                                    *)
TypeOK ==
    /\ now \in Nat
    /\ pc \in {"dispatch", "sync", "select", "stopped"}
    /\ QueueType(q)
    /\ HistoryType(history)
    /\ Running \subseteq Hashes
    /\ \A h \in Running :
        /\ DOMAIN in_flight[h] = {"scheduled", "entry"}
        /\ in_flight[h].scheduled \subseteq Peers
        /\ EntryType(in_flight[h].entry)
    /\ DOMAIN tasks \subseteq TaskIds
    /\ \A t \in DOMAIN tasks : tasks[t] \in Task
    /\ input_closed \in BOOLEAN
    /\ queue_len \in Nat
    /\ received \in Nat
    /\ reported \subseteq Hashes
    /\ passed_over \in Nat

(* Whatever sequence of pushes, refreshes, deferrals, promotions, pops,    *)
(* evictions and expiries has run, the five ordered indexes of the queue   *)
(* hold exactly one key per hash that belongs in them, and the expiry      *)
(* order of the history exactly one per record: remove and promote_ready   *)
(* never miss a key ("indexed queued hash") and nothing is left behind.    *)
IndexesAgree ==
    /\ Indexed(q)
    /\ HistoryIndexed(history)

(* A hash has one owner: it is queued or in flight, never both, and a hash *)
(* in flight has exactly one job task.  So no hash is fetched twice at     *)
(* once, and every task result finds the state it belongs to.              *)
OneOwner ==
    /\ Running \cap Queued(q) = {}
    /\ \A h \in Running : in_flight[h].entry.hash = h
    /\ \A t \in DOMAIN tasks : tasks[t].hash \in Running
    /\ \A h \in Running : \E t \in DOMAIN tasks : tasks[t].hash = h
    /\ \A t, u \in DOMAIN tasks : tasks[t].hash = tasks[u].hash => t = u

(* Memory stays bounded: the queue by its capacity, cooling retries by a   *)
(* quarter of it, jobs by max_concurrent, records by the history capacity, *)
(* candidates per hash by MAX_METADATA_CANDIDATES_PER_HASH.                *)
Owned == {q.entries[h] : h \in Queued(q)} \cup {in_flight[h].entry : h \in Running}

Bounded ==
    /\ Cardinality(Queued(q)) <= Capacity
    /\ Cardinality(Retries(q)) <= RetryShare
    /\ Cardinality(DOMAIN tasks) <= MaxConcurrent
    /\ Cardinality(Remembered(history)) <= RetryHistoryCapacity
    /\ \A e \in Owned :
        /\ Cardinality(DOMAIN e.peers) <= MaxCandidates
        /\ Len(e.source_nodes) <= MaxSourceNodes

(* A retry that is queued or running and has not outlived its history      *)
(* carries the deadline of the record it was scheduled from; a hash with a *)
(* record never runs as a fresh one.  push, defer, eviction and the lazy   *)
(* expiry of the history keep the two structures in step although neither  *)
(* refers to the other.                                                    *)
RetriesFollowHistory ==
    \A e \in Owned :
        IF e.is_retry
        THEN \/ e.expires_at <= now
             \/ /\ e.hash \in Remembered(history)
                /\ history.entries[e.hash].expires_at = e.expires_at
        ELSE e.hash \notin Remembered(history)

(* The retry budget: a record never counts more failures than its limit,   *)
(* the limit grows by at most two jobs, and a hash that used its budget up *)
(* is neither queued nor running while its record lives.                   *)
WithinRetryBudget ==
    /\ \A h \in Remembered(history) :
        /\ history.entries[h].extra_attempts <= MaxExtraAttempts
        /\ history.entries[h].failures <= AttemptLimit(history.entries[h])
    /\ \A e \in Owned :
        e.hash \in Remembered(history) /\ e.expires_at > now
            => ~Exhausted(history.entries[e.hash])

(* "At most three fresh jobs before one due retry": pop_newest_ready never *)
(* takes more than FreshPerRetry fresh hashes in a row past a due retry.   *)
RetriesGetTheirTurn == passed_over <= FreshPerRetry

(* retry_history_ttl_secs is an absolute lifetime: no failure, deferral or *)
(* repeated announcement moves the deadline of a record that is kept.      *)
LifetimeIsAbsolute ==
    [][\A h \in Remembered(history) \cap Remembered(history') :
          history'.entries[h].expires_at = history.entries[h].expires_at]_vars

(* An announcement never costs the queue a hash without a gain: when push  *)
(* evicts an entry, the newcomer is still queued after the deferral that   *)
(* may follow, so the queue never gets shorter in enqueue.                 *)
NoWastedEviction ==
    [][received' # received => Cardinality(Queued(q')) >= Cardinality(Queued(q))]_vars

(* What retry_max_attempts promises: "Maximum failed jobs per InfoHash     *)
(* during one retry-history lifetime."  The code grants up to two more     *)
(* (observe_event), so this fails.                                         *)
AtMostMaxAttempts ==
    \A h \in Remembered(history) : history.entries[h].failures <= RetryMaxAttempts

(* "Cooling retries consume bounded storage, but are not runnable metadata *)
(* pressure": the gauge the crawl actor reads never counts one.            *)
(* sync_queue_len stores the whole depth just before the pressure is       *)
(* stored, so a reader between the two stores refutes it.                  *)
GaugeIsPressure ==
    pc \in {"sync", "select"} => queue_len <= PressureLen(q) + Cardinality(Running)
===============================================================================
