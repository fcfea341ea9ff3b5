----------------------------- MODULE RetryHistory -----------------------------
(***************************************************************************)
(* The bounded retry history of the metadata scheduler (RetryRecord,       *)
(* RetryState and RetryHistory, src/src/scheduler.rs), as operators on a   *)
(* record with the fields of the struct: what is remembered of each hash   *)
(* that failed or was put off, and the set of <<expires_at, hash>> pairs   *)
(* that orders its expiry.                                                 *)
(*                                                                         *)
(* Left out: the order in which remembered endpoints fill a full memory.   *)
(***************************************************************************)
EXTENDS PendingHashQueue

CONSTANTS
    RetryInitialDelay,     \* retry_initial_delay_secs
    RetryMaxDelay,         \* retry_max_delay_secs
    RetryMaxAttempts,      \* retry_max_attempts
    RetryHistoryTtl,       \* retry_history_ttl_secs
    RetryHistoryCapacity,  \* retry_history_capacity
    MaxExtraAttempts,      \* jobs granted to an exhausted hash for new endpoints, 2
    MinRetryDelay,         \* the 100 ms floor under every retry delay
    MaxRetryLifetime       \* MAX_RETRY_LIFETIME

ASSUME HistoryAssumption ==
    /\ RetryInitialDelay \in Nat
    /\ RetryMaxDelay \in Nat
    /\ RetryMaxAttempts \in Nat
    /\ RetryHistoryTtl \in Nat
    /\ RetryHistoryCapacity \in Nat
    /\ MaxExtraAttempts \in Nat
    /\ MinRetryDelay \in Nat
    /\ MaxRetryLifetime \in Nat

EmptyHistory == [entries |-> [h \in {} |-> 0], expiry |-> {}]

Remembered(history) == DOMAIN history.entries

RetryDeadline(now, delay) == now + Smaller(delay, MaxRetryLifetime)

AttemptLimit(record) == RetryMaxAttempts + record.extra_attempts

Exhausted(record) == record.failures >= AttemptLimit(record)

(* RetryState.observe, for sets of endpoints: new ones are stored while    *)
(* there is room.                                                          *)
Fill(seen, new, capacity) ==
    LET room == Larger(capacity, Cardinality(seen))
        kept == CHOOSE S \in SUBSET new :
                    Cardinality(seen \cup S) = Smaller(Cardinality(seen \cup new), room)
    IN  seen \cup (new \cap kept)

Observe(state, peers, sources) ==
    [state EXCEPT !.peers = Fill(@, peers, MaxCandidates),
                  !.sources = Fill(@, sources, MaxSourceNodes)]

Some(option) == {option} \ {None}

Novel(state, event) ==
    \/ ~(Some(event.peer) \subseteq state.peers)
    \/ ~(Some(event.source) \subseteq state.sources)

HistoryExpire(history, now) ==
    LET gone == {k \in history.expiry : k[1] <= now}
    IN  [entries |-> Restrict(history.entries, Remembered(history) \ {k[2] : k \in gone}),
         expiry  |-> history.expiry \ gone]

HistoryRemove(history, hash) ==
    IF hash \in Remembered(history)
    THEN [entries |-> Restrict(history.entries, Remembered(history) \ {hash}),
          expiry  |-> history.expiry \ {<<history.entries[hash].expires_at, hash>>}]
    ELSE history

-------------------------------------------------------------------------------
(* record: after expiry, the record of hash, made when there is room for   *)
(* one, counts the failure and gets its next due time.                     *)

NewState(now) ==
    [failures |-> 0, extra_attempts |-> 0, next_due |-> now,
     expires_at |-> RetryDeadline(now, RetryHistoryTtl), peers |-> {}, sources |-> {}]

CanRecord(history, hash) ==
    hash \in Remembered(history) \/ Cardinality(Remembered(history)) < RetryHistoryCapacity

FailureBackoff(failures) ==
    Smaller(RetryInitialDelay * 2^Smaller(Larger(failures - 1, 0), 31), RetryMaxDelay)

HistoryRecord(history, hash, now, failed, delay) ==
    LET old      == IF hash \in Remembered(history) THEN history.entries[hash] ELSE NewState(now)
        failures == IF failed THEN old.failures + 1 ELSE old.failures
        backoff  == IF failed THEN FailureBackoff(failures) ELSE delay
        state    == [old EXCEPT
                        !.failures = failures,
                        !.next_due = RetryDeadline(now, Larger(backoff, MinRetryDelay))]
    IN  [entries |-> With(history.entries, hash, state),
         expiry  |-> history.expiry \cup {<<state.expires_at, hash>>}]

(* remember: every endpoint of an entry is observed.                       *)
HistoryRemember(history, entry) ==
    IF entry.hash \in Remembered(history)
    THEN [history EXCEPT !.entries[entry.hash] =
            Observe(@, DOMAIN entry.peers,
                    {entry.source_nodes[i] : i \in DOMAIN entry.source_nodes})]
    ELSE history

(* observe_event, after expiry: an exhausted hash seen at a new endpoint   *)
(* is granted one more job, at most MaxExtraAttempts times.                *)
GrantsExtra(state, event) ==
    /\ Exhausted(state)
    /\ Novel(state, event)
    /\ state.extra_attempts < MaxExtraAttempts
    /\ RetryMaxAttempts > 0

HistoryObserve(history, event, now) ==
    IF event.hash \in Remembered(history)
    THEN LET old   == history.entries[event.hash]
             seen  == Observe(old, Some(event.peer), Some(event.source))
             state == IF GrantsExtra(old, event)
                      THEN [seen EXCEPT
                              !.extra_attempts = @ + 1,
                              !.next_due =
                                RetryDeadline(now, Larger(RetryInitialDelay, MinRetryDelay))]
                      ELSE seen
         IN  [history EXCEPT !.entries[event.hash] = state]
    ELSE history

-------------------------------------------------------------------------------
(* The expiry order and the records agree.                                 *)
HistoryIndexed(history) ==
    history.expiry = {<<history.entries[h].expires_at, h>> : h \in Remembered(history)}

RetryState ==
    [failures : Nat, extra_attempts : Nat, next_due : Nat, expires_at : Nat,
     peers : SUBSET Peers, sources : SUBSET Nodes]

HistoryType(history) ==
    /\ DOMAIN history = {"entries", "expiry"}
    /\ Remembered(history) \subseteq Hashes
    /\ \A h \in Remembered(history) : history.entries[h] \in RetryState
    /\ history.expiry \in SUBSET (Nat \X Hashes)
===============================================================================
