------------------------------- MODULE PeerRace -------------------------------
(***************************************************************************)
(* The race of one metadata job over its candidate peers                   *)
(* (race_peer_fetches, src/src/scheduler.rs), with the actors around it:   *)
(* the fetch tasks it spawns, the scheduler that offers peers announced    *)
(* meanwhile through a bounded channel, the lookup actor that streams the  *)
(* peers it finds through another, and the timers of the job.              *)
(*                                                                         *)
(* A fetch is abstract: skipped on a cached failure, or one real attempt   *)
(* that fails, succeeds or panics; its inside is module MetadataFetch.     *)
(* The scheduler holds its end of the live channel until it has joined the *)
(* job, so that channel is only ever closed by the race.                   *)
(***************************************************************************)
EXTENDS Integers, FiniteSets, Sequences, FiniteSetsExt

CONSTANTS
    Peers,          \* TCP endpoints
    MaxPeers,       \* MAX_METADATA_PEERS_PER_HASH: real attempts
    MaxCandidates,  \* MAX_METADATA_CANDIDATES_PER_HASH, also both channels' capacity
    MaxInitial,     \* bound: peers the job starts with
    NoPeer          \* a race without a winner

ASSUME RaceAssumption ==
    /\ IsFiniteSet(Peers)
    /\ MaxPeers \in Nat \ {0}
    /\ MaxCandidates \in Nat \ {0}
    /\ MaxInitial \in 0..MaxCandidates
    /\ NoPeer \notin Peers

VARIABLES
    pc,         \* "top" of the loop, in "select", or "done"
    pending,    \* pending_peers
    seen,       \* seen_peers
    tasks,      \* peer -> where its fetch is
    reserved,   \* attempts_reserved
    accepting,  \* accepting_live_peers
    lookup,     \* [open, submitted, elapsed]: lookup_open and its two flags
    live,       \* the live channel: [buffer, closed]
    found,      \* the lookup channel: [buffer, closed, sender]
    clock,      \* "start", then past the lookup "delay", then past its "deadline"
    scheduled,  \* peers the scheduler has handed to the job
    streamed,   \* peers the lookup has found
    tried,      \* peers really contacted
    attempts,   \* how often a peer was really contacted
    winner      \* the peer whose metadata is returned

vars == <<pc, pending, seen, tasks, reserved, accepting, lookup, live, found, clock,
          scheduled, streamed, tried, attempts, winner>>

environment == <<clock, scheduled, streamed, tried, attempts>>

Ends == {"SkippedCached", "Failed", "Fetched", "Panicked"}

(* The job starts with distinct peers; the lookup is configured or not.    *)
Init ==
    /\ pc = "top"
    /\ \E peers \in UNION {[1..n -> Peers] : n \in 0..MaxInitial} :
        /\ IsInjective(peers)
        /\ pending = peers
        /\ seen = Range(peers)
        /\ scheduled = Range(peers)
    /\ tasks = [p \in {} |-> 0]
    /\ reserved = 0
    /\ accepting = TRUE
    /\ \E enabled \in BOOLEAN :
        /\ lookup = [open |-> enabled, submitted |-> ~enabled, elapsed |-> FALSE]
        /\ found = [buffer |-> <<>>, closed |-> FALSE, sender |-> "race"]
    /\ live = [buffer |-> <<>>, closed |-> FALSE]
    /\ clock = "start"
    /\ streamed = {}
    /\ tried = {}
    /\ attempts = 0
    /\ winner = NoPeer

-------------------------------------------------------------------------------
(* The top of the loop: spawn while there are reservations and candidates, *)
(* stop listening once enough candidates were seen, give up when nothing   *)
(* runs and nothing more can.                                              *)

Start(n) ==
    LET started == {pending[i] : i \in 1..n}
    IN  /\ tasks' = [p \in DOMAIN tasks \cup started |->
                        IF p \in started THEN "spawned" ELSE tasks[p]]
        /\ reserved' = reserved + n
        /\ pending' = SubSeq(pending, n + 1, Len(pending))

Room == MaxPeers - reserved

LoopTop ==
    /\ pc = "top"
    /\ Start(Min({Len(pending), Room}))
    /\ LET full == Cardinality(seen) >= MaxCandidates
       IN  /\ accepting' = (accepting /\ ~full)
           /\ lookup' = [lookup EXCEPT !.open = @ /\ ~full]
           /\ live' = [live EXCEPT !.closed = @ \/ full]
           /\ found' = [found EXCEPT !.closed = @ \/ full]
    /\ LET over == /\ DOMAIN tasks' = {}
                   /\ \/ reserved' >= MaxPeers
                      \/ pending' = <<>> /\ ~accepting' /\ ~lookup'.open
       IN  pc' = IF over THEN "done" ELSE "select"
    /\ UNCHANGED <<seen, winner>>
    /\ UNCHANGED environment

(* queue_race_candidate.                                                   *)
Considered(peer) == Cardinality(seen) < MaxCandidates /\ peer \notin seen

QueueCandidate(peer) ==
    /\ seen' = IF Considered(peer) THEN seen \cup {peer} ELSE seen
    /\ pending' = IF Considered(peer) THEN Append(pending, peer) ELSE pending

-------------------------------------------------------------------------------
(* The arms of select!.                                                    *)

(* Mutant of JoinLoser: every unsuccessful fetch gives its slot back.      *)
JoinRefunding(peer) ==
    /\ tasks[peer] \in Ends \ {"Fetched"}
    /\ tasks' = Restrict(tasks, DOMAIN tasks \ {peer})
    /\ reserved' = reserved - 1
    /\ pc' = "top"
    /\ UNCHANGED <<live, found, winner>>

(* A fetch is joined: a cached skip gives its reservation back, a failure  *)
(* or a panic does not, and the first success cancels the others.          *)
JoinLoser(peer) ==
    /\ tasks[peer] \in Ends \ {"Fetched"}
    /\ tasks' = Restrict(tasks, DOMAIN tasks \ {peer})
    /\ reserved' = IF tasks[peer] = "SkippedCached" THEN reserved - 1 ELSE reserved
    /\ pc' = "top"
    /\ UNCHANGED <<live, found, winner>>

JoinWinner(peer) ==
    /\ tasks[peer] = "Fetched"
    /\ tasks' = [p \in {} |-> 0]
    /\ live' = [live EXCEPT !.closed = TRUE]
    /\ found' = [found EXCEPT !.closed = TRUE]
    /\ winner' = peer
    /\ pc' = "done"
    /\ UNCHANGED reserved

JoinFetch(peer) ==
    /\ pc = "select"
    /\ peer \in DOMAIN tasks
    /\ JoinLoser(peer) \/ JoinWinner(peer)
    /\ UNCHANGED <<pending, seen, accepting, lookup>>
    /\ UNCHANGED environment

RecvLive ==
    /\ pc = "select"
    /\ accepting
    /\ live.buffer # <<>>
    /\ QueueCandidate(Head(live.buffer))
    /\ live' = [live EXCEPT !.buffer = Tail(@)]
    /\ pc' = "top"
    /\ UNCHANGED <<tasks, reserved, accepting, lookup, found, winner>>
    /\ UNCHANGED environment

RecvFound ==
    /\ pc = "select"
    /\ lookup.open
    /\ found.buffer # <<>>
    /\ QueueCandidate(Head(found.buffer))
    /\ found' = [found EXCEPT !.buffer = Tail(@)]
    /\ pc' = "top"
    /\ UNCHANGED <<tasks, reserved, accepting, lookup, live, winner>>
    /\ UNCHANGED environment

(* The lookup channel is at its end: drained, and closed on either side.   *)
FoundEnds ==
    /\ pc = "select"
    /\ lookup.open
    /\ found.buffer = <<>>
    /\ found.closed \/ found.sender = "dropped"
    /\ lookup' = [lookup EXCEPT !.open = FALSE]
    /\ pc' = "top"
    /\ UNCHANGED <<pending, seen, tasks, reserved, accepting, live, found, winner>>
    /\ UNCHANGED environment

(* The request goes to the lookup actor with the sender, or is refused by  *)
(* a full or closed queue and the sender is dropped.                       *)
SubmitLookup ==
    /\ pc = "select"
    /\ lookup.open
    /\ ~lookup.submitted
    /\ clock # "start"
    /\ lookup' = [lookup EXCEPT !.submitted = TRUE]
    /\ \E sender \in {"actor", "dropped"} : found' = [found EXCEPT !.sender = sender]
    /\ pc' = "top"
    /\ UNCHANGED <<pending, seen, tasks, reserved, accepting, live, winner>>
    /\ UNCHANGED environment

(* Mutant of DeadlineElapsed: the lookup is over at once, undrained.       *)
DeadlineEndsLookup ==
    /\ pc = "select"
    /\ lookup.open
    /\ ~lookup.elapsed
    /\ clock = "deadline"
    /\ found' = [found EXCEPT !.closed = TRUE]
    /\ lookup' = [lookup EXCEPT !.elapsed = TRUE, !.open = FALSE]
    /\ pc' = "top"
    /\ UNCHANGED <<pending, seen, tasks, reserved, accepting, live, winner>>
    /\ UNCHANGED environment

(* Mutant of DeadlineElapsed: the channel is left to the lookup actor.     *)
DeadlineWaitsForActor ==
    /\ pc = "select"
    /\ lookup.open
    /\ ~lookup.elapsed
    /\ clock = "deadline"
    /\ lookup' = [lookup EXCEPT !.elapsed = TRUE]
    /\ pc' = "top"
    /\ UNCHANGED <<pending, seen, tasks, reserved, accepting, live, found, winner>>
    /\ UNCHANGED environment

DeadlineElapsed ==
    /\ pc = "select"
    /\ lookup.open
    /\ ~lookup.elapsed
    /\ clock = "deadline"
    /\ found' = [found EXCEPT !.closed = TRUE]
    /\ lookup' = [lookup EXCEPT !.elapsed = TRUE]
    /\ pc' = "top"
    /\ UNCHANGED <<pending, seen, tasks, reserved, accepting, live, winner>>
    /\ UNCHANGED environment

(* Nothing runs, waits or is looked up for the grace period.  Whether a    *)
(* live peer arriving at its end is still heard is up to the scheduler of  *)
(* the runtime.                                                            *)
IdleGrace ==
    /\ pc = "select"
    /\ DOMAIN tasks = {}
    /\ pending = <<>>
    /\ ~lookup.open
    /\ pc' = "done"
    /\ UNCHANGED <<pending, seen, tasks, reserved, accepting, lookup, live, found, winner>>
    /\ UNCHANGED environment

-------------------------------------------------------------------------------
(* The actors around the race, while it lasts: a race that returned has    *)
(* dropped its channels.                                                   *)

unchangedRace == <<pc, pending, seen, reserved, accepting, lookup, winner>>

FetchSkips(peer) ==
    /\ peer \in DOMAIN tasks
    /\ tasks[peer] = "spawned"
    /\ tasks' = [tasks EXCEPT ![peer] = "SkippedCached"]
    /\ UNCHANGED <<live, found, environment, unchangedRace>>

FetchAttempts(peer) ==
    /\ peer \in DOMAIN tasks
    /\ tasks[peer] = "spawned"
    /\ tasks' = [tasks EXCEPT ![peer] = "contacted"]
    /\ tried' = tried \cup {peer}
    /\ attempts' = attempts + 1
    /\ UNCHANGED <<live, found, clock, scheduled, streamed, unchangedRace>>

FetchEnds(peer, end) ==
    /\ peer \in DOMAIN tasks
    /\ tasks[peer] = "contacted"
    /\ tasks' = [tasks EXCEPT ![peer] = end]
    /\ UNCHANGED <<live, found, environment, unchangedRace>>

(* enqueue's try_send of an announced peer the job does not have.          *)
OfferLive(peer) ==
    /\ pc # "done"
    /\ peer \notin scheduled
    /\ Cardinality(scheduled) < MaxCandidates
    /\ ~live.closed
    /\ Len(live.buffer) < MaxCandidates
    /\ live' = [live EXCEPT !.buffer = Append(@, peer)]
    /\ scheduled' = scheduled \cup {peer}
    /\ UNCHANGED <<tasks, found, clock, streamed, tried, attempts, unchangedRace>>

(* The lookup actor finds a peer (try_send, which drops it when the        *)
(* channel is full or closed), and drops the sender when it is finished.   *)
LookupFinds(peer) ==
    /\ pc # "done"
    /\ found.sender = "actor"
    /\ peer \notin streamed
    /\ streamed' = streamed \cup {peer}
    /\ found' = IF found.closed \/ Len(found.buffer) >= MaxCandidates THEN found
                ELSE [found EXCEPT !.buffer = Append(@, peer)]
    /\ UNCHANGED <<tasks, live, clock, scheduled, tried, attempts, unchangedRace>>

LookupFinishes ==
    /\ pc # "done"
    /\ found.sender = "actor"
    /\ found' = [found EXCEPT !.sender = "dropped"]
    /\ UNCHANGED <<tasks, live, environment, unchangedRace>>

Elapse ==
    /\ pc # "done"
    /\ clock # "deadline"
    /\ clock' = IF clock = "start" THEN "delay" ELSE "deadline"
    /\ UNCHANGED <<tasks, live, found, scheduled, streamed, tried, attempts, unchangedRace>>

Race ==
    \/ LoopTop
    \/ \E peer \in Peers : JoinFetch(peer)
    \/ RecvLive
    \/ RecvFound
    \/ FoundEnds
    \/ SubmitLookup
    \/ DeadlineElapsed
    \/ IdleGrace

Fetch(peer) ==
    \/ FetchSkips(peer)
    \/ FetchAttempts(peer)
    \/ \E end \in Ends \ {"SkippedCached"} : FetchEnds(peer, end)

Next ==
    \/ Race
    \/ \E peer \in Peers : Fetch(peer)
    \/ \E peer \in Peers : OfferLive(peer)
    \/ \E peer \in Peers : LookupFinds(peer)
    \/ LookupFinishes
    \/ Elapse

(* The runtime polls a woken task, every fetch ends within total_timeout,  *)
(* and timers elapse.  Nothing is asked of the lookup actor.               *)
Fairness ==
    /\ WF_vars(Race)
    /\ \A peer \in Peers : WF_vars(Fetch(peer))
    /\ WF_vars(Elapse)

Spec == Init /\ [][Next]_vars /\ Fairness

-------------------------------------------------------------------------------
(* Properties.                                                             *)

(* The state of the race has its type.                                     *)
TypeOK ==
    /\ pc \in {"top", "select", "done"}
    /\ pending \in Seq(Peers)
    /\ seen \subseteq Peers
    /\ DOMAIN tasks \subseteq Peers
    /\ \A p \in DOMAIN tasks : tasks[p] \in Ends \cup {"spawned", "contacted"}
    /\ reserved \in 0..MaxPeers
    /\ accepting \in BOOLEAN
    /\ lookup \in [open : BOOLEAN, submitted : BOOLEAN, elapsed : BOOLEAN]
    /\ live.buffer \in Seq(Peers) /\ live.closed \in BOOLEAN
    /\ found.buffer \in Seq(Peers) /\ found.closed \in BOOLEAN
    /\ found.sender \in {"race", "actor", "dropped"}
    /\ clock \in {"start", "delay", "deadline"}
    /\ scheduled \subseteq Peers /\ streamed \subseteq Peers /\ tried \subseteq Peers
    /\ attempts \in Nat
    /\ winner \in Peers \cup {NoPeer}

(* "This bounds both simultaneous TCP connections and total actual         *)
(* attempts": whatever is skipped, refunded, joined or refilled, a job     *)
(* never contacts more than MaxPeers peers, and none of them twice,        *)
(* although the scheduler, the initial list and the lookup may each name   *)
(* it.                                                                     *)
AttemptBudget ==
    /\ TypeOK
    /\ attempts <= MaxPeers
    /\ Cardinality(DOMAIN tasks) <= MaxPeers
    /\ attempts = Cardinality(tried)

(* The race gives up only when it must: with attempts left, every          *)
(* candidate it took in was fetched to an end, and a lookup peer delivered *)
(* before the deadline was taken in ("Drain any already-delivered peers    *)
(* before treating the lookup as complete") unless there were enough.      *)
GivesUpOnlyWhenDry ==
    pc = "done" /\ winner = NoPeer =>
        /\ DOMAIN tasks = {}
        /\ reserved < MaxPeers =>
            /\ pending = <<>>
            /\ Cardinality(seen) < MaxCandidates => found.buffer = <<>>
===============================================================================
