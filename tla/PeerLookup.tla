------------------------------ MODULE PeerLookup ------------------------------
(***************************************************************************)
(* The peer lookup actor (src/src/peer_lookup.rs): one loop that runs a    *)
(* bounded number of iterative get_peers lookups, tracks their UDP queries *)
(* and times them out.  An action runs from one await of the actor to the  *)
(* next; time passes and jobs give up in between.                          *)
(*                                                                         *)
(* Left out: XOR distance (which frontier node is closest is arbitrary),   *)
(* address families, requests that are refused (receiver gone, too many    *)
(* lookups, no request budget, no node to ask), which change nothing but   *)
(* drop the sender, and answers to queries no longer pending, which change *)
(* nothing.                                                                *)
(***************************************************************************)
EXTENDS Integers, FiniteSets, Sequences, FiniteSetsExt

CONSTANTS
    Nodes,                 \* DHT endpoints
    Peers,                 \* TCP endpoints
    MaxActive,             \* max_active_lookups
    MaxQueries,            \* max_queries
    MaxConcurrentQueries,  \* max_concurrent_queries, after max(1)
    MaxPeersPerLookup,     \* MAX_PEERS_PER_LOOKUP
    MaxFrontier,           \* MAX_FRONTIER_NODES
    MaxSources,            \* source nodes used as seeds, 8
    LookupTimeout,         \* lookup_timeout, at least 1
    QueryTimeout,          \* query_timeout, at least 1
    MaxLookups,            \* bound: lookups started
    MaxTime,               \* bound: the clock
    NoNode                 \* no node

ASSUME LookupAssumption ==
    /\ IsFiniteSet(Nodes) /\ IsFiniteSet(Peers)
    /\ MaxActive \in Nat
    /\ MaxQueries \in Nat
    /\ MaxConcurrentQueries \in Nat \ {0}
    /\ MaxPeersPerLookup \in Nat \ {0}
    /\ MaxFrontier \in Nat \ {0}
    /\ MaxSources \in Nat
    /\ LookupTimeout \in Nat \ {0}
    /\ QueryTimeout \in Nat \ {0}
    /\ MaxLookups \in Nat
    /\ MaxTime \in Nat
    /\ NoNode \notin Nodes

VARIABLES
    now,      \* the monotonic clock
    pc,       \* "select", "dispatch", "send", "sweep" or "stopped"
    active,   \* lookup id -> LookupState
    pending,  \* transaction id -> [addr, lookup, deadline]: PendingQuery under its key
    expiry,   \* pending_expiry: <<deadline, transaction id>>, in order of sending
    current,  \* the lookup dispatch_more works on
    target,   \* the node a query is being sent to
    todo,     \* lookups expire has still to dispatch
    tick_at,  \* the instant of the maintenance tick being handled, or NoTick
    lookups,  \* lookups started: next_lookup_id - 1
    tids      \* transaction ids used: next_tid - 1

vars == <<now, pc, active, pending, expiry, current, target, todo, tick_at, lookups, tids>>

Empty == [x \in {} |-> 0]

NoTick == -1

Init ==
    /\ now = 0
    /\ pc = "select"
    /\ active = Empty
    /\ pending = Empty
    /\ expiry = <<>>
    /\ current = 0
    /\ target = NoNode
    /\ todo = {}
    /\ tick_at = NoTick
    /\ lookups = 0
    /\ tids = 0

Without(f, S) == Restrict(f, DOMAIN f \ S)

QueriesOf(id) == {k \in DOMAIN pending : pending[k].lookup = id}

-------------------------------------------------------------------------------
(* Completion.                                                             *)

(* Mutant of IsComplete: the lookup deadline is not looked at.             *)
IsDry(s, t) ==
    \/ ~s.listening
    \/ Cardinality(s.peers) >= MaxPeersPerLookup
    \/ s.outstanding = 0 /\ s.queried >= MaxQueries
    \/ s.outstanding = 0 /\ s.frontier = {} /\ s.sources = <<>>

IsComplete(s, t) ==
    \/ ~s.listening
    \/ s.deadline <= t
    \/ Cardinality(s.peers) >= MaxPeersPerLookup
    \/ s.outstanding = 0 /\ s.queried >= MaxQueries
    \/ s.outstanding = 0 /\ s.frontier = {} /\ s.sources = <<>>

(* Mutant of Finish: queries of a finished lookup stay pending.            *)
FinishOnly(ids) ==
    /\ active' = Without(active, ids)
    /\ UNCHANGED pending

(* finish_lookup, for a set of lookups: their state, with the sender of    *)
(* the job's channel, and their pending queries go.                        *)
Finish(ids) ==
    /\ active' = Without(active, ids)
    /\ pending' = Without(pending, UNION {QueriesOf(id) : id \in ids})

-------------------------------------------------------------------------------
(* start_lookup: seeded by the nodes that supplied the hash and by nodes   *)
(* of the routing snapshot.                                                *)

Request(sources, closest) ==
    /\ pc = "select"
    /\ lookups < MaxLookups
    /\ now + LookupTimeout <= MaxTime  \* bound: the clock reaches its deadline
    /\ Cardinality(DOMAIN active) < MaxActive
    /\ closest \ Range(sources) # {} \/ sources # <<>>
    /\ lookups' = lookups + 1
    /\ LET frontier == closest \ Range(sources)
           state    == [listening |-> TRUE, frontier |-> frontier, sources |-> sources,
                        seen |-> frontier \cup Range(sources), peers |-> {}, queried |-> 0,
                        outstanding |-> 0, deadline |-> now + LookupTimeout, asked |-> {}]
       IN  active' = [id \in DOMAIN active \cup {lookups'} |->
                        IF id = lookups' THEN state ELSE active[id]]
    /\ pc' = "dispatch"
    /\ current' = lookups'
    /\ UNCHANGED <<now, pending, expiry, target, todo, tick_at, tids>>

-------------------------------------------------------------------------------
(* dispatch_more: while it may ask more, the current lookup takes a node   *)
(* off its sources or frontier, counts the query and awaits the send.      *)

MayAsk(s) ==
    /\ s.listening
    /\ s.deadline > now
    /\ Cardinality(s.peers) < MaxPeersPerLookup
    /\ s.queried < MaxQueries
    /\ s.outstanding < MaxConcurrentQueries

(* pop_closest: a source node first, then the closest of the frontier.     *)
Candidates(s) == IF s.sources # <<>> THEN {Head(s.sources)} ELSE s.frontier

Popped(s, node) ==
    IF s.sources # <<>>
    THEN [s EXCEPT !.sources = Tail(@), !.queried = @ + 1, !.asked = @ \cup {node}]
    ELSE [s EXCEPT !.frontier = @ \ {node}, !.queried = @ + 1, !.asked = @ \cup {node}]

Asking == pc = "dispatch" /\ current \in DOMAIN active /\ MayAsk(active[current])

StartSend(node) ==
    /\ Asking
    /\ node \in Candidates(active[current])
    /\ active' = [active EXCEPT ![current] = Popped(@, node)]
    /\ target' = node
    /\ pc' = "send"
    /\ tids' = tids + 1
    /\ UNCHANGED <<now, pending, expiry, current, todo, tick_at, lookups>>

(* After the await: the query is pending from now on, whatever became of   *)
(* the job and of the time in between.                                     *)
Sent ==
    LET deadline == Min({now + QueryTimeout, active[current].deadline})
    IN  /\ pc = "send"
        /\ pending' = [k \in DOMAIN pending \cup {tids} |->
                        IF k = tids
                        THEN [addr |-> target, lookup |-> current, deadline |-> deadline]
                        ELSE pending[k]]
        /\ expiry' = Append(expiry, <<deadline, tids>>)
        /\ active' = [active EXCEPT ![current].outstanding = @ + 1]
        /\ target' = NoNode
        /\ pc' = "dispatch"
        /\ UNCHANGED <<now, current, todo, tick_at, lookups, tids>>

(* No socket, an error, or no room in the socket's buffer until the        *)
(* lookup's deadline: the node is given up.                                *)
SendFails ==
    /\ pc = "send"
    /\ target' = NoNode
    /\ pc' = "dispatch"
    /\ UNCHANGED <<now, active, pending, expiry, current, todo, tick_at, lookups, tids>>

(* Nothing more to ask: finish_if_complete, then back to expire's other    *)
(* lookups, its sweep, or select!.                                         *)
DispatchEnds ==
    /\ pc = "dispatch"
    /\ ~(Asking /\ Candidates(active[current]) # {})
    /\ Finish({id \in DOMAIN active \cap {current} : IsComplete(active[id], now)})
    /\ \/ /\ todo # {}
          /\ \E id \in todo : current' = id /\ todo' = todo \ {id}
          /\ UNCHANGED pc
       \/ /\ todo = {}
          /\ current' = 0
          /\ pc' = IF tick_at # NoTick THEN "sweep" ELSE "select"
          /\ UNCHANGED todo
    /\ UNCHANGED <<now, expiry, target, tick_at, lookups, tids>>

-------------------------------------------------------------------------------
(* handle_response, for a pending query: the lookup learns peers and nodes *)
(* as far as there is room, or is finished when its time is over.          *)

Unseen(s, nodes) == nodes \ s.seen

Answered(s) == [s EXCEPT !.outstanding = @ - 1]

HandleResponse(k, peers, nodes) ==
    LET id == pending[k].lookup
        s  == active[id]
    IN  /\ pc = "select"
        /\ k \in DOMAIN pending
        /\ \/ /\ s.deadline <= now
              /\ Finish({id})
              /\ UNCHANGED <<pc, current>>
           \/ /\ s.deadline > now
              /\ \E learnt \in SUBSET (peers \ s.peers), reached \in SUBSET Unseen(s, nodes) :
                    /\ Cardinality(learnt) = Min({Cardinality(peers \ s.peers),
                                                  MaxPeersPerLookup - Cardinality(s.peers)})
                    /\ Cardinality(reached) = Min({Cardinality(Unseen(s, nodes)),
                                                   MaxFrontier - Cardinality(s.frontier)})
                    /\ active' = [active EXCEPT ![id] =
                            [Answered(s) EXCEPT !.peers = @ \cup learnt,
                                                !.seen = @ \cup reached,
                                                !.frontier = @ \cup reached]]
              /\ pending' = Without(pending, {k})
              /\ pc' = "dispatch"
              /\ current' = id
        /\ UNCHANGED <<now, expiry, target, todo, tick_at, lookups, tids>>

-------------------------------------------------------------------------------
(* expire, at a maintenance tick: due queries at the front of the order    *)
(* time out, their lookups ask on, then every complete lookup is finished. *)

Due == {i \in 1..Len(expiry) : \A j \in 1..i : expiry[j][1] <= now}

TimedOut == {expiry[i][2] : i \in Due} \cap DOMAIN pending

NotDue == SubSeq(expiry, Cardinality(Due) + 1, Len(expiry))

ReleaseSlots(keys) ==
    [id \in DOMAIN active |->
        [active[id] EXCEPT !.outstanding = @ - Cardinality(keys \cap QueriesOf(id))]]

MaintenanceTick ==
    /\ pc = "select"
    /\ tick_at' = now
    /\ expiry' = NotDue
    /\ active' = ReleaseSlots(TimedOut)
    /\ pending' = Without(pending, TimedOut)
    /\ LET affected == {pending[k].lookup : k \in TimedOut}
       IN  IF affected = {}
           THEN pc' = "sweep" /\ UNCHANGED <<current, todo>>
           ELSE /\ pc' = "dispatch"
                /\ \E id \in affected : current' = id /\ todo' = affected \ {id}
    /\ UNCHANGED <<now, target, lookups, tids>>

Sweep ==
    /\ pc = "sweep"
    /\ Finish({id \in DOMAIN active : IsComplete(active[id], tick_at)})
    /\ pc' = "select"
    /\ tick_at' = NoTick
    /\ UNCHANGED <<now, expiry, current, target, todo, lookups, tids>>

-------------------------------------------------------------------------------
(* The job drops its receiver; the clock; cancellation.                    *)

JobStops(id) ==
    /\ id \in DOMAIN active
    /\ active[id].listening
    /\ active' = [active EXCEPT ![id].listening = FALSE]
    /\ UNCHANGED <<now, pc, pending, expiry, current, target, todo, tick_at, lookups, tids>>

Tick ==
    /\ pc # "stopped"
    /\ now < MaxTime
    /\ now' = now + 1
    /\ UNCHANGED <<pc, active, pending, expiry, current, target, todo, tick_at, lookups, tids>>

Shutdown ==
    /\ pc = "select"
    /\ pc' = "stopped"
    /\ active' = Empty
    /\ pending' = Empty
    /\ expiry' = <<>>
    /\ UNCHANGED <<now, current, target, todo, tick_at, lookups, tids>>

(* A request's source nodes, a sample of the routing snapshot and the      *)
(* contents of an answer.                                                  *)
Sources == {s \in UNION {[1..n -> Nodes] : n \in 0..MaxSources} : IsInjective(s)}
Closest == {S \in SUBSET Nodes : Cardinality(S) <= Min({MaxQueries, MaxFrontier})}

Dispatching ==
    \/ \E node \in Nodes : StartSend(node)
    \/ Sent
    \/ SendFails
    \/ DispatchEnds

Next ==
    \/ \E sources \in Sources, closest \in Closest : Request(sources, closest)
    \/ Dispatching
    \/ \E k \in DOMAIN pending, peers \in SUBSET Peers, nodes \in SUBSET Nodes :
            HandleResponse(k, peers, nodes)
    \/ MaintenanceTick
    \/ Sweep
    \/ \E id \in DOMAIN active : JobStops(id)
    \/ Tick
    \/ Shutdown

HandlerMoves ==
    \/ pc = "dispatch" /\ pc' \in {"send", "sweep", "select"}
    \/ pc = "send" /\ pc' = "dispatch"
    \/ pc = "sweep" /\ pc' = "select"

TickTaken == pc = "select" /\ tick_at' = now

(* A handler goes on at each of its awaits (a send is bounded by           *)
(* timeout_at); the interval is polled again and again, that is, the       *)
(* response queue, which the biased select! looks at first, is not full of *)
(* answers for ever; time passes.                                          *)
Fairness == WF_pc(HandlerMoves) /\ SF_tick_at(TickTaken) /\ WF_now(Tick)

Spec == Init /\ [][Next]_vars /\ Fairness

-------------------------------------------------------------------------------
(* Properties.                                                             *)

(* The state of the actor has its type; no counter has gone below zero, so *)
(* none of the saturating subtractions of the code saturates.              *)
TypeOK ==
    /\ now \in Nat
    /\ pc \in {"select", "dispatch", "send", "sweep", "stopped"}
    /\ DOMAIN active \subseteq 1..lookups
    /\ \A id \in DOMAIN active : active[id] \in
        [listening : BOOLEAN, frontier : SUBSET Nodes, sources : Seq(Nodes),
         seen : SUBSET Nodes, peers : SUBSET Peers, queried : Nat, outstanding : Nat,
         deadline : Nat, asked : SUBSET Nodes]
    /\ DOMAIN pending \subseteq 1..tids
    /\ \A k \in DOMAIN pending : pending[k] \in
        [addr : Nodes, lookup : 1..lookups, deadline : Nat]
    /\ expiry \in Seq(Nat \X (1..tids))
    /\ current \in 0..lookups
    /\ target \in Nodes \cup {NoNode}
    /\ todo \subseteq 1..lookups
    /\ tick_at \in Nat \cup {NoTick}
    /\ lookups \in Nat
    /\ tids \in Nat

(* A lookup keeps to its budget and asks no node twice, although seeds,    *)
(* snapshot and answers may all name it.                                   *)
QueryBudget ==
    \A id \in DOMAIN active :
        /\ active[id].queried <= MaxQueries
        /\ active[id].outstanding <= MaxConcurrentQueries
        /\ active[id].queried = Cardinality(active[id].asked)
        /\ Cardinality(active[id].frontier) <= MaxFrontier
        /\ Cardinality(active[id].peers) <= MaxPeersPerLookup

(* The slots of a lookup are accounted for: outstanding is exactly the     *)
(* number of its queries that are pending, through answers, timeouts,      *)
(* failed sends and finished lookups; no query outlives its lookup, and    *)
(* the deadline of each is in the order that expire walks, so that it can  *)
(* still time out.  The budget above is kept by these counters.            *)
SlotsAccounted ==
    /\ TypeOK
    /\ QueryBudget
    /\ \A id \in DOMAIN active : active[id].outstanding = Cardinality(QueriesOf(id))
    /\ \A k \in DOMAIN pending :
        /\ pending[k].lookup \in DOMAIN active
        /\ <<pending[k].deadline, k>> \in Range(expiry)

(* A maintenance pass catches up: after it no lookup is left whose job     *)
(* stopped listening ("cancels lookup work on the next maintenance pass")  *)
(* or whose time is over, and no query past its deadline, although expire  *)
(* stops at the first entry that is not due and the order it walks is not  *)
(* sorted: a query's deadline is cut to that of its lookup.                *)
MaintenanceCatchesUp ==
    [][pc = "sweep" /\ pc' = "select" =>
          /\ \A id \in DOMAIN active' : active'[id].listening /\ active'[id].deadline > tick_at
          /\ \A k \in DOMAIN pending' : pending'[k].deadline > tick_at]_vars

(* Every lookup ends, whatever the network answers, so that its sender is  *)
(* dropped and the job waiting on it hears of the end.                     *)
LookupsEnd ==
    \A id \in 1..MaxLookups : id \in DOMAIN active ~> id \notin DOMAIN active
===============================================================================
