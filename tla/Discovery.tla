------------------------------- MODULE Discovery -------------------------------
(***************************************************************************)
(* The discovery actor (struct DiscoveryActor, src/src/discovery.rs): it   *)
(* samples info hashes from DHT nodes, leaves a node alone for as long as  *)
(* it asks, and hands hashes that are new to the metadata scheduler.  A    *)
(* node is queued in nodes (under a key of due), pending there, or cooling *)
(* down.  A loop of a handler is one action per turn; only its awaits (pc  *)
(* "select" and "send") let time pass.                                     *)
(*                                                                         *)
(* Left out: node ids and address checks, the order of nodes due at the    *)
(* same instant, answers that match no pending query and change nothing,   *)
(* answers with more than 256 samples; whether a rate budget, the filter   *)
(* or a full channel refuses is arbitrary.                                 *)
(***************************************************************************)
EXTENDS HashDedup

CONSTANTS
    MaxNodes,          \* sample_max_nodes, after max(1)
    MaxInFlight,       \* sample_max_in_flight
    CooldownCapacity,  \* sample_cooldown_capacity, after max(1)
    Burst,             \* sample_burst, at most 64
    QueryTimeout,      \* sample_query_timeout_secs, after clamp
    FailureDelay,      \* sample_failure_backoff_secs, after clamp
    NoNewBackoff,      \* sample_no_new_backoff_secs
    MinInterval,       \* sample_min_interval_secs
    Intervals,         \* the intervals nodes may ask for
    MaxInterval,       \* MAX_REMOTE_INTERVAL
    SeedRefresh,       \* SEED_REFRESH
    ExpiryBatch,       \* cooldowns ended per tick, 256
    MaxTime,           \* bound: the clock
    NoNode             \* no node

ASSUME DiscoveryAssumption ==
    /\ IsFiniteSet(Nodes) /\ IsFiniteSet(Hashes)
    /\ MaxNodes \in Nat \ {0}
    /\ MaxInFlight \in Nat
    /\ CooldownCapacity \in Nat \ {0}
    /\ Burst \in Nat
    /\ QueryTimeout \in Nat \ {0}
    /\ FailureDelay \in Nat \ {0}
    /\ NoNewBackoff \in Nat
    /\ MinInterval \in Nat
    /\ Intervals \subseteq Nat
    /\ MaxInterval \in Nat
    /\ SeedRefresh \in Nat
    /\ ExpiryBatch \in Nat
    /\ MaxTime \in Nat
    /\ NoNode \notin Nodes

VARIABLES
    now,         \* the monotonic clock
    pc,          \* "select", or where in on_tick or handle_response the actor is
    at,          \* the instant the running handler was called with
    left,        \* turns left of its loop
    nodes,       \* candidate node -> the instant it is due, or NotDue
    due,         \* <<instant, node>> of every node that waits to be queried
    pending,     \* node -> deadline of the query it was sent
    cooldowns,   \* node -> until when it is left alone
    cooldown_expiry,  \* <<until, node>>
    next_seed_refresh,
    target,      \* the node a query is being sent to
    todo,        \* nodes still to be admitted, by the running handler
    answer,      \* the answer being handled: [node, samples, interval, novel]
    dedup        \* the memory of hashes

vars == <<now, pc, at, left, nodes, due, pending, cooldowns, cooldown_expiry,
          next_seed_refresh, target, todo, answer, dedup>>

pool == <<nodes, due, pending, cooldowns, cooldown_expiry>>

Empty == [x \in {} |-> 0]

NotDue == -1

NoAnswer == [node |-> NoNode, samples |-> {}, interval |-> 0, novel |-> FALSE]

Init ==
    /\ now = 0
    /\ pc = "select"
    /\ at = 0
    /\ left = 0
    /\ nodes = Empty
    /\ due = {}
    /\ pending = Empty
    /\ cooldowns = Empty
    /\ cooldown_expiry = {}
    /\ next_seed_refresh = 0
    /\ target = NoNode
    /\ todo = {}
    /\ answer = NoAnswer
    /\ dedup = EmptyDedup

Without(f, S) == Restrict(f, DOMAIN f \ S)

(* The keys BTreeSet::first may return, when due at instant t.             *)
FirstDue(index, t) == {k \in index : k[1] <= t /\ \A o \in index : k[1] <= o[1]}

-------------------------------------------------------------------------------
(* admit_node: a node that cools down stays where it is until then, a new  *)
(* one is due at once, in place of a node due before it when the pool is   *)
(* full, or is dropped.                                                    *)

Cooling(node) == node \in DOMAIN cooldowns /\ cooldowns[node] > at

(* The cooldown of a node ends, if it has one.                             *)
Warm(node) ==
    /\ cooldowns' = Without(cooldowns, {node})
    /\ cooldown_expiry' = cooldown_expiry
            \ {<<cooldowns[n], n>> : n \in DOMAIN cooldowns \cap {node}}

Full == Cardinality(DOMAIN nodes) >= MaxNodes

(* Mutant of Replaceable: a node that was sent a query may be replaced.    *)
ReplaceAny == {<<nodes[n], n>> : n \in DOMAIN nodes}

Replaceable == FirstDue(due, at)

Insert(node) ==
    \/ /\ ~Full
       /\ nodes' = Put(nodes, node, at)
       /\ due' = due \cup {<<at, node>>}
    \/ /\ Full
       /\ \E key \in Replaceable :
            /\ nodes' = Put(Without(nodes, {key[2]}), node, at)
            /\ due' = (due \ {key}) \cup {<<at, node>>}
    \/ /\ Full
       /\ Replaceable = {}
       /\ UNCHANGED <<nodes, due>>

AddNew(node) == IF node \in DOMAIN nodes THEN UNCHANGED <<nodes, due>> ELSE Insert(node)

(* Mutant of AdmitNode: discovering a node again ends its cooldown.        *)
AdmitAtOnce(node) == Warm(node) /\ AddNew(node)

AdmitNode(node) ==
    \/ Cooling(node) /\ UNCHANGED <<nodes, due, cooldowns, cooldown_expiry>>
    \/ ~Cooling(node) /\ Warm(node) /\ AddNew(node)

(* Mutant of EnterCooldown: the key of the cooldown's end is lost.         *)
EnterForGood(gone, until) ==
    LET cooled == gone \cap DOMAIN nodes
    IN  /\ nodes' = Without(nodes, cooled)
        /\ due' = due \ {<<nodes[n], n>> : n \in cooled}
        /\ cooldowns' = [n \in DOMAIN cooldowns \cup cooled |->
                            IF n \in cooled THEN until ELSE cooldowns[n]]
        /\ UNCHANGED cooldown_expiry

(* enter_cooldown, for nodes that all cool down until the same instant.    *)
EnterCooldown(gone, until) ==
    LET cooled == gone \cap DOMAIN nodes
    IN  /\ nodes' = Without(nodes, cooled)
        /\ due' = due \ {<<nodes[n], n>> : n \in cooled}
        /\ cooldowns' = [n \in DOMAIN cooldowns \cup cooled |->
                            IF n \in cooled THEN until ELSE cooldowns[n]]
        /\ cooldown_expiry' = cooldown_expiry \cup {<<until, n>> : n \in cooled}

-------------------------------------------------------------------------------
(* on_tick: cooldowns end, queries time out, seeds are taken from the      *)
(* routing snapshot, and nodes that are due are queried.                   *)

OnTick ==
    /\ pc = "select"
    /\ at' = now
    /\ left' = ExpiryBatch
    /\ pc' = "wake"
    /\ UNCHANGED <<now, pool, next_seed_refresh, target, todo, answer, dedup>>

Wake ==
    /\ pc = "wake"
    /\ left > 0
    /\ \E key \in FirstDue(cooldown_expiry, at) :
        /\ cooldown_expiry' = cooldown_expiry \ {key}
        /\ cooldowns' = Without(cooldowns, {key[2]})
        /\ IF key[2] \in DOMAIN cooldowns THEN AddNew(key[2]) ELSE UNCHANGED <<nodes, due>>
    /\ left' = left - 1
    /\ UNCHANGED <<now, pc, at, pending, next_seed_refresh, target, todo, answer, dedup>>

Timeouts ==
    /\ pc = "wake"
    /\ left = 0 \/ FirstDue(cooldown_expiry, at) = {}
    /\ LET expired == {n \in DOMAIN pending : pending[n] <= at}
       IN  /\ pending' = Without(pending, expired)
           /\ EnterCooldown(expired, at + FailureDelay)
    /\ pc' = "seed"
    /\ left' = 0
    /\ UNCHANGED <<now, at, next_seed_refresh, target, todo, answer, dedup>>

RefreshSeeds(seeds) ==
    /\ pc = "seed"
    /\ IF at >= next_seed_refresh
       THEN next_seed_refresh' = at + SeedRefresh /\ todo' = seeds
       ELSE seeds = {} /\ UNCHANGED <<next_seed_refresh, todo>>
    /\ pc' = "dispatch"
    /\ left' = Burst
    /\ UNCHANGED <<now, at, pool, target, answer, dedup>>

(* One seed, or one neighbour of an answer, is admitted.                   *)
AdmitNext ==
    /\ \E node \in todo : AdmitNode(node) /\ todo' = todo \ {node}
    /\ UNCHANGED <<now, pc, at, left, pending, next_seed_refresh, target, answer, dedup>>

(* Mutant of Reserved: the slots of pending queries are not counted.       *)
ReservedByCooling == Cardinality(DOMAIN cooldowns) < CooldownCapacity

(* A cooldown slot is kept for every node that was sent a query.           *)
Reserved == Cardinality(DOMAIN cooldowns) + Cardinality(DOMAIN pending) < CooldownCapacity

MayQuery ==
    /\ left > 0
    /\ Cardinality(DOMAIN pending) < MaxInFlight
    /\ FirstDue(due, at) # {}
    /\ Reserved

StartSend ==
    /\ pc = "dispatch"
    /\ todo = {}
    /\ MayQuery
    /\ \E key \in FirstDue(due, at) :
        /\ due' = due \ {key}
        /\ nodes' = [nodes EXCEPT ![key[2]] = NotDue]
        /\ target' = key[2]
    /\ pc' = "send"
    /\ left' = left - 1
    /\ UNCHANGED <<now, at, pending, cooldowns, cooldown_expiry, next_seed_refresh, todo,
                   answer, dedup>>

Sent ==
    /\ pc = "send"
    /\ pending' = Put(pending, target, now + QueryTimeout)
    /\ target' = NoNode
    /\ pc' = "dispatch"
    /\ UNCHANGED <<now, at, left, nodes, due, cooldowns, cooldown_expiry, next_seed_refresh,
                   todo, answer, dedup>>

SendFails ==
    /\ pc = "send"
    /\ EnterCooldown({target}, at + FailureDelay)
    /\ target' = NoNode
    /\ pc' = "dispatch"
    /\ UNCHANGED <<now, at, left, pending, next_seed_refresh, todo, answer, dedup>>

(* The loop ends, at the latest when the query budget refuses.             *)
DispatchEnds ==
    /\ pc = "dispatch"
    /\ todo = {}
    /\ pc' = "select"
    /\ at' = 0
    /\ left' = 0
    /\ UNCHANGED <<now, pool, next_seed_refresh, target, todo, answer, dedup>>

-------------------------------------------------------------------------------
(* handle_response, for the node's pending query while it is in time.      *)

Matched(node) == node \in DOMAIN pending /\ pending[node] > now

(* An error, or fields that are missing; or values out of range, where the *)
(* interval still counts.                                                  *)
RejectAnswer(node, wait) ==
    /\ pc = "select"
    /\ Matched(node)
    /\ pending' = Without(pending, {node})
    /\ EnterCooldown({node}, now + wait)
    /\ UNCHANGED <<now, pc, at, left, next_seed_refresh, target, todo, answer, dedup>>

Unsupported(node) == RejectAnswer(node, FailureDelay)

Invalid(node, interval) == RejectAnswer(node, Max({FailureDelay, Min({interval, MaxInterval})}))

AcceptAnswer(node, samples, interval) ==
    /\ pc = "select"
    /\ Matched(node)
    /\ interval <= MaxInterval
    /\ at' = now
    /\ pending' = Without(pending, {node})
    /\ answer' = [node |-> node, samples |-> samples, interval |-> interval, novel |-> FALSE]
    /\ pc' = "samples"
    /\ UNCHANGED <<now, left, nodes, due, cooldowns, cooldown_expiry, next_seed_refresh,
                   target, todo, dedup>>

(* emit_hash: a hash that is no duplicate goes to the metadata scheduler   *)
(* and is remembered, unless it is refused on the way.                     *)
EmitHash(hash, node, source, t) ==
    LET d == DedupExpire(dedup, t)
    IN  \/ dedup' = d
        \/ /\ ~Duplicate(d, hash, node, source)
           /\ dedup' = DedupInsert(d, hash, node, source, t)

TakeSample(hash) ==
    /\ pc = "samples"
    /\ hash \in answer.samples
    /\ EmitHash(hash, answer.node, "Sample", at)
    /\ answer' = [answer EXCEPT
            !.samples = @ \ {hash},
            !.novel = @ \/ ~Duplicate(DedupExpire(dedup, at), hash, answer.node, "Sample")]
    /\ UNCHANGED <<now, pc, at, left, pool, next_seed_refresh, target, todo>>

(* The node is left alone for the interval it asked for, longer when it    *)
(* had nothing new, and its neighbours are admitted.                       *)
Wait == Max({answer.interval, MinInterval, 1}
            \cup (IF answer.novel THEN {} ELSE {NoNewBackoff}))

AnswerEnds(neighbours) ==
    /\ pc = "samples"
    /\ answer.samples = {}
    /\ EnterCooldown({answer.node}, at + Wait)
    /\ answer' = NoAnswer
    /\ todo' = neighbours
    /\ pc' = "neighbours"
    /\ UNCHANGED <<now, at, left, pending, next_seed_refresh, target, dedup>>

NeighboursEnd ==
    /\ pc = "neighbours"
    /\ todo = {}
    /\ pc' = "select"
    /\ at' = 0
    /\ UNCHANGED <<now, left, pool, next_seed_refresh, target, todo, answer, dedup>>

-------------------------------------------------------------------------------
(* A get_peers query a node sent us names a hash.                          *)
ObserveGetPeers(hash, node) ==
    /\ pc = "select"
    /\ EmitHash(hash, node, "GetPeers", now)
    /\ UNCHANGED <<now, pc, at, left, pool, next_seed_refresh, target, todo, answer>>

Shutdown ==
    /\ pc = "select"
    /\ pc' = "stopped"
    /\ UNCHANGED <<now, at, left, pool, next_seed_refresh, target, todo, answer, dedup>>

Tick ==
    /\ pc \in {"select", "send"}
    /\ now < MaxTime
    /\ now' = now + 1
    /\ UNCHANGED <<pc, at, left, pool, next_seed_refresh, target, todo, answer, dedup>>

Next ==
    \/ OnTick
    \/ Wake
    \/ Timeouts
    \/ \E seeds \in SUBSET Nodes : RefreshSeeds(seeds)
    \/ AdmitNext
    \/ StartSend
    \/ Sent
    \/ SendFails
    \/ DispatchEnds
    \/ \E node \in Nodes : Unsupported(node)
    \/ \E node \in Nodes, interval \in Intervals : Invalid(node, interval)
    \/ \E node \in Nodes, samples \in SUBSET Hashes, interval \in Intervals :
            AcceptAnswer(node, samples, interval)
    \/ \E hash \in Hashes : TakeSample(hash)
    \/ \E neighbours \in SUBSET Nodes : AnswerEnds(neighbours)
    \/ NeighboursEnd
    \/ \E hash \in Hashes, node \in Nodes : ObserveGetPeers(hash, node)
    \/ Shutdown
    \/ Tick

Spec == Init /\ [][Next]_vars

-------------------------------------------------------------------------------
(* The state of the actor is well formed.                                  *)
TypeOK ==
    /\ now \in 0..MaxTime
    /\ pc \in {"select", "wake", "seed", "dispatch", "send", "samples", "neighbours", "stopped"}
    /\ at \in 0..now
    /\ left \in 0..Max({Burst, ExpiryBatch})
    /\ DOMAIN nodes \subseteq Nodes
    /\ \A n \in DOMAIN nodes : nodes[n] \in {NotDue} \cup 0..now
    /\ DOMAIN pending \subseteq Nodes
    /\ \A n \in DOMAIN pending : pending[n] \in 0..(now + QueryTimeout)
    /\ DOMAIN cooldowns \subseteq Nodes
    /\ target \in Nodes \cup {NoNode}
    /\ todo \subseteq Nodes
    /\ answer.samples \subseteq Hashes
    /\ DedupType(dedup)

(* Each index describes the map it belongs to: due holds the key of every  *)
(* node that has one and no other, and cooldown_expiry the end of every    *)
(* cooldown, so that no node is queried twice or left out for ever.  The   *)
(* memory of hashes and its expiry queue hold the same hashes, each once   *)
(* ("Source upgrades never slide the hash TTL or append expiry entries").  *)
IndexesAgree ==
    /\ TypeOK
    /\ due = {<<nodes[n], n>> : n \in {m \in DOMAIN nodes : nodes[m] # NotDue}}
    /\ cooldown_expiry = {<<cooldowns[n], n>> : n \in DOMAIN cooldowns}
    /\ DedupConsistent(dedup)

(* A candidate waits for its turn, or is being sent a query, or waits for  *)
(* the answer, or is answered, exactly one of these; a node that cools     *)
(* down is no candidate.  on_tick and handle_response unwrap the entry of  *)
(* a node they find in due or pending.                                     *)
Busy == DOMAIN pending \cup ({target, answer.node} \ {NoNode})

EveryNodePlaced ==
    /\ Busy = {n \in DOMAIN nodes : nodes[n] = NotDue}
    /\ DOMAIN nodes \cap DOMAIN cooldowns = {}
    /\ {target, answer.node} \cap DOMAIN pending = {}

(* "Dispatch reserved this history slot": every node that may still enter  *)
(* a cooldown finds room there, and the pool stays within its limit.       *)
CooldownReserved ==
    /\ Cardinality(DOMAIN cooldowns) + Cardinality(Busy) <= CooldownCapacity
    /\ Cardinality(DOMAIN nodes) <= MaxNodes

(* "Re-discovery cannot reset an advertised interval": a cooldown ends     *)
(* only when its time has come, and is never cut short.                    *)
IntervalHonoured ==
    [][\A n \in DOMAIN cooldowns :
        IF n \in DOMAIN cooldowns' THEN cooldowns'[n] >= cooldowns[n] ELSE cooldowns[n] <= now]_vars
===============================================================================
