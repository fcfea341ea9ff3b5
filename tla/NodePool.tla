-------------------------------- MODULE NodePool --------------------------------
(***************************************************************************)
(* The pool of nodes to be probed (struct NodePool, src/src/node_pool.rs), *)
(* as operators on a record p: queue holds the nodes in order, queued the  *)
(* same as a set, recent the deadline until which a probed endpoint counts *)
(* as recent, budget the replacement budget, and warmed says that the      *)
(* queue has been full once.                                               *)
(*                                                                         *)
(* A node is its address: ids and invalid addresses are left out.  recent  *)
(* is the window that module RecentProbes implements; that its capacity is *)
(* enough is the subject of module ProbeWindow, so it is left out here.    *)
(***************************************************************************)
EXTENDS RateBucket, FiniteSets, Sequences, SequencesExt

CONSTANTS
    Addrs,            \* the endpoints
    PoolCapacity,     \* pool_capacity
    ReplacementRate,  \* max_replacements, per unit of time
    RecentTtl         \* recent_probe_ttl

ASSUME PoolAssumption ==
    /\ IsFiniteSet(Addrs)
    /\ PoolCapacity \in Nat \ {0}
    /\ ReplacementRate \in Nat
    /\ RecentTtl \in Nat \ {0}

EmptyPool ==
    [queue |-> <<>>, queued |-> {}, recent |-> [a \in {} |-> 0],
     budget |-> NewBucket(ReplacementRate, ReplacementRate, TRUE, 0), warmed |-> FALSE]

(* expire_recent, of everything that has expired.                          *)
ExpireRecent(p, now) ==
    [p EXCEPT !.recent = Restrict(@, {a \in DOMAIN @ : @[a] > now})]

ContainsRecent(p, addr, now) == addr \in DOMAIN ExpireRecent(p, now).recent

(* record_probe.                                                           *)
PoolProbe(p, addr, now) ==
    [p EXCEPT !.recent = [a \in DOMAIN ExpireRecent(p, now).recent \cup {addr} |->
                            IF a = addr THEN now + RecentTtl ELSE p.recent[a]]]

(* pop_front_internal.                                                     *)
PopFront(p) == [p EXCEPT !.queue = Tail(@), !.queued = @ \ {Head(p.queue)}]

PushBack(p, addr) == [p EXCEPT !.queue = Append(@, addr), !.queued = @ \cup {addr}]

(* admit: queued and recent endpoints are duplicates; once the queue has   *)
(* been full an admission costs a token; the oldest node makes room.       *)
Admit(p, addr, now) ==
    LET q == ExpireRecent(p, now)
        paid == IF q.warmed THEN [q EXCEPT !.budget = TakeOne(@, now)] ELSE q
        room == IF Len(q.queue) >= PoolCapacity THEN PopFront(paid) ELSE paid
        next == PushBack(room, addr)
    IN  IF addr \in q.queued \/ addr \in DOMAIN q.recent THEN q
        ELSE IF q.warmed /\ ~HasToken(q.budget, now) THEN paid
        ELSE [next EXCEPT !.warmed = @ \/ Len(next.queue) >= PoolCapacity]

(* rotate_front_to_back, n times.                                          *)
RotateFront(p, n) ==
    [p EXCEPT !.queue = SubSeq(@, n + 1, Len(@)) \o SubSeq(@, 1, n)]

TakeFrontForProbe(p, now) == PoolProbe(PopFront(p), Head(p.queue), now)

RestoreFront(p, addr) ==
    [p EXCEPT !.recent = Restrict(@, DOMAIN @ \ {addr}),
              !.queued = @ \cup {addr},
              !.queue = <<addr>> \o @]
===============================================================================
