---------------------------- MODULE SnapshotPublisher ----------------------------
(***************************************************************************)
(* The snapshots of the reservoir (ResponsiveReservoir::snapshot,          *)
(* src/src/node_pool.rs, and publish_snapshot, src/src/crawl_engine.rs): a *)
(* rotating sample of the nodes that answer, stratified by the first byte  *)
(* of their ids (the first PrefixBits bits here) and spread over subnets,  *)
(* is made the routing table that queries are answered from.               *)
(*                                                                         *)
(* A slot that is free, expired or backing off is NoNode: module           *)
(* ResponsiveReservoir says when it is, and between two snapshots any      *)
(* population of the slots may follow any other.  The queues of slots      *)
(* share one vector of links, as in the code.                              *)
(***************************************************************************)
EXTENDS RoutingSnapshot

CONSTANTS
    IdBits, PrefixBits,
    Populations,    \* what the slots may hold: functions from slots to nodes
    NoNode,
    SnapshotSize,   \* routing_snapshot_size
    MaxChanges      \* bound: changes of the population

VARIABLES
    slots,            \* slot -> the eligible node it holds
    member_cursors,   \* prefix -> which of its members comes first
    prefix_cursor,    \* which prefix comes first
    sparse_prefixes,  \* the prefixes with the fewest nodes
    snapshot,         \* the published table
    sample,           \* history: the sampled nodes, in order
    current,          \* history: the slots are as they were sampled
    changes,          \* history: changes of the population
    unseen            \* history: node -> consecutive samples it is missing from

vars == <<slots, member_cursors, prefix_cursor, sparse_prefixes, snapshot, sample, current,
          changes, unseen>>

IdPrefixes == 0..(2 ^ PrefixBits - 1)

PrefixOf(node) ==
    FoldLeft(LAMBDA p, bit : 2 * p + bit, 0, SubSeq(node.id, 1, PrefixBits))

Eligible == {slots[s] : s \in DOMAIN slots} \ {NoNode}

Init ==
    /\ slots = [s \in 1..1 |-> NoNode]
    /\ member_cursors = [p \in IdPrefixes |-> 0]
    /\ prefix_cursor = 0
    /\ sparse_prefixes = IdPrefixes
    /\ snapshot = FromNodes(<<>>, SnapshotSize)
    /\ sample = <<>>
    /\ current = TRUE
    /\ changes = 0
    /\ unseen = [n \in {} |-> 0]

-------------------------------------------------------------------------------
(* SnapshotSlots: a queue of slots, linked by w.links.                     *)

NoSlot == 0

NoSlots == [head |-> NoSlot, tail |-> NoSlot, len |-> 0]

PushSlot(w, queue, prefix, slot) ==
    LET q == w[queue][prefix]
        links == [w.links EXCEPT ![slot] = NoSlot]
    IN  [w EXCEPT !.links = IF q.len = 0 THEN links ELSE [links EXCEPT ![q.tail] = slot],
                  ![queue][prefix] = [head |-> IF q.len = 0 THEN slot ELSE q.head,
                                      tail |-> slot, len |-> q.len + 1]]

PopSlot(w, queue, prefix) ==
    [w EXCEPT ![queue][prefix].head = w.links[@], ![queue][prefix].len = @ - 1]

(* One round of the loop of rotate_left, on the links closed to a ring.    *)
TurnSlots(q, ring) == [q EXCEPT !.tail = q.head, !.head = ring[q.head]]

RotateSlots(w, prefix, count) ==
    LET q == w.groups[prefix]
        ring == [w.links EXCEPT ![q.tail] = q.head]
        turned == FoldLeft(LAMBDA t, i : TurnSlots(t, ring), q, [i \in 1..count |-> i])
    IN  IF count = 0 THEN w
        ELSE [w EXCEPT !.links = [ring EXCEPT ![turned.tail] = NoSlot],
                       !.groups[prefix] = turned]

-------------------------------------------------------------------------------
(* The passes of snapshot, on a record w of its working state.             *)

SubnetOf(slot) == slots[slot].subnet

(* A slot is added to the output.                                          *)
Select(w, prefix, slot) ==
    [w EXCEPT !.output = Append(@, slots[slot]),
              !.selected = @ \cup {prefix},
              !.subnets = @ \cup {SubnetOf(slot)}]

(* A prefix waits for its next turn if its queue is not empty.             *)
Requeue(w, queue, prefix) ==
    IF w[queue][prefix].len > 0 THEN [w EXCEPT !.active = Append(@, prefix)] ELSE w

Full(w) == Len(w.output) >= w.limit

(* Give each represented prefix a seed.                                    *)
Seed(w, prefix) ==
    LET slot == w.groups[prefix].head
    IN  Requeue(IF Full(w) THEN w ELSE Select(PopSlot(w, "groups", prefix), prefix, slot),
                "groups", prefix)

(* Mutant of FillOne: the next node is taken whatever its subnet.          *)
FillAny(w, prefix) ==
    LET slot == w.groups[prefix].head
    IN  IF w.groups[prefix].len = 0 THEN w
        ELSE Select(PopSlot(w, "groups", prefix), prefix, slot)

(* The inner loop of the second pass: up to a node of a new subnet.        *)
RECURSIVE FillOne(_, _)
FillOne(w, prefix) ==
    LET slot == w.groups[prefix].head
        popped == PopSlot(w, "groups", prefix)
    IN  IF w.groups[prefix].len = 0 THEN w
        ELSE IF SubnetOf(slot) \notin w.subnets THEN Select(popped, prefix, slot)
        ELSE FillOne(PushSlot(popped, "deferred", prefix, slot), prefix)

(* Fill in prefix round-robin order, preferring new subnets.               *)
RECURSIVE Fill(_)
Fill(w) ==
    LET prefix == Head(w.active)
        filled == FillOne([w EXCEPT !.active = Tail(@)], prefix)
    IN  IF Full(w) \/ w.active = <<>> THEN w ELSE Fill(Requeue(filled, "groups", prefix))

(* Relax subnet diversity.                                                 *)
RECURSIVE Relax(_)
Relax(w) ==
    LET prefix == Head(w.active)
        slot == w.deferred[prefix].head
        popped == PopSlot([w EXCEPT !.active = Tail(@)], "deferred", prefix)
    IN  IF Full(w) \/ w.active = <<>> THEN w
        ELSE Relax(Requeue(Select(popped, prefix, slot), "deferred", prefix))

RotateLeft(s, n) == SubSeq(s, n + 1, Len(s)) \o SubSeq(s, 1, n)

Counts == [p \in IdPrefixes |->
            Cardinality({s \in DOMAIN slots : slots[s] # NoNode /\ PrefixOf(slots[s]) = p})]

Represented == {p \in IdPrefixes : Counts[p] > 0}

(* The represented prefixes, from the one whose turn it is.                *)
PrefixOrder ==
    LET order == SetToSortSeq(Represented, <)
    IN  IF order = <<>> THEN order ELSE RotateLeft(order, prefix_cursor % Len(order))

(* The groups by prefix, each from the member whose turn it is.            *)
Grouped ==
    LET empty == [links |-> [s \in DOMAIN slots |-> NoSlot],
                  groups |-> [p \in IdPrefixes |-> NoSlots],
                  deferred |-> [p \in IdPrefixes |-> NoSlots],
                  active |-> <<>>, subnets |-> {}, selected |-> {}, output |-> <<>>,
                  limit |-> Min({SnapshotSize, Cardinality(Eligible)})]
        held == SetToSortSeq({s \in DOMAIN slots : slots[s] # NoNode}, <)
        grouped == FoldLeft(LAMBDA w, s : PushSlot(w, "groups", PrefixOf(slots[s]), s),
                            empty, held)
    IN  FoldLeft(LAMBDA w, p : RotateSlots(w, p, member_cursors[p] % Counts[p]),
                 grouped, PrefixOrder)

(* The three passes.                                                       *)
Sampled ==
    LET filled == Fill(FoldLeft(Seed, Grouped, PrefixOrder))
    IN  IF Full(filled) THEN filled
        ELSE Relax(FoldLeft(LAMBDA w, p : Requeue(w, "deferred", p), filled, PrefixOrder))

(* Mutant of NextMember: the cursor moves on by what was sampled.          *)
NextMemberBySample(p, w) ==
    (member_cursors[p] + Cardinality({i \in DOMAIN w.output : PrefixOf(w.output[i]) = p}))
        % Counts[p]

(* "Advance by one so even when the sample size shares a factor with this  *)
(* group's size, every member gets the first slot."                        *)
NextMember(p, w) == (member_cursors[p] + 1) % Counts[p]

(* publish_snapshot.                                                       *)
PublishSnapshot ==
    LET w == Sampled
    IN  /\ sample' = w.output
        /\ snapshot' = FromNodes(w.output, SnapshotSize)
        /\ member_cursors' = [p \in IdPrefixes |-> IF p \in w.selected THEN NextMember(p, w)
                                                 ELSE member_cursors[p]]
        /\ prefix_cursor' = (prefix_cursor + 1) % Max({Cardinality(Represented), 1})
        /\ sparse_prefixes' = {p \in IdPrefixes : \A q \in IdPrefixes : Counts[p] <= Counts[q]}
        /\ unseen' = [n \in Eligible |-> IF n \in Range(w.output) THEN 0 ELSE unseen[n] + 1]
        /\ current' = TRUE
        /\ UNCHANGED <<slots, changes>>

(* Nodes answer, expire, fail or are replaced.                             *)
Change(population) ==
    /\ changes < MaxChanges
    /\ population # slots
    /\ slots' = population
    /\ changes' = changes + 1
    /\ current' = FALSE
    /\ unseen' = [n \in {population[s] : s \in DOMAIN population} \ {NoNode} |-> 0]
    /\ UNCHANGED <<member_cursors, prefix_cursor, sparse_prefixes, snapshot, sample>>

Next == PublishSnapshot \/ \E population \in Populations : Change(population)

Spec == Init /\ [][Next]_vars

-------------------------------------------------------------------------------
(* "Give each represented ID prefix a seed before filling any prefix a     *)
(* second time" and "Relax subnet diversity only after all distinct subnet *)
(* candidates have been considered": the sample has no node twice, as many *)
(* as there are or as fit, no prefix twice while another has none, and     *)
(* past the seeds a subnet again only if all the subnets are in it.        *)
SampleStratified ==
    LET places(p) == {i \in DOMAIN sample : PrefixOf(sample[i]) = p}
        seeds == Min({Cardinality(Represented), Len(sample)})
        shown == {sample[i].subnet : i \in DOMAIN sample}
    IN  current =>
            /\ IsInjective(sample) /\ Range(sample) \subseteq Eligible
            /\ Len(sample) = Min({SnapshotSize, Cardinality(Eligible)})
            /\ Cardinality({PrefixOf(sample[i]) : i \in 1..seeds}) = seeds
            /\ \A i \in (seeds + 1)..Len(sample) :
                (\E j \in 1..(i - 1) : sample[j].subnet = sample[i].subnet)
                    => \A n \in Eligible : n.subnet \in shown

(* "every member gets the first slot": while the population stays the      *)
(* same, a node is in one of as many consecutive samples as there are      *)
(* prefixes times nodes of its own prefix, however the cursors stood.      *)
EveryNodeShown ==
    \A n \in DOMAIN unseen : unseen[n] < Cardinality(Represented) * Counts[PrefixOf(n)]

(* closest_nodes walks the trie, and with both families merges what either *)
(* walk found; it returns what sorting the whole table would: the count    *)
(* nearest nodes by XOR distance and address, in this order.               *)
NearestAgrees ==
    \A target \in [1..IdBits -> {0, 1}], count \in 0..Len(sample),
       families \in {{TRUE}, {FALSE}, BOOLEAN} :
        ClosestNodes(snapshot, target, count, families)
            = Nearest(Range(sample), target, count, families)
===============================================================================
