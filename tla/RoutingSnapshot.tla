----------------------------- MODULE RoutingSnapshot -----------------------------
(***************************************************************************)
(* The published routing table (src/src/routing_snapshot.rs): the sampled  *)
(* nodes of each address family behind a Patricia trie over their ids,     *)
(* from which find_node and get_peers queries are answered.                *)
(*                                                                         *)
(* A node has an id, which is a sequence of bits, an addr, which is a      *)
(* number (the addresses are ordered, those of IPv4 first), its subnet and *)
(* its family v6.  A branch of the trie holds its children instead of      *)
(* their positions in a vector.                                            *)
(*                                                                         *)
(* Left out: the counts of visited branches, and random_nodes.             *)
(***************************************************************************)
EXTENDS Integers, FiniteSets, Sequences, FiniteSetsExt, SequencesExt

IdBelow(left, right) ==
    \E i \in DOMAIN left : left[i] < right[i] /\ \A j \in 1..(i - 1) : left[j] = right[j]

(* id.cmp, then addr.cmp.                                                  *)
BeforeInIndex(left, right) ==
    IdBelow(left.id, right.id) \/ (left.id = right.id /\ left.addr < right.addr)

Xor(id, target) == [i \in DOMAIN id |-> (id[i] + target[i]) % 2]

(* xor_distance_cmp, then addr.cmp.                                        *)
Closer(left, right, target) ==
    \/ IdBelow(Xor(left.id, target), Xor(right.id, target))
    \/ left.id = right.id /\ left.addr < right.addr

Truncate(s, n) == SubSeq(s, 1, Min({n, Len(s)}))

NoBranch == [kind |-> "none"]

(* build, of the nodes from start to end: a leaf holds the nodes of one    *)
(* id, a split the first bit in which the ids differ.                      *)
RECURSIVE Build(_)
Build(nodes) ==
    LET first == Head(nodes).id
        last == nodes[Len(nodes)].id
        bit == Min({i \in DOMAIN first : first[i] # last[i]})
    IN  IF first = last THEN [kind |-> "leaf", nodes |-> nodes]
        ELSE [kind |-> "split", bit |-> bit,
              zero |-> Build(SelectSeq(nodes, LAMBDA n : n.id[bit] = 0)),
              one |-> Build(SelectSeq(nodes, LAMBDA n : n.id[bit] = 1))]

PrefixIndex(nodes) ==
    LET sorted == SetToSortSeq(Range(nodes), BeforeInIndex)
    IN  [nodes |-> sorted, root |-> IF nodes = <<>> THEN NoBranch ELSE Build(sorted)]

(* Mutant of Visit: the side of the ones is always visited last.           *)
RECURSIVE VisitInOrder(_, _, _, _)
VisitInOrder(branch, target, limit, output) ==
    IF Len(output) >= limit THEN output
    ELSE IF branch.kind = "leaf" THEN output \o Truncate(branch.nodes, limit - Len(output))
    ELSE VisitInOrder(branch.one, target, limit,
                      VisitInOrder(branch.zero, target, limit, output))

(* visit: what is appended to output, the side of the target first.        *)
RECURSIVE Visit(_, _, _, _)
Visit(branch, target, limit, output) ==
    LET near == IF target[branch.bit] = 0 THEN branch.zero ELSE branch.one
        far == IF target[branch.bit] = 0 THEN branch.one ELSE branch.zero
    IN  IF Len(output) >= limit THEN output
        ELSE IF branch.kind = "leaf" THEN output \o Truncate(branch.nodes, limit - Len(output))
        ELSE Visit(far, target, limit, Visit(near, target, limit, output))

AppendNearest(index, target, count, output) ==
    IF index.root = NoBranch THEN output
    ELSE Visit(index.root, target, Len(output) + Min({count, Len(index.nodes)}), output)

FromNodes(nodes, limit) ==
    LET kept == Truncate(nodes, limit)
    IN  [v4 |-> PrefixIndex(SelectSeq(kept, LAMBDA n : ~n.v6)),
         v6 |-> PrefixIndex(SelectSeq(kept, LAMBDA n : n.v6))]

(* closest_nodes; families says which of the two the filter lets through.  *)
ClosestNodes(snapshot, target, count, families) ==
    LET both == AppendNearest(snapshot.v6, target, count,
                              AppendNearest(snapshot.v4, target, count, <<>>))
    IN  IF count = 0 THEN <<>>
        ELSE IF families = {TRUE} THEN AppendNearest(snapshot.v6, target, count, <<>>)
        ELSE IF families = {FALSE} THEN AppendNearest(snapshot.v4, target, count, <<>>)
        ELSE Truncate(SetToSortSeq(Range(both), LAMBDA l, r : Closer(l, r, target)), count)

(* What closest_nodes promises of the nodes of a table.                    *)
Nearest(nodes, target, count, families) ==
    Truncate(SetToSortSeq({n \in nodes : n.v6 \in families},
                          LAMBDA l, r : Closer(l, r, target)), count)
===============================================================================
