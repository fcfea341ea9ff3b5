---------------------------- MODULE DiscoveryProofs ----------------------------
(***************************************************************************)
(* EveryNodePlaced, CooldownReserved, IntervalHonoured and IndexesAgree    *)
(* hold of the discovery actor for any nodes and hashes and all options.   *)
(***************************************************************************)
EXTENDS Discovery, WellFoundedInduction, FiniteSetTheorems, TLAPS

Pcs == {"select", "wake", "seed", "dispatch", "send", "samples", "neighbours", "stopped"}

(* The candidates ns with their index d, at time t.                        *)
NodesOK(ns, d, t) ==
    /\ DOMAIN ns \subseteq Nodes
    /\ \A n \in DOMAIN ns : ns[n] \in {NotDue} \cup 0..t
    /\ d = {<<ns[n], n>> : n \in {m \in DOMAIN ns : ns[m] # NotDue}}
    /\ Cardinality(DOMAIN ns) <= MaxNodes

Unqueued(ns) == {n \in DOMAIN ns : ns[n] = NotDue}

(* The cooldowns cs with their index e.                                    *)
CoolingOK(cs, e) ==
    /\ DOMAIN cs \subseteq Nodes
    /\ \A n \in DOMAIN cs : cs[n] \in Nat
    /\ e = {<<cs[n], n>> : n \in DOMAIN cs}

(* What the handlers carry from one step to the next.                      *)
Types ==
    /\ now \in Nat
    /\ at \in 0..now
    /\ pc \in Pcs
    /\ DOMAIN pending \subseteq Nodes
    /\ target \in Nodes \cup {NoNode}
    /\ todo \subseteq Nodes
    /\ answer \in [node : Nodes \cup {NoNode}, samples : SUBSET Hashes, interval : Nat,
                   novel : BOOLEAN]

Phases ==
    /\ target # NoNode <=> pc = "send"
    /\ answer.node # NoNode <=> pc = "samples"

Pool ==
    /\ NodesOK(nodes, due, now)
    /\ CoolingOK(cooldowns, cooldown_expiry)
    /\ EveryNodePlaced
    /\ CooldownReserved

Inv == Types /\ Phases /\ Pool

(* IntervalHonoured, of one step.                                          *)
Honoured ==
    \A n \in DOMAIN cooldowns :
        IF n \in DOMAIN cooldowns' THEN cooldowns'[n] >= cooldowns[n] ELSE cooldowns[n] <= now

-------------------------------------------------------------------------------
(* Numbers and finite sets.                                                *)

(* The larger and the smaller of two numbers.                              *)
LEMMA OfTwo ==
    ASSUME NEW a \in Nat, NEW b \in Nat
    PROVE  Max({a, b}) \in Nat /\ Min({a, b}) \in Nat
<1>1. \E x \in {a, b} : \A y \in {a, b} : x >= y
  OBVIOUS
<1>2. \E x \in {a, b} : \A y \in {a, b} : x <= y
  OBVIOUS
<1>3. Max({a, b}) \in {a, b}
  BY <1>1 DEF Max
<1>4. Min({a, b}) \in {a, b}
  BY <1>2 DEF Min
<1>. QED
  BY <1>3, <1>4

(* A node is left alone for a number of units of time.                     *)
LEMMA WaitNatural ==
    ASSUME Types
    PROVE  Wait \in Nat
<1>. DEFINE S == {answer.interval, MinInterval, 1}
                    \cup (IF answer.novel THEN {} ELSE {NoNewBackoff})
<1>1. answer.interval \in Nat /\ MinInterval \in Nat /\ NoNewBackoff \in Nat
  BY DiscoveryAssumption DEF Types
<1>2. S \subseteq Nat
  BY <1>1
<1>3. \E x \in S : \A y \in S : x >= y
  <2>1. \E x \in {answer.interval, MinInterval, 1} :
            \A y \in {answer.interval, MinInterval, 1} : x >= y
    BY <1>1
  <2>2. PICK x \in {answer.interval, MinInterval, 1} :
            \A y \in {answer.interval, MinInterval, 1} : x >= y
    BY <2>1
  <2>3. CASE answer.novel
    BY <2>2, <2>3
  <2>4. CASE ~answer.novel /\ x >= NoNewBackoff
    BY <2>2, <2>4
  <2>5. CASE ~answer.novel /\ ~(x >= NoNewBackoff)
    BY <1>1, <2>2, <2>5
  <2>. QED
    BY <2>3, <2>4, <2>5
<1>4. Max(S) \in S
  <2>. HIDE DEF S
  <2>. QED
    BY <1>3 DEF Max
<1>. QED
  BY <1>2, <1>4 DEF Wait

(* Sets of nodes are finite.                                               *)
LEMMA NodesFinite ==
    ASSUME NEW S \in SUBSET Nodes
    PROVE  IsFiniteSet(S) /\ Cardinality(S) \in Nat
BY DiscoveryAssumption, FS_Subset, FS_CardinalityType

(* Moving nodes from one set to another does not add to both.              *)
LEMMA MoveCount ==
    ASSUME NEW S \in SUBSET Nodes, NEW T \in SUBSET Nodes, NEW X \in SUBSET T
    PROVE  Cardinality(S \cup X) + Cardinality(T \ X) <= Cardinality(S) + Cardinality(T)
<1>1. X \in SUBSET Nodes /\ T \ X \in SUBSET Nodes /\ S \cap X \in SUBSET Nodes /\ S \cup X \in SUBSET Nodes
  OBVIOUS
<1>2. /\ IsFiniteSet(S) /\ IsFiniteSet(T) /\ IsFiniteSet(X) /\ IsFiniteSet(T \ X)
      /\ Cardinality(S) \in Nat /\ Cardinality(T) \in Nat /\ Cardinality(X) \in Nat
      /\ Cardinality(T \ X) \in Nat /\ Cardinality(S \cap X) \in Nat
      /\ Cardinality(S \cup X) \in Nat
  BY <1>1, NodesFinite
<1>3. Cardinality(S \cup X) = Cardinality(S) + Cardinality(X) - Cardinality(S \cap X)
  BY <1>2, FS_Union, Zenon
<1>4. Cardinality((T \ X) \cup X) = Cardinality(T \ X) + Cardinality(X) - Cardinality((T \ X) \cap X)
  BY <1>2, FS_Union
<1>5. (T \ X) \cup X = T /\ (T \ X) \cap X = {}
  OBVIOUS
<1>6. Cardinality((T \ X) \cap X) = 0
  BY <1>5, FS_EmptySet
<1>7. Cardinality(T) = Cardinality(T \ X) + Cardinality(X)
  <2>1. Cardinality(T) = Cardinality(T \ X) + Cardinality(X) - 0
    BY <1>4, <1>5, <1>6
  <2>. QED
    BY <1>2, <2>1
<1>. QED
  BY <1>2, <1>3, <1>7

-------------------------------------------------------------------------------
(* The operations on the candidates and the cooldowns.                     *)

(* A key of due is the key of a candidate that waits.                      *)
LEMMA KeyOfNode ==
    ASSUME NEW ns, NEW d, NEW t, NodesOK(ns, d, t), NEW key \in d
    PROVE  /\ key[2] \in DOMAIN ns
           /\ ns[key[2]] # NotDue
           /\ key = <<ns[key[2]], key[2]>>
<1>1. PICK n \in DOMAIN ns : ns[n] # NotDue /\ key = <<ns[n], n>>
  BY DEF NodesOK
<1>. QED
  BY <1>1

(* Adding a candidate, in place of another or not, leaves those that were  *)
(* sent a query alone.                                                     *)
LEMMA AddNewOK ==
    ASSUME Inv, NEW node \in Nodes, AddNew(node)
    PROVE  /\ NodesOK(nodes', due', now)
           /\ Unqueued(nodes') = Unqueued(nodes)
           /\ DOMAIN nodes' \subseteq DOMAIN nodes \cup {node}
<1>. DEFINE waiting(ns) == {<<ns[n], n>> : n \in {m \in DOMAIN ns : ns[m] # NotDue}}
<1>0. at \in Nat /\ at <= now /\ at # NotDue /\ now \in Nat /\ at \in 0..now
  BY DEF Inv, Types, NotDue
<1>1. /\ DOMAIN nodes \in SUBSET Nodes
      /\ \A n \in DOMAIN nodes : nodes[n] \in {NotDue} \cup 0..now
      /\ due = waiting(nodes)
      /\ Cardinality(DOMAIN nodes) <= MaxNodes
      /\ MaxNodes \in Nat
  BY DiscoveryAssumption DEF Inv, Pool, NodesOK
<1>2. IsFiniteSet(DOMAIN nodes) /\ Cardinality(DOMAIN nodes) \in Nat
  BY <1>1, NodesFinite
<1>3. CASE node \in DOMAIN nodes
  <2>1. nodes' = nodes /\ due' = due
    BY <1>3 DEF AddNew
  <2>. QED
    BY <2>1 DEF Inv, Pool
<1>4. CASE node \notin DOMAIN nodes /\ UNCHANGED <<nodes, due>>
  BY <1>4 DEF Inv, Pool
<1>5. CASE node \notin DOMAIN nodes /\ ~Full /\ nodes' = Put(nodes, node, at) /\ due' = due \cup {<<at, node>>}
  <2>1. /\ DOMAIN nodes' = DOMAIN nodes \cup {node}
        /\ nodes'[node] = at
        /\ \A n \in DOMAIN nodes : nodes'[n] = nodes[n]
    BY <1>5 DEF Put
  <2>2. Cardinality(DOMAIN nodes') <= MaxNodes
    <3>1. Cardinality(DOMAIN nodes \cup {node}) = Cardinality(DOMAIN nodes) + 1
      BY <1>2, <1>5, FS_AddElement, Zenon
    <3>2. ~(Cardinality(DOMAIN nodes) >= MaxNodes)
      BY <1>5 DEF Full
    <3>. QED
      BY <1>1, <1>2, <2>1, <3>1, <3>2
  <2>3. {m \in DOMAIN nodes' : nodes'[m] # NotDue} = {m \in DOMAIN nodes : nodes[m] # NotDue} \cup {node}
    BY <1>0, <2>1
  <2>4. due' = waiting(nodes')
    BY <1>1, <1>5, <2>1, <2>3
  <2>5. Unqueued(nodes') = Unqueued(nodes)
    BY <1>0, <1>5, <2>1 DEF Unqueued
  <2>6. \A n \in DOMAIN nodes' : nodes'[n] \in {NotDue} \cup 0..now
    BY <1>0, <1>1, <2>1
  <2>. QED
    BY <1>1, <2>1, <2>2, <2>4, <2>5, <2>6 DEF NodesOK
<1>6. CASE /\ node \notin DOMAIN nodes
           /\ \E key \in Replaceable :
                /\ nodes' = Put(Without(nodes, {key[2]}), node, at)
                /\ due' = (due \ {key}) \cup {<<at, node>>}
  <2>1. PICK key \in Replaceable :
            /\ nodes' = Put(Without(nodes, {key[2]}), node, at)
            /\ due' = (due \ {key}) \cup {<<at, node>>}
    BY <1>6, Zenon
  <2>2. key \in due
    BY DEF Replaceable, FirstDue
  <2>3. key[2] \in DOMAIN nodes /\ nodes[key[2]] # NotDue /\ key = <<nodes[key[2]], key[2]>>
    BY <2>2, KeyOfNode DEF Inv, Pool
  <2>4. /\ DOMAIN nodes' = (DOMAIN nodes \ {key[2]}) \cup {node}
        /\ nodes'[node] = at
        /\ \A n \in DOMAIN nodes \ {key[2]} : nodes'[n] = nodes[n]
    BY <1>6, <2>1 DEF Put, Without, Restrict
  <2>5. Cardinality(DOMAIN nodes') <= MaxNodes
    <3>1. IsFiniteSet(DOMAIN nodes \ {key[2]}) /\ Cardinality(DOMAIN nodes \ {key[2]}) = Cardinality(DOMAIN nodes) - 1
      BY <1>2, <2>3, FS_RemoveElement
    <3>2. Cardinality((DOMAIN nodes \ {key[2]}) \cup {node}) = Cardinality(DOMAIN nodes \ {key[2]}) + 1
      BY <1>6, <3>1, FS_AddElement, Zenon
    <3>. QED
      BY <1>1, <1>2, <2>4, <3>1, <3>2
  <2>6. {m \in DOMAIN nodes' : nodes'[m] # NotDue}
            = ({m \in DOMAIN nodes : nodes[m] # NotDue} \ {key[2]}) \cup {node}
    BY <1>0, <2>3, <2>4
  <2>7. due' = waiting(nodes')
    <3>1. due \ {key} = {<<nodes[n], n>> : n \in {m \in DOMAIN nodes : nodes[m] # NotDue} \ {key[2]}}
      BY <1>1, <2>3
    <3>. QED
      BY <2>1, <2>4, <2>6, <3>1
  <2>8. Unqueued(nodes') = Unqueued(nodes)
    BY <1>0, <1>6, <2>3, <2>4 DEF Unqueued
  <2>9. \A n \in DOMAIN nodes' : nodes'[n] \in {NotDue} \cup 0..now
    BY <1>0, <1>1, <2>4
  <2>10. DOMAIN nodes' \subseteq DOMAIN nodes \cup {node}
    BY <2>4
  <2>. QED
    BY <1>1, <2>5, <2>7, <2>8, <2>9, <2>10 DEF NodesOK
<1>. QED
  BY <1>3, <1>4, <1>5, <1>6, Zenon DEF AddNew, Insert

(* A node leaves the cooldowns when its time has come.                     *)
LEMMA WarmOK ==
    ASSUME Inv, NEW node \in Nodes, ~Cooling(node), Warm(node)
    PROVE  /\ CoolingOK(cooldowns', cooldown_expiry')
           /\ DOMAIN cooldowns' = DOMAIN cooldowns \ {node}
           /\ \A n \in DOMAIN cooldowns' : cooldowns'[n] = cooldowns[n]
           /\ node \in DOMAIN cooldowns => cooldowns[node] <= now
<1>1. /\ DOMAIN cooldowns \subseteq Nodes
      /\ \A n \in DOMAIN cooldowns : cooldowns[n] \in Nat
      /\ cooldown_expiry = {<<cooldowns[n], n>> : n \in DOMAIN cooldowns}
      /\ at \in Nat /\ now \in Nat /\ at <= now
  BY DEF Inv, Pool, CoolingOK, Types
<1>2. /\ DOMAIN cooldowns' = DOMAIN cooldowns \ {node}
      /\ \A n \in DOMAIN cooldowns' : cooldowns'[n] = cooldowns[n]
  BY DEF Warm, Without, Restrict
<1>3. cooldown_expiry' = cooldown_expiry \ {<<cooldowns[n], n>> : n \in DOMAIN cooldowns \cap {node}}
  BY DEF Warm
<1>4. cooldown_expiry' = {<<cooldowns[n], n>> : n \in DOMAIN cooldowns \ {node}}
  BY <1>1, <1>3
<1>5. cooldown_expiry' = {<<cooldowns'[n], n>> : n \in DOMAIN cooldowns'}
  BY <1>2, <1>4
<1>6. node \in DOMAIN cooldowns => cooldowns[node] <= now
  BY <1>1 DEF Cooling
<1>. QED
  BY <1>1, <1>2, <1>5, <1>6 DEF CoolingOK

(* Nodes that were sent a query and cool down until an instant.            *)
LEMMA EnterCooldownOK ==
    ASSUME Inv, NEW gone \in SUBSET Unqueued(nodes), NEW until \in Nat, EnterCooldown(gone, until)
    PROVE  /\ NodesOK(nodes', due', now)
           /\ CoolingOK(cooldowns', cooldown_expiry')
           /\ DOMAIN nodes' = DOMAIN nodes \ gone
           /\ Unqueued(nodes') = Unqueued(nodes) \ gone
           /\ DOMAIN cooldowns' = DOMAIN cooldowns \cup gone
           /\ \A n \in DOMAIN cooldowns : cooldowns'[n] = cooldowns[n]
<1>1. gone \cap DOMAIN nodes = gone /\ gone \subseteq DOMAIN nodes /\ \A n \in gone : nodes[n] = NotDue
  BY DEF Unqueued
<1>2. /\ nodes' = Without(nodes, gone)
      /\ due' = due \ {<<nodes[n], n>> : n \in gone}
      /\ cooldowns' = [n \in DOMAIN cooldowns \cup gone |->
                            IF n \in gone THEN until ELSE cooldowns[n]]
      /\ cooldown_expiry' = cooldown_expiry \cup {<<until, n>> : n \in gone}
  BY <1>1 DEF EnterCooldown
<1>3. /\ DOMAIN nodes \in SUBSET Nodes
      /\ \A n \in DOMAIN nodes : nodes[n] \in {NotDue} \cup 0..now
      /\ due = {<<nodes[n], n>> : n \in {m \in DOMAIN nodes : nodes[m] # NotDue}}
      /\ Cardinality(DOMAIN nodes) <= MaxNodes
      /\ MaxNodes \in Nat
  BY DiscoveryAssumption DEF Inv, Pool, NodesOK
<1>4. /\ DOMAIN cooldowns \subseteq Nodes
      /\ \A n \in DOMAIN cooldowns : cooldowns[n] \in Nat
      /\ cooldown_expiry = {<<cooldowns[n], n>> : n \in DOMAIN cooldowns}
      /\ gone \cap DOMAIN cooldowns = {}
  BY <1>1 DEF Inv, Pool, CoolingOK, EveryNodePlaced
<1>5. DOMAIN nodes' = DOMAIN nodes \ gone /\ \A n \in DOMAIN nodes' : nodes'[n] = nodes[n]
  BY <1>2 DEF Without, Restrict
<1>6. Cardinality(DOMAIN nodes') <= MaxNodes
  <2>1. IsFiniteSet(DOMAIN nodes) /\ Cardinality(DOMAIN nodes) \in Nat
    BY <1>3, NodesFinite
  <2>2. DOMAIN nodes' \in SUBSET DOMAIN nodes
    BY <1>5
  <2>3. IsFiniteSet(DOMAIN nodes') /\ Cardinality(DOMAIN nodes') <= Cardinality(DOMAIN nodes)
    BY <2>1, <2>2, FS_Subset
  <2>4. Cardinality(DOMAIN nodes') \in Nat
    BY <2>3, FS_CardinalityType
  <2>. QED
    BY <1>3, <2>1, <2>3, <2>4
<1>7. due' = {<<nodes'[n], n>> : n \in {m \in DOMAIN nodes' : nodes'[m] # NotDue}}
  <2>1. {m \in DOMAIN nodes' : nodes'[m] # NotDue} = {m \in DOMAIN nodes : nodes[m] # NotDue}
    BY <1>1, <1>5
  <2>2. \A n \in gone : <<nodes[n], n>> \notin due
    BY <1>1, <1>3
  <2>3. due' = due
    BY <1>2, <2>2
  <2>. QED
    BY <1>3, <1>5, <2>1, <2>3
<1>8. /\ DOMAIN cooldowns' = DOMAIN cooldowns \cup gone
      /\ \A n \in DOMAIN cooldowns : cooldowns'[n] = cooldowns[n]
      /\ \A n \in gone : cooldowns'[n] = until
  BY <1>2, <1>4
<1>9. cooldown_expiry' = {<<cooldowns'[n], n>> : n \in DOMAIN cooldowns'}
  BY <1>2, <1>4, <1>8
<1>10. CoolingOK(cooldowns', cooldown_expiry')
  BY <1>1, <1>3, <1>4, <1>8, <1>9 DEF CoolingOK
<1>11. Unqueued(nodes') = Unqueued(nodes) \ gone
  BY <1>5 DEF Unqueued
<1>12. NodesOK(nodes', due', now)
  BY <1>3, <1>5, <1>6, <1>7 DEF NodesOK
<1>. QED
  BY <1>5, <1>8, <1>10, <1>11, <1>12

-------------------------------------------------------------------------------
(* The steps, by what they do to the nodes.                                *)

(* At first there are no nodes.                                            *)
LEMMA InitInv == Init => Inv
<1>. SUFFICES ASSUME Init PROVE Inv
  OBVIOUS
<1>1. /\ now = 0 /\ at = 0 /\ pc = "select" /\ target = NoNode /\ todo = {}
      /\ answer = NoAnswer /\ due = {} /\ cooldown_expiry = {}
      /\ DOMAIN nodes = {} /\ DOMAIN pending = {} /\ DOMAIN cooldowns = {}
  BY DEF Init, Empty
<1>2. Types
  BY <1>1 DEF Types, NoAnswer, Pcs
<1>3. Phases
  BY <1>1 DEF Phases, NoAnswer
<1>4. Busy = {}
  BY <1>1 DEF Busy, NoAnswer
<1>5. EveryNodePlaced
  BY <1>1, <1>4 DEF EveryNodePlaced
<1>6. Cardinality({}) = 0 /\ MaxNodes \in Nat /\ CooldownCapacity \in Nat
  BY FS_EmptySet, DiscoveryAssumption
<1>7. CooldownReserved
  BY <1>1, <1>4, <1>6 DEF CooldownReserved
<1>8. NodesOK(nodes, due, now)
  BY <1>1, <1>6 DEF NodesOK
<1>9. CoolingOK(cooldowns, cooldown_expiry)
  BY <1>1 DEF CoolingOK
<1>. QED
  BY <1>2, <1>3, <1>5, <1>7, <1>8, <1>9 DEF Inv, Pool

(* A step that leaves candidates and cooldowns alone.                      *)
LEMMA PoolKept ==
    ASSUME Inv, UNCHANGED <<now, nodes, due, cooldowns, cooldown_expiry>>
    PROVE  Honoured /\ CoolingOK(cooldowns', cooldown_expiry') /\ NodesOK(nodes', due', now')
<1>1. CoolingOK(cooldowns', cooldown_expiry') /\ NodesOK(nodes', due', now')
  BY Zenon DEF Inv, Pool
<1>2. DOMAIN cooldowns' = DOMAIN cooldowns /\ \A n \in DOMAIN cooldowns : cooldowns'[n] = cooldowns[n]
  OBVIOUS
<1>3. \A n \in DOMAIN cooldowns : cooldowns[n] \in Nat
  BY DEF Inv, Pool, CoolingOK
<1>4. Honoured
  BY <1>2, <1>3 DEF Honoured
<1>. QED
  BY <1>1, <1>4

(* A step that leaves the nodes where they are.                            *)
LEMMA QuietStep ==
    ASSUME Inv, UNCHANGED pool, UNCHANGED target, answer'.node = answer.node,
           now' \in {now, now + 1}
    PROVE  Pool' /\ Honoured
<1>1. /\ nodes' = nodes /\ due' = due /\ pending' = pending /\ cooldowns' = cooldowns
      /\ cooldown_expiry' = cooldown_expiry /\ target' = target
  BY DEF pool
<1>2. Busy' = Busy
  BY <1>1 DEF Busy
<1>3. EveryNodePlaced' /\ CooldownReserved'
  BY <1>1, <1>2 DEF Inv, Pool, EveryNodePlaced, CooldownReserved
<1>4. NodesOK(nodes, due, now')
  <2>1. now \in Nat
    BY DEF Inv, Types
  <2>2. \A n \in DOMAIN nodes : nodes[n] \in {NotDue} \cup 0..now'
    BY <2>1 DEF Inv, Pool, NodesOK
  <2>. QED
    BY <2>2 DEF Inv, Pool, NodesOK
<1>5. CoolingOK(cooldowns', cooldown_expiry')
  BY <1>1 DEF Inv, Pool
<1>6. Honoured
  BY <1>1 DEF Honoured, Inv, Pool, CoolingOK
<1>. QED
  BY <1>1, <1>3, <1>4, <1>5, <1>6 DEF Pool

(* A step after which busy nodes cool down.                                *)
LEMMA CoolingStep ==
    ASSUME Inv, NEW gone \in SUBSET Busy, NEW until \in Nat, EnterCooldown(gone, until),
           Busy' = Busy \ gone, {target', answer'.node} \cap DOMAIN pending' = {}, now' = now
    PROVE  Pool' /\ Honoured
<1>1. Busy = Unqueued(nodes) /\ DOMAIN nodes \cap DOMAIN cooldowns = {} /\ DOMAIN nodes \subseteq Nodes
      /\ DOMAIN cooldowns \subseteq Nodes /\ Busy \subseteq Nodes
  BY DEF Inv, Pool, EveryNodePlaced, Unqueued, NodesOK, CoolingOK
<1>2. /\ NodesOK(nodes', due', now)
      /\ CoolingOK(cooldowns', cooldown_expiry')
      /\ DOMAIN nodes' = DOMAIN nodes \ gone
      /\ Unqueued(nodes') = Unqueued(nodes) \ gone
      /\ DOMAIN cooldowns' = DOMAIN cooldowns \cup gone
      /\ \A n \in DOMAIN cooldowns : cooldowns'[n] = cooldowns[n]
  BY <1>1, EnterCooldownOK, Zenon
<1>3. EveryNodePlaced'
  <2>1. Busy' = {n \in DOMAIN nodes' : nodes'[n] = NotDue}
    BY <1>1, <1>2 DEF Unqueued
  <2>2. DOMAIN nodes' \cap DOMAIN cooldowns' = {}
    BY <1>1, <1>2
  <2>. QED
    BY <2>1, <2>2 DEF EveryNodePlaced
<1>4. CooldownReserved'
  <2>1. Cardinality(DOMAIN cooldowns) + Cardinality(Busy) <= CooldownCapacity
    BY DEF Inv, Pool, CooldownReserved
  <2>2. Cardinality(DOMAIN cooldowns') + Cardinality(Busy')
            <= Cardinality(DOMAIN cooldowns) + Cardinality(Busy)
    BY <1>1, <1>2, MoveCount
  <2>3. /\ Cardinality(DOMAIN cooldowns) \in Nat /\ Cardinality(Busy) \in Nat
        /\ Cardinality(DOMAIN cooldowns') \in Nat /\ Cardinality(Busy') \in Nat
    <3>1. DOMAIN cooldowns \in SUBSET Nodes /\ Busy \in SUBSET Nodes
          /\ DOMAIN cooldowns' \in SUBSET Nodes /\ Busy' \in SUBSET Nodes
      BY <1>1, <1>2
    <3>. QED
      BY <3>1, NodesFinite
  <2>4. Cardinality(DOMAIN cooldowns') + Cardinality(Busy') <= CooldownCapacity
    BY <2>1, <2>2, <2>3, DiscoveryAssumption
  <2>. QED
    BY <1>2, <2>4 DEF CooldownReserved, NodesOK
<1>5. Honoured
  BY <1>2 DEF Honoured, Inv, Pool, CoolingOK
<1>. QED
  BY <1>2, <1>3, <1>4, <1>5 DEF Pool

(* A step that admits a node whose cooldown is over.                       *)
LEMMA AdmitStep ==
    ASSUME Inv, NEW node \in Nodes, ~Cooling(node), Warm(node), AddNew(node),
           UNCHANGED <<now, pending, target, answer>>
    PROVE  Pool' /\ Honoured
<1>1. Busy' = Busy /\ {target', answer'.node} \cap DOMAIN pending' = {}
  BY DEF Busy, Inv, Pool, EveryNodePlaced
<1>2. /\ NodesOK(nodes', due', now)
      /\ Unqueued(nodes') = Unqueued(nodes)
      /\ DOMAIN nodes' \subseteq DOMAIN nodes \cup {node}
  BY AddNewOK
<1>3. /\ CoolingOK(cooldowns', cooldown_expiry')
      /\ DOMAIN cooldowns' = DOMAIN cooldowns \ {node}
      /\ \A n \in DOMAIN cooldowns' : cooldowns'[n] = cooldowns[n]
      /\ node \in DOMAIN cooldowns => cooldowns[node] <= now
  BY WarmOK
<1>4. EveryNodePlaced'
  <2>1. Busy = Unqueued(nodes) /\ DOMAIN nodes \cap DOMAIN cooldowns = {}
    BY DEF Inv, Pool, EveryNodePlaced, Unqueued
  <2>2. Busy' = {n \in DOMAIN nodes' : nodes'[n] = NotDue}
    BY <1>1, <1>2, <2>1 DEF Unqueued
  <2>. QED
    BY <1>1, <1>2, <1>3, <2>1, <2>2 DEF EveryNodePlaced
<1>5. CooldownReserved'
  <2>1. DOMAIN cooldowns \in SUBSET Nodes /\ Busy \in SUBSET Nodes
    BY DEF Inv, Pool, CoolingOK, NodesOK, EveryNodePlaced
  <2>2. /\ IsFiniteSet(DOMAIN cooldowns) /\ Cardinality(DOMAIN cooldowns) \in Nat
        /\ Cardinality(Busy) \in Nat
    BY <2>1, NodesFinite
  <2>3. DOMAIN cooldowns' \in SUBSET DOMAIN cooldowns /\ DOMAIN cooldowns' \in SUBSET Nodes
    BY <1>3, <2>1
  <2>4. Cardinality(DOMAIN cooldowns') \in Nat /\ Cardinality(DOMAIN cooldowns') <= Cardinality(DOMAIN cooldowns)
    BY <2>2, <2>3, NodesFinite, FS_Subset
  <2>5. Cardinality(DOMAIN cooldowns) + Cardinality(Busy) <= CooldownCapacity
    BY DEF Inv, Pool, CooldownReserved
  <2>6. Cardinality(DOMAIN cooldowns') + Cardinality(Busy) <= CooldownCapacity
    BY <2>2, <2>4, <2>5, DiscoveryAssumption
  <2>. QED
    BY <1>1, <1>2, <2>6 DEF CooldownReserved, NodesOK
<1>6. Honoured
  BY <1>3 DEF Honoured, CoolingOK
<1>. QED
  BY <1>2, <1>3, <1>4, <1>5, <1>6 DEF Pool

-------------------------------------------------------------------------------
(* The actions.                                                            *)

(* The ticks: cooldowns end, queries time out, seeds come in.              *)
LEMMA TickActions ==
    ASSUME Inv,
           \/ OnTick \/ Wake \/ Timeouts \/ \E seeds \in SUBSET Nodes : RefreshSeeds(seeds)
           \/ AdmitNext
    PROVE  Inv' /\ Honoured
<1>1. CASE OnTick
  <2>1. Types' /\ Phases'
    BY <1>1 DEF OnTick, pool, Inv, Types, Phases, Pcs
  <2>. QED
    BY <1>1, <2>1, QuietStep DEF OnTick, Inv
<1>2. CASE Wake
  <2>1. PICK key \in FirstDue(cooldown_expiry, at) :
            /\ cooldown_expiry' = cooldown_expiry \ {key}
            /\ cooldowns' = Without(cooldowns, {key[2]})
            /\ IF key[2] \in DOMAIN cooldowns THEN AddNew(key[2]) ELSE UNCHANGED <<nodes, due>>
    BY <1>2, ZenonT(60) DEF Wake
  <2>2. key \in cooldown_expiry /\ key[1] <= at
    BY DEF FirstDue
  <2>3. PICK n \in DOMAIN cooldowns : key = <<cooldowns[n], n>>
    BY <2>2 DEF Inv, Pool, CoolingOK
  <2>4. key[2] = n /\ key[1] = cooldowns[n] /\ n \in Nodes /\ cooldowns[n] \in Nat /\ at \in Nat
    BY <2>3 DEF Inv, Types, Pool, CoolingOK
  <2>5. ~Cooling(n)
    BY <2>2, <2>4 DEF Cooling
  <2>6. Warm(n)
    <3>1. DOMAIN cooldowns \cap {n} = {n}
      OBVIOUS
    <3>2. {<<cooldowns[m], m>> : m \in DOMAIN cooldowns \cap {n}} = {key}
      BY <2>3, <3>1
    <3>. QED
      BY <2>1, <2>4, <3>2 DEF Warm
  <2>7. AddNew(n)
    BY <2>1, <2>4
  <2>8. Types' /\ Phases'
    BY <1>2 DEF Wake, Inv, Types, Phases
  <2>9. UNCHANGED <<now, pending, target, answer>>
    BY <1>2, ZenonT(60) DEF Wake
  <2>. QED
    BY <2>4, <2>5, <2>6, <2>7, <2>8, <2>9, AdmitStep DEF Inv
<1>3. CASE Timeouts
  <2>. DEFINE expired == {n \in DOMAIN pending : pending[n] <= at}
  <2>1. /\ pending' = Without(pending, expired) /\ EnterCooldown(expired, at + FailureDelay)
        /\ UNCHANGED <<now, at, target, todo, answer>> /\ pc = "wake" /\ pc' = "seed"
    BY <1>3 DEF Timeouts
  <2>2. Types' /\ Phases'
    BY <2>1 DEF Without, Restrict, Inv, Types, Phases, Pcs
  <2>3. target = NoNode /\ answer.node = NoNode
    BY <2>1 DEF Inv, Phases
  <2>4. DOMAIN pending' = DOMAIN pending \ expired
    BY <2>1 DEF Without, Restrict
  <2>5. expired \in SUBSET Busy /\ Busy' = Busy \ expired
    BY <2>1, <2>3, <2>4 DEF Busy
  <2>6. {target', answer'.node} \cap DOMAIN pending' = {}
    BY <2>1, <2>3, <2>4 DEF Inv, Pool, EveryNodePlaced
  <2>7. at + FailureDelay \in Nat
    BY DiscoveryAssumption DEF Inv, Types
  <2>. HIDE DEF expired
  <2>. QED
    BY <2>1, <2>2, <2>5, <2>6, <2>7, CoolingStep DEF Inv
<1>4. ASSUME NEW seeds \in SUBSET Nodes, RefreshSeeds(seeds)
      PROVE  Inv' /\ Honoured
  <2>1. Types' /\ Phases'
    BY <1>4 DEF RefreshSeeds, pool, Inv, Types, Phases, Pcs
  <2>2. UNCHANGED pool /\ UNCHANGED target /\ answer'.node = answer.node /\ now' = now
    BY <1>4 DEF RefreshSeeds
  <2>. QED
    BY <2>1, <2>2, QuietStep DEF Inv
<1>5. CASE AdmitNext
  <2>1. PICK node \in todo : AdmitNode(node) /\ todo' = todo \ {node}
    BY <1>5 DEF AdmitNext
  <2>2. UNCHANGED <<now, pc, at, left, pending, next_seed_refresh, target, answer, dedup>>
    BY <1>5 DEF AdmitNext
  <2>3. Types' /\ Phases' /\ node \in Nodes
    BY <2>1, <2>2 DEF Inv, Types, Phases
  <2>4. CASE Cooling(node) /\ UNCHANGED <<nodes, due, cooldowns, cooldown_expiry>>
    <3>1. UNCHANGED pool /\ UNCHANGED target /\ answer'.node = answer.node /\ now' = now
      BY <2>2, <2>4 DEF pool
    <3>. QED
      BY <2>3, <3>1, QuietStep DEF Inv
  <2>5. CASE ~Cooling(node) /\ Warm(node) /\ AddNew(node)
    BY <2>2, <2>3, <2>5, AdmitStep DEF Inv
  <2>. QED
    BY <2>1, <2>4, <2>5 DEF AdmitNode
<1>. QED
  BY <1>1, <1>2, <1>3, <1>4, <1>5

(* A query is sent, or fails to be.                                        *)
LEMMA SendActions ==
    ASSUME Inv, StartSend \/ Sent \/ SendFails \/ DispatchEnds
    PROVE  Inv' /\ Honoured
<1>1. CASE StartSend
  <2>1. PICK key \in FirstDue(due, at) :
            /\ due' = due \ {key}
            /\ nodes' = [nodes EXCEPT ![key[2]] = NotDue]
            /\ target' = key[2]
    BY <1>1, Zenon DEF StartSend
  <2>2. /\ UNCHANGED <<now, at, pending, cooldowns, cooldown_expiry, todo, answer>>
        /\ pc = "dispatch" /\ pc' = "send" /\ Reserved
    BY <1>1 DEF StartSend, MayQuery
  <2>. DEFINE n == key[2]
  <2>3. n \in DOMAIN nodes /\ nodes[n] # NotDue /\ key = <<nodes[n], n>>
    <3>1. key \in due
      BY DEF FirstDue
    <3>. QED
      BY <3>1, KeyOfNode DEF Inv, Pool
  <2>. HIDE DEF n
  <2>4. due' = due \ {<<nodes[n], n>>} /\ nodes' = [nodes EXCEPT ![n] = NotDue] /\ target' = n
    BY <2>1, <2>3 DEF n
  <2>5. /\ DOMAIN nodes \subseteq Nodes
        /\ \A m \in DOMAIN nodes : nodes[m] \in {NotDue} \cup 0..now
        /\ due = {<<nodes[m], m>> : m \in {k \in DOMAIN nodes : nodes[k] # NotDue}}
        /\ Cardinality(DOMAIN nodes) <= MaxNodes
    BY DEF Inv, Pool, NodesOK
  <2>6. n \in Nodes /\ n # NoNode /\ target = NoNode /\ answer.node = NoNode
    BY <2>2, <2>3, <2>5, DiscoveryAssumption DEF Inv, Phases
  <2>7. Types' /\ Phases'
    BY <2>2, <2>4, <2>6 DEF Inv, Types, Phases, Pcs
  <2>8. DOMAIN nodes' = DOMAIN nodes /\ nodes'[n] = NotDue /\ \A m \in DOMAIN nodes \ {n} : nodes'[m] = nodes[m]
    BY <2>3, <2>4
  <2>9. NodesOK(nodes', due', now')
    <3>1. {k \in DOMAIN nodes' : nodes'[k] # NotDue} = {k \in DOMAIN nodes : nodes[k] # NotDue} \ {n}
      BY <2>8
    <3>2. due' = {<<nodes[m], m>> : m \in {k \in DOMAIN nodes : nodes[k] # NotDue} \ {n}}
      BY <2>4, <2>5
    <3>3. due' = {<<nodes'[m], m>> : m \in {k \in DOMAIN nodes' : nodes'[k] # NotDue}}
      BY <2>8, <3>1, <3>2
    <3>. QED
      BY <2>2, <2>5, <2>8, <3>3 DEF NodesOK
  <2>10. Busy = DOMAIN pending /\ Busy' = DOMAIN pending \cup {n}
    BY <2>2, <2>4, <2>6 DEF Busy
  <2>11. EveryNodePlaced'
    <3>1. Busy = {k \in DOMAIN nodes : nodes[k] = NotDue} /\ DOMAIN nodes \cap DOMAIN cooldowns = {}
          /\ {target, answer.node} \cap DOMAIN pending = {}
      BY DEF Inv, Pool, EveryNodePlaced
    <3>2. Busy' = {k \in DOMAIN nodes' : nodes'[k] = NotDue}
      BY <2>8, <2>10, <3>1, <2>3
    <3>3. {target', answer'.node} \cap DOMAIN pending' = {}
      BY <2>2, <2>3, <2>4, <2>10, <3>1
    <3>. QED
      BY <2>2, <2>8, <3>1, <3>2, <3>3 DEF EveryNodePlaced
  <2>12. CooldownReserved'
    <3>1. DOMAIN cooldowns \in SUBSET Nodes /\ DOMAIN pending \in SUBSET Nodes
      BY DEF Inv, Types, Pool, CoolingOK
    <3>2. /\ Cardinality(DOMAIN cooldowns) \in Nat /\ Cardinality(DOMAIN pending) \in Nat
          /\ IsFiniteSet(DOMAIN pending)
      BY <3>1, NodesFinite
    <3>3. Cardinality(DOMAIN pending \cup {n}) <= Cardinality(DOMAIN pending) + 1
          /\ Cardinality(DOMAIN pending \cup {n}) \in Nat
      <4>1. Cardinality(DOMAIN pending \cup {n}) =
                IF n \in DOMAIN pending THEN Cardinality(DOMAIN pending)
                ELSE Cardinality(DOMAIN pending) + 1
        BY <3>2, FS_AddElement
      <4>. QED
        BY <3>2, <4>1
    <3>4. Cardinality(DOMAIN cooldowns) + Cardinality(DOMAIN pending \cup {n}) <= CooldownCapacity
      BY <2>2, <3>2, <3>3, DiscoveryAssumption DEF Reserved
    <3>. QED
      BY <2>2, <2>5, <2>8, <2>10, <3>4 DEF CooldownReserved
  <2>13. Honoured /\ CoolingOK(cooldowns', cooldown_expiry')
    BY <2>2 DEF Honoured, Inv, Pool, CoolingOK
  <2>. QED
    BY <2>7, <2>9, <2>11, <2>12, <2>13 DEF Inv, Pool
<1>2. CASE Sent
  <2>1. /\ pc = "send" /\ pc' = "dispatch" /\ pending' = Put(pending, target, now + QueryTimeout)
        /\ target' = NoNode
        /\ UNCHANGED <<now, at, nodes, due, cooldowns, cooldown_expiry, todo, answer>>
    BY <1>2 DEF Sent
  <2>2. target \in Nodes /\ target # NoNode /\ answer.node = NoNode
    BY <2>1 DEF Inv, Types, Phases
  <2>3. DOMAIN pending' = DOMAIN pending \cup {target}
    BY <2>1 DEF Put
  <2>4. Types' /\ Phases'
    <3>1. /\ now' = now /\ at' = at /\ pc' = "dispatch" /\ target' = NoNode /\ todo' = todo
          /\ answer' = answer /\ DOMAIN pending' \subseteq Nodes
      BY <2>1, <2>2, <2>3 DEF Inv, Types
    <3>2. Types'
      BY <3>1 DEF Inv, Types, Pcs
    <3>3. Phases'
      BY <2>2, <3>1 DEF Phases
    <3>. QED
      BY <3>2, <3>3
  <2>5. Busy' = Busy
    BY <2>1, <2>2, <2>3 DEF Busy
  <2>6. NoNode \notin DOMAIN pending'
    BY <2>2, <2>3, DiscoveryAssumption DEF Inv, Types
  <2>7. EveryNodePlaced' /\ CooldownReserved'
    BY <2>1, <2>2, <2>5, <2>6 DEF Inv, Pool, EveryNodePlaced, CooldownReserved
  <2>8. Honoured /\ CoolingOK(cooldowns', cooldown_expiry') /\ NodesOK(nodes', due', now')
    BY <2>1, PoolKept, Zenon
  <2>. QED
    BY <2>4, <2>7, <2>8 DEF Inv, Pool
<1>3. CASE SendFails
  <2>1. /\ pc = "send" /\ pc' = "dispatch" /\ EnterCooldown({target}, at + FailureDelay)
        /\ target' = NoNode /\ UNCHANGED <<now, at, pending, todo, answer>>
    BY <1>3 DEF SendFails
  <2>2. target \in Nodes /\ target # NoNode /\ answer.node = NoNode
    BY <2>1 DEF Inv, Types, Phases
  <2>3. Types' /\ Phases'
    BY <2>1, <2>2 DEF Inv, Types, Phases, Pcs
  <2>4. target \notin DOMAIN pending /\ NoNode \notin DOMAIN pending
    BY DiscoveryAssumption DEF Inv, Types, Pool, EveryNodePlaced
  <2>5. {target} \in SUBSET Busy /\ Busy' = Busy \ {target}
    BY <2>1, <2>2, <2>4 DEF Busy
  <2>6. {target', answer'.node} \cap DOMAIN pending' = {}
    BY <2>1, <2>2, <2>4
  <2>7. at + FailureDelay \in Nat
    BY DiscoveryAssumption DEF Inv, Types
  <2>. QED
    BY <2>1, <2>3, <2>5, <2>6, <2>7, CoolingStep DEF Inv
<1>4. CASE DispatchEnds
  <2>1. Types' /\ Phases'
    BY <1>4 DEF DispatchEnds, pool, Inv, Types, Phases, Pcs
  <2>. QED
    BY <1>4, <2>1, QuietStep DEF DispatchEnds, Inv
<1>. QED
  BY <1>1, <1>2, <1>3, <1>4

(* An answer is refused, or taken and its samples and neighbours handled.  *)
LEMMA AnswerActions ==
    ASSUME Inv,
           \/ \E node \in Nodes : Unsupported(node)
           \/ \E node \in Nodes, interval \in Intervals : Invalid(node, interval)
           \/ \E node \in Nodes, samples \in SUBSET Hashes, interval \in Intervals :
                    AcceptAnswer(node, samples, interval)
           \/ \E hash \in Hashes : TakeSample(hash)
           \/ \E neighbours \in SUBSET Nodes : AnswerEnds(neighbours)
           \/ NeighboursEnd
    PROVE  Inv' /\ Honoured
<1>1. ASSUME NEW node \in Nodes, NEW wait \in Nat, RejectAnswer(node, wait)
      PROVE  Inv' /\ Honoured
  <2>1. /\ pc = "select" /\ node \in DOMAIN pending
        /\ pending' = Without(pending, {node}) /\ EnterCooldown({node}, now + wait)
        /\ UNCHANGED <<now, pc, at, target, todo, answer>>
    BY <1>1 DEF RejectAnswer, Matched
  <2>2. target = NoNode /\ answer.node = NoNode /\ NoNode \notin DOMAIN pending
    BY <2>1, DiscoveryAssumption DEF Inv, Types, Phases
  <2>3. DOMAIN pending' = DOMAIN pending \ {node}
    BY <2>1 DEF Without, Restrict
  <2>4. Types' /\ Phases'
    BY <2>1, <2>3, ZenonT(60) DEF Inv, Types, Phases
  <2>5. {node} \in SUBSET Busy /\ Busy' = Busy \ {node}
    BY <2>1, <2>2, <2>3 DEF Busy
  <2>6. {target', answer'.node} \cap DOMAIN pending' = {}
    BY <2>1, <2>2, <2>3
  <2>7. now + wait \in Nat
    BY DEF Inv, Types
  <2>. QED
    BY <2>1, <2>4, <2>5, <2>6, <2>7, CoolingStep DEF Inv
<1>2. ASSUME NEW node \in Nodes, Unsupported(node)
      PROVE  Inv' /\ Honoured
  <2>1. FailureDelay \in Nat
    BY DiscoveryAssumption
  <2>. QED
    BY <1>1, <1>2, <2>1 DEF Unsupported
<1>3. ASSUME NEW node \in Nodes, NEW interval \in Intervals, Invalid(node, interval)
      PROVE  Inv' /\ Honoured
  <2>1. FailureDelay \in Nat /\ interval \in Nat /\ MaxInterval \in Nat
    BY DiscoveryAssumption
  <2>2. Max({FailureDelay, Min({interval, MaxInterval})}) \in Nat
    BY <2>1, OfTwo
  <2>. QED
    BY <1>1, <1>3, <2>2 DEF Invalid
<1>4. ASSUME NEW node \in Nodes, NEW samples \in SUBSET Hashes, NEW interval \in Intervals,
             AcceptAnswer(node, samples, interval)
      PROVE  Inv' /\ Honoured
  <2>1. /\ pc = "select" /\ pc' = "samples" /\ at' = now /\ node \in DOMAIN pending
        /\ pending' = Without(pending, {node})
        /\ answer' = [node |-> node, samples |-> samples, interval |-> interval, novel |-> FALSE]
        /\ UNCHANGED <<now, nodes, due, cooldowns, cooldown_expiry, target, todo>>
    BY <1>4 DEF AcceptAnswer, Matched
  <2>2. /\ target = NoNode /\ answer.node = NoNode /\ NoNode \notin DOMAIN pending
        /\ node # NoNode /\ interval \in Nat
    BY <2>1, DiscoveryAssumption DEF Inv, Types, Phases
  <2>3. DOMAIN pending' = DOMAIN pending \ {node} /\ answer'.node = node
    BY <2>1 DEF Without, Restrict
  <2>4. Types' /\ Phases'
    <3>1. /\ now' = now /\ at' = now /\ pc' = "samples" /\ target' = NoNode /\ todo' = todo
          /\ DOMAIN pending' \subseteq DOMAIN pending /\ answer'.node \in Nodes
      BY <2>1, <2>2, <2>3
    <3>2. answer' \in [node : Nodes \cup {NoNode}, samples : SUBSET Hashes, interval : Nat,
                       novel : BOOLEAN]
      BY <2>1, <2>2
    <3>3. Types'
      <4>1. now \in Nat /\ todo \subseteq Nodes /\ DOMAIN pending \subseteq Nodes
        BY Zenon DEF Inv, Types
      <4>2. at' \in 0..now' /\ now' \in Nat
        BY <3>1, <4>1
      <4>3. pc' \in Pcs /\ target' \in Nodes \cup {NoNode}
        BY <3>1 DEF Pcs
      <4>4. DOMAIN pending' \subseteq Nodes /\ todo' \subseteq Nodes
        BY <3>1, <4>1
      <4>. QED
        BY <3>2, <4>2, <4>3, <4>4, Zenon DEF Types
    <3>4. Phases'
      BY <3>1, DiscoveryAssumption DEF Phases
    <3>. QED
      BY <3>3, <3>4
  <2>5. Busy' = Busy
    BY <2>1, <2>2, <2>3 DEF Busy
  <2>6. EveryNodePlaced' /\ CooldownReserved'
    BY <2>1, <2>2, <2>3, <2>5, ZenonT(60) DEF Inv, Pool, EveryNodePlaced, CooldownReserved
  <2>7. Honoured /\ CoolingOK(cooldowns', cooldown_expiry') /\ NodesOK(nodes', due', now')
    BY <2>1, PoolKept, Zenon
  <2>. QED
    BY <2>4, <2>6, <2>7 DEF Inv, Pool
<1>5. ASSUME NEW hash \in Hashes, TakeSample(hash)
      PROVE  Inv' /\ Honoured
  <2>. DEFINE news == answer.novel \/ ~Duplicate(DedupExpire(dedup, at), hash, answer.node, "Sample")
  <2>1. /\ pc = "samples"
        /\ answer' = [answer EXCEPT !.samples = @ \ {hash}, !.novel = news]
        /\ UNCHANGED <<now, pc, at, left, pool, next_seed_refresh, target, todo>>
    BY <1>5, Zenon DEF TakeSample
  <2>2. news \in BOOLEAN
    OBVIOUS
  <2>. HIDE DEF news
  <2>3. /\ answer' \in [node : Nodes \cup {NoNode}, samples : SUBSET Hashes, interval : Nat,
                         novel : BOOLEAN]
        /\ answer'.node = answer.node
    BY <2>1, <2>2, ZenonT(60) DEF Inv, Types
  <2>4. Types' /\ Phases'
    BY <2>1, <2>3 DEF pool, Inv, Types, Phases
  <2>. QED
    BY <2>1, <2>3, <2>4, QuietStep DEF Inv
<1>6. ASSUME NEW neighbours \in SUBSET Nodes, AnswerEnds(neighbours)
      PROVE  Inv' /\ Honoured
  <2>1. /\ pc = "samples" /\ pc' = "neighbours" /\ EnterCooldown({answer.node}, at + Wait)
        /\ answer' = NoAnswer /\ todo' = neighbours /\ UNCHANGED <<now, at, pending, target>>
    BY <1>6 DEF AnswerEnds
  <2>2. answer.node \in Nodes /\ answer.node # NoNode /\ target = NoNode
    BY <2>1 DEF Inv, Types, Phases
  <2>3. Types' /\ Phases'
    BY <2>1, <2>2, ZenonT(60) DEF Inv, Types, Phases, Pcs, NoAnswer
  <2>4. answer.node \notin DOMAIN pending /\ NoNode \notin DOMAIN pending
    BY DiscoveryAssumption, ZenonT(60) DEF Inv, Types, Pool, EveryNodePlaced
  <2>5. {answer.node} \in SUBSET Busy /\ Busy' = Busy \ {answer.node}
    BY <2>1, <2>2, <2>4, ZenonT(60) DEF Busy, NoAnswer
  <2>6. {target', answer'.node} \cap DOMAIN pending' = {}
    BY <2>1, <2>2, <2>4, ZenonT(60) DEF NoAnswer
  <2>7. at + Wait \in Nat
    BY WaitNatural DEF Inv, Types
  <2>. QED
    BY <2>1, <2>3, <2>5, <2>6, <2>7, CoolingStep DEF Inv
<1>7. CASE NeighboursEnd
  <2>1. Types' /\ Phases'
    BY <1>7 DEF NeighboursEnd, pool, Inv, Types, Phases, Pcs
  <2>. QED
    BY <1>7, <2>1, QuietStep DEF NeighboursEnd, Inv
<1>. QED
  BY <1>2, <1>3, <1>4, <1>5, <1>6, <1>7

(* The rest leaves the nodes alone.                                        *)
LEMMA OtherActions ==
    ASSUME Inv,
           \/ \E hash \in Hashes, node \in Nodes : ObserveGetPeers(hash, node)
           \/ Shutdown \/ Tick \/ UNCHANGED vars
    PROVE  Inv' /\ Honoured
<1>1. /\ UNCHANGED <<at, pool, target, todo, answer>>
      /\ now' \in {now, now + 1}
      /\ pc' = pc \/ (pc = "select" /\ pc' = "stopped")
  BY DEF ObserveGetPeers, Shutdown, Tick, vars, pool
<1>2. Types' /\ Phases'
  <2>1. now \in Nat /\ at \in 0..now
    BY DEF Inv, Types
  <2>2. at' \in 0..now' /\ now' \in Nat
    BY <1>1, <2>1
  <2>. QED
    BY <1>1, <2>2 DEF pool, Inv, Types, Phases, Pcs
<1>. QED
  BY <1>1, <1>2, QuietStep DEF Inv

-------------------------------------------------------------------------------
(* The memory of hashes.                                                   *)

(* Its queue names every hash once.                                        *)
MemoryOK(d) ==
    /\ DOMAIN d = {"entries", "expiry"}
    /\ DedupType(d)
    /\ {d.expiry[i][2] : i \in 1..Len(d.expiry)} = DOMAIN d.entries
    /\ \A i, j \in 1..Len(d.expiry) : d.expiry[i][2] = d.expiry[j][2] => i = j
    /\ Len(d.expiry) <= DedupCapacity
    /\ \A h \in DOMAIN d.entries : Cardinality(DOMAIN d.entries[h]) \in 1..MaxHashSources

(* The queue of a sound memory.                                            *)
LEMMA MemoryQueue ==
    ASSUME NEW d, MemoryOK(d)
    PROVE  /\ d.expiry \in Seq(Nat \X Hashes) /\ Len(d.expiry) \in Nat
           /\ Len(d.expiry) <= DedupCapacity
<1>1. d.expiry \in Seq(Nat \X Hashes) /\ Len(d.expiry) <= DedupCapacity
  BY Zenon DEF MemoryOK, DedupType
<1>. QED
  BY <1>1

(* The hashes of the queue are those of the map.                           *)
LEMMA MemoryHashes ==
    ASSUME NEW d, MemoryOK(d)
    PROVE  /\ \A i \in 1..Len(d.expiry) : d.expiry[i][2] \in DOMAIN d.entries
           /\ \A h \in DOMAIN d.entries : \E i \in 1..Len(d.expiry) : d.expiry[i][2] = h
<1>. DEFINE S == {d.expiry[i][2] : i \in 1..Len(d.expiry)}
<1>1. S = DOMAIN d.entries
  BY DEF MemoryOK
<1>2. \A i \in 1..Len(d.expiry) : d.expiry[i][2] \in S
  OBVIOUS
<1>3. \A h \in S : \E i \in 1..Len(d.expiry) : d.expiry[i][2] = h
  OBVIOUS
<1>. HIDE DEF S
<1>. QED
  BY <1>1, <1>2, <1>3

(* So there are as many pairs as hashes.                                   *)
LEMMA MemoryConsistent ==
    ASSUME NEW d, MemoryOK(d)
    PROVE  /\ DedupConsistent(d)
           /\ Len(d.expiry) \in Nat
           /\ Len(d.expiry) = Cardinality(DOMAIN d.entries)
<1>. DEFINE n == Len(d.expiry)
            f == [i \in 1..n |-> d.expiry[i][2]]
<1>1. n \in Nat
  BY MemoryQueue, Zenon
<1>2. f \in Bijection(1..n, DOMAIN d.entries)
  <2>0. /\ \A i \in 1..n : d.expiry[i][2] \in DOMAIN d.entries
        /\ \A h \in DOMAIN d.entries : \E i \in 1..n : d.expiry[i][2] = h
    BY MemoryHashes
  <2>1. f \in [1..n -> DOMAIN d.entries]
    BY <2>0
  <2>2. \A h \in DOMAIN d.entries : \E i \in 1..n : f[i] = h
    BY <2>0
  <2>3. \A i, j \in 1..n : f[i] = f[j] => i = j
    BY DEF MemoryOK
  <2>. HIDE DEF f
  <2>. QED
    BY <2>1, <2>2, <2>3 DEF Bijection, Injection, Surjection, IsInjective
<1>3. ExistsBijection(1..n, DOMAIN d.entries)
  BY <1>2 DEF ExistsBijection
<1>4. IsFiniteSet(1..n) /\ Cardinality(1..n) = n
  BY <1>1, FS_Interval
<1>5. Cardinality(DOMAIN d.entries) = n
  BY <1>3, <1>4, FS_Bijection
<1>. QED
  BY <1>1, <1>5 DEF MemoryOK, DedupConsistent

(* Dropping pairs from the front of the queue, each with its hash.         *)
Dropped(d, n, r) ==
    /\ DOMAIN r = {"entries", "expiry"}
    /\ r.entries = Restrict(d.entries, DOMAIN d.entries \ {d.expiry[i][2] : i \in 1..n})
    /\ r.expiry \in Seq(Nat \X Hashes)
    /\ Len(r.expiry) = Len(d.expiry) - n
    /\ \A i \in 1..Len(r.expiry) : r.expiry[i] = d.expiry[n + i]

(* Positions before and after the cut.                                     *)
LEMMA Cut ==
    ASSUME NEW a \in Nat, NEW n \in 0..a
    PROVE  /\ a - n \in Nat /\ a - n <= a /\ n \in Nat
           /\ \A i \in 1..a - n : n + i \in 1..a
           /\ \A i, j \in 1..a - n : n + i = n + j => i = j
           /\ \A i \in 1..a - n : \A j \in 1..n : j \in 1..a /\ j # n + i
           /\ \A j \in 1..a : j \notin 1..n => j - n \in 1..a - n /\ n + (j - n) = j
OBVIOUS

LEMMA DropOK ==
    ASSUME NEW d, MemoryOK(d), NEW n \in 0..Len(d.expiry), NEW r, Dropped(d, n, r)
    PROVE  MemoryOK(r)
<1>. DEFINE a == Len(d.expiry)
            b == Len(r.expiry)
<1>1. a \in Nat /\ a <= DedupCapacity /\ b = a - n
  BY MemoryQueue, Zenon DEF Dropped
<1>2. /\ DOMAIN r = {"entries", "expiry"} /\ r.expiry \in Seq(Nat \X Hashes)
      /\ \A i \in 1..b : r.expiry[i] = d.expiry[n + i]
  BY Zenon DEF Dropped
<1>3. /\ DOMAIN r.entries = DOMAIN d.entries \ {d.expiry[i][2] : i \in 1..n}
      /\ \A h \in DOMAIN r.entries : r.entries[h] = d.entries[h]
  <2>1. r.entries = Restrict(d.entries, DOMAIN d.entries \ {d.expiry[i][2] : i \in 1..n})
    BY DEF Dropped
  <2>. QED
    BY <2>1, Zenon DEF Restrict
<1>4. DedupType(r)
  BY <1>2, <1>3, ZenonT(60) DEF MemoryOK, DedupType
<1>5. \A i, j \in 1..b : r.expiry[i][2] = r.expiry[j][2] => i = j
  <2>. TAKE i, j \in 1..b
  <2>1. n + i \in 1..a /\ n + j \in 1..a /\ (n + i = n + j => i = j)
    BY <1>1, Cut
  <2>2. d.expiry[n + i][2] = d.expiry[n + j][2] => n + i = n + j
    BY <2>1, ZenonT(60) DEF MemoryOK
  <2>. QED
    BY <1>2, <2>1, <2>2, Zenon
<1>6. {r.expiry[i][2] : i \in 1..b} = DOMAIN r.entries
  <2>1. ASSUME NEW i \in 1..b PROVE r.expiry[i][2] \in DOMAIN r.entries
    <3>1. n + i \in 1..a /\ \A j \in 1..n : j \in 1..a /\ j # n + i
      BY <1>1, Cut
    <3>2. d.expiry[n + i][2] \in DOMAIN d.entries
      BY <3>1, MemoryHashes, ZenonT(60)
    <3>3. \A j \in 1..n : d.expiry[j][2] # d.expiry[n + i][2]
      BY <3>1, ZenonT(60) DEF MemoryOK
    <3>4. d.expiry[n + i][2] \notin {d.expiry[j][2] : j \in 1..n}
      BY <3>3, ZenonT(60)
    <3>. QED
      BY <1>2, <1>3, <3>2, <3>4, Zenon
  <2>2. ASSUME NEW h \in DOMAIN r.entries PROVE \E i \in 1..b : r.expiry[i][2] = h
    <3>1. PICK j \in 1..a : d.expiry[j][2] = h
      BY <1>3, MemoryHashes, Zenon
    <3>2. j \notin 1..n
      BY <1>3, <3>1, Zenon
    <3>3. j - n \in 1..b /\ n + (j - n) = j
      BY <1>1, <3>2, Cut
    <3>. QED
      BY <1>2, <3>1, <3>3, ZenonT(60)
  <2>. DEFINE S == {r.expiry[i][2] : i \in 1..b}
  <2>3. \A h \in DOMAIN r.entries : h \in S
    BY <2>2
  <2>4. \A h \in S : h \in DOMAIN r.entries
    BY <2>1, Zenon
  <2>. HIDE DEF S
  <2>5. S = DOMAIN r.entries
    BY <2>3, <2>4, Zenon
  <2>. QED
    BY <2>5 DEF S
<1>7. b <= DedupCapacity
  BY <1>1, Cut, DedupAssumption
<1>8. \A h \in DOMAIN r.entries : Cardinality(DOMAIN r.entries[h]) \in 1..MaxHashSources
  BY <1>3, ZenonT(60) DEF MemoryOK
<1>. QED
  BY <1>2, <1>4, <1>5, <1>6, <1>7, <1>8, Zenon DEF MemoryOK

(* A nonempty set of naturals has a least element.                         *)
LEMMA LeastExists ==
    ASSUME NEW T \in SUBSET Nat, T # {}
    PROVE  \E x \in T : \A y \in T : x <= y
<1>. DEFINE R == OpToRel(<, Nat)
<1>1. IsWellFoundedOn(R, Nat)
  BY NatLessThanWellFounded
<1>2. \A a, b \in Nat : <<a, b>> \in R <=> a < b
  BY DEF OpToRel
<1>. HIDE DEF R
<1>3. PICK x \in T : \A y \in T : ~(<<y, x>> \in R)
  BY <1>1, WFMin, Zenon
<1>4. \A y \in T : x <= y
  <2>. TAKE y \in T
  <2>1. x \in Nat /\ y \in Nat
    OBVIOUS
  <2>2. ~(y < x)
    BY <1>2, <1>3, <2>1, Zenon
  <2>. QED
    BY <2>1, <2>2
<1>. QED
  BY <1>4

(* What is due at the front of the queue is a prefix of it.                *)
LEMMA DuePrefix ==
    ASSUME NEW d, MemoryOK(d), NEW t \in Nat
    PROVE  LET gone == {i \in 1..Len(d.expiry) : \A j \in 1..i : d.expiry[j][1] <= t}
           IN  Cardinality(gone) \in 0..Len(d.expiry) /\ gone = 1..Cardinality(gone)
<1>. DEFINE gone == {i \in 1..Len(d.expiry) : \A j \in 1..i : d.expiry[j][1] <= t}
            T == (1..Len(d.expiry)) \ gone
<1>1. Len(d.expiry) \in Nat
  BY DEF MemoryOK, DedupType
<1>2. \A i \in gone, j \in 1..Len(d.expiry) : j <= i => j \in gone
  <2>. TAKE i \in gone, j \in 1..Len(d.expiry)
  <2>. HAVE j <= i
  <2>1. \A k \in 1..j : k \in 1..i
    BY <1>1
  <2>. QED
    BY <2>1
<1>3. gone \subseteq 1..Len(d.expiry)
  OBVIOUS
<1>. HIDE DEF gone
<1>4. \E n \in 0..Len(d.expiry) : gone = 1..n
  <2>1. CASE T = {}
    <3>1. gone = 1..Len(d.expiry)
      BY <1>3, <2>1, ZenonT(60)
    <3>. QED
      BY <1>1, <3>1
  <2>2. CASE T # {}
    <3>1. T \in SUBSET Nat
      BY <1>1
    <3>2. PICK m \in T : \A y \in T : m <= y
      <4>. HIDE DEF T
      <4>. QED
        BY <2>2, <3>1, LeastExists
    <3>3. m \in 1..Len(d.expiry) /\ m \notin gone
      OBVIOUS
    <3>4. \A i \in 1..Len(d.expiry) : i \in gone <=> i < m
      <4>. TAKE i \in 1..Len(d.expiry)
      <4>1. i < m => i \in gone
        BY <1>1, <3>2, <3>3
      <4>2. m <= i => i \notin gone
        BY <1>2, <3>3
      <4>. QED
        BY <1>1, <3>3, <4>1, <4>2
    <3>5. gone = 1..(m - 1)
      <4>1. \A i : i \in 1..(m - 1) <=> i \in 1..Len(d.expiry) /\ i < m
        BY <1>1, <3>3
      <4>2. \A i : i \in gone <=> i \in 1..(m - 1)
        BY <1>3, <3>4, <4>1, ZenonT(60)
      <4>. QED
        BY <4>2, Zenon
    <3>. QED
      BY <1>1, <3>3, <3>5
  <2>. QED
    BY <2>1, <2>2
<1>5. PICK n \in 0..Len(d.expiry) : gone = 1..n
  BY <1>4
<1>6. Cardinality(gone) = n
  BY <1>1, <1>5, FS_Interval
<1>. QED
  BY <1>5, <1>6, ZenonT(60) DEF gone

(* The queue without its first n keys.                                     *)
LEMMA DropFirst ==
    ASSUME NEW S, NEW s \in Seq(S), NEW n \in 0..Len(s)
    PROVE  /\ SubSeq(s, n + 1, Len(s)) \in Seq(S)
           /\ Len(SubSeq(s, n + 1, Len(s))) = Len(s) - n
           /\ \A i \in 1..Len(s) - n : SubSeq(s, n + 1, Len(s))[i] = s[n + i]
<1>1. Len(s) \in Nat /\ n \in Nat /\ n <= Len(s)
  OBVIOUS
<1>2. Len(SubSeq(s, n + 1, Len(s))) = Len(s) - n
  BY <1>1
<1>3. \A i \in 1..Len(s) - n : SubSeq(s, n + 1, Len(s))[i] = s[n + i]
  BY <1>1
<1>4. SubSeq(s, n + 1, Len(s)) \in Seq(S)
  BY <1>1
<1>. QED
  BY <1>2, <1>3, <1>4

(* Expiry, the first step of contains.                                     *)
LEMMA DedupExpireOK ==
    ASSUME NEW d, MemoryOK(d), NEW t \in Nat
    PROVE  MemoryOK(DedupExpire(d, t))
<1>. DEFINE gone == {i \in 1..Len(d.expiry) : \A j \in 1..i : d.expiry[j][1] <= t}
            n == Cardinality(gone)
            r == DedupExpire(d, t)
            s == d.expiry
<1>1. n \in 0..Len(s) /\ gone = 1..n
  BY DuePrefix, ZenonT(60)
<1>2. /\ DOMAIN r = {"entries", "expiry"}
      /\ r.entries = Restrict(d.entries, DOMAIN d.entries \ {s[i][2] : i \in gone})
      /\ r.expiry = SubSeq(s, n + 1, Len(s))
  BY ZenonT(60) DEF DedupExpire
<1>3. r.entries = Restrict(d.entries, DOMAIN d.entries \ {s[i][2] : i \in 1..n})
  BY <1>1, <1>2, ZenonT(60)
<1>. HIDE DEF gone, n, r
<1>4. s \in Seq(Nat \X Hashes) /\ Len(s) \in Nat /\ n \in Nat /\ n <= Len(s)
  BY <1>1, MemoryQueue
<1>5. /\ r.expiry \in Seq(Nat \X Hashes)
      /\ Len(r.expiry) = Len(s) - n
      /\ \A i \in 1..Len(s) - n : r.expiry[i] = s[n + i]
  <2>1. /\ SubSeq(s, n + 1, Len(s)) \in Seq(Nat \X Hashes)
        /\ Len(SubSeq(s, n + 1, Len(s))) = Len(s) - n
        /\ \A i \in 1..Len(s) - n : SubSeq(s, n + 1, Len(s))[i] = s[n + i]
    <3>. HIDE DEF s
    <3>. QED
      BY <1>1, <1>4, DropFirst, Zenon
  <2>. QED
    BY <1>2, <2>1, Zenon
<1>6. MemoryOK(r)
  <2>1. \A i \in 1..Len(r.expiry) : r.expiry[i] = s[n + i]
    BY <1>5, Zenon
  <2>. QED
    BY <1>1, <1>2, <1>3, <1>5, <2>1, DropOK, ZenonT(60) DEF Dropped
<1>. QED
  BY <1>6 DEF r

(* A full memory gives up its oldest hash.                                 *)
LEMMA MakeRoomOK ==
    ASSUME NEW d, MemoryOK(d)
    PROVE  /\ MemoryOK(MakeRoom(d))
           /\ DOMAIN MakeRoom(d).entries \subseteq DOMAIN d.entries
           /\ Len(MakeRoom(d).expiry) < DedupCapacity
<1>. DEFINE s == d.expiry
            r == MakeRoom(d)
<1>1. /\ s \in Seq(Nat \X Hashes) /\ Len(s) \in Nat /\ Len(s) <= DedupCapacity
      /\ Cardinality(DOMAIN d.entries) = Len(s) /\ DedupCapacity \in Nat \ {0}
  BY MemoryConsistent, MemoryQueue, DedupAssumption, Zenon
<1>2. CASE Len(s) >= DedupCapacity
  <2>1. s # <<>>
    BY <1>1, <1>2
  <2>2. /\ r.entries = Restrict(d.entries, DOMAIN d.entries \ {Head(s)[2]})
        /\ r.expiry = Tail(s)
        /\ DOMAIN r = {"entries", "expiry"}
    BY <1>1, <1>2, <2>1 DEF MakeRoom
  <2>. HIDE DEF r
  <2>3. /\ Tail(s) \in Seq(Nat \X Hashes) /\ Len(Tail(s)) = Len(s) - 1
        /\ \A i \in 1..Len(Tail(s)) : Tail(s)[i] = s[1 + i]
        /\ Head(s) = s[1]
    BY <1>1, <2>1
  <2>4. {s[i][2] : i \in 1..1} = {Head(s)[2]}
    <3>1. 1..1 = {1}
      OBVIOUS
    <3>. QED
      BY <2>3, <3>1
  <2>5. 1 \in 0..Len(s)
    BY <1>1, <1>2
  <2>6. MemoryOK(r)
    <3>1. r.entries = Restrict(d.entries, DOMAIN d.entries \ {d.expiry[i][2] : i \in 1..1})
      BY <2>2, <2>4, ZenonT(60)
    <3>2. /\ r.expiry \in Seq(Nat \X Hashes) /\ Len(r.expiry) = Len(d.expiry) - 1
          /\ \A i \in 1..Len(r.expiry) : r.expiry[i] = d.expiry[1 + i]
      BY <2>2, <2>3
    <3>. QED
      BY <2>2, <2>5, <3>1, <3>2, DropOK, ZenonT(60) DEF Dropped
  <2>7. DOMAIN r.entries \subseteq DOMAIN d.entries
    BY <2>2 DEF Restrict
  <2>8. Len(r.expiry) < DedupCapacity
    <3>1. Len(r.expiry) = Len(s) - 1
      BY <2>2, <2>3, Zenon
    <3>. HIDE DEF s
    <3>. QED
      BY <1>1, <3>1
  <2>. QED
    BY <2>6, <2>7, <2>8 DEF r
<1>3. CASE ~(Len(s) >= DedupCapacity)
  <2>1. r = d
    BY <1>1, <1>3 DEF MakeRoom
  <2>. QED
    BY <1>1, <1>3, <2>1
<1>. QED
  BY <1>2, <1>3

(* The nodes that supplied a hash, as a record of the memory has them.     *)
SourcesOK(f) ==
    /\ DOMAIN f \subseteq Nodes
    /\ \A n \in DOMAIN f : f[n] \in HashSources
    /\ Cardinality(DOMAIN f) \in 1..MaxHashSources

(* A hash learns a node while there is room.                               *)
LEMMA SourcesWithOK ==
    ASSUME NEW f, SourcesOK(f), NEW node \in Nodes, NEW source \in HashSources
    PROVE  SourcesOK(SourcesWith(f, node, source))
<1>. DEFINE g == SourcesWith(f, node, source)
<1>1. CASE node \in DOMAIN f
  <2>1. DOMAIN g = DOMAIN f /\ \A n \in DOMAIN g : g[n] \in {f[n], source}
    BY <1>1 DEF SourcesWith
  <2>. HIDE DEF g
  <2>2. SourcesOK(g)
    BY <2>1 DEF SourcesOK
  <2>. QED
    BY <2>2 DEF g
<1>2. CASE node \notin DOMAIN f /\ ~(Cardinality(DOMAIN f) < MaxHashSources)
  BY <1>2 DEF SourcesWith
<1>3. CASE node \notin DOMAIN f /\ Cardinality(DOMAIN f) < MaxHashSources
  <2>1. g = Put(f, node, source)
    BY <1>3 DEF SourcesWith
  <2>2. DOMAIN g = DOMAIN f \cup {node} /\ \A n \in DOMAIN g : g[n] = IF n = node THEN source ELSE f[n]
    BY <2>1 DEF Put
  <2>. HIDE DEF g
  <2>3. IsFiniteSet(DOMAIN f) /\ Cardinality(DOMAIN f) \in Nat
    BY NodesFinite DEF SourcesOK
  <2>4. Cardinality(DOMAIN f \cup {node}) = Cardinality(DOMAIN f) + 1
    BY <1>3, <2>3, FS_AddElement, Zenon
  <2>5. Cardinality(DOMAIN g) \in 1..MaxHashSources
    <3>1. Cardinality(DOMAIN g) = Cardinality(DOMAIN f) + 1 /\ MaxHashSources \in Nat
      BY <2>2, <2>4, DedupAssumption
    <3>. QED
      BY <1>3, <2>3, <3>1
  <2>6. DOMAIN g \subseteq Nodes /\ \A n \in DOMAIN g : g[n] \in HashSources
    BY <2>2 DEF SourcesOK
  <2>7. SourcesOK(g)
    BY <2>5, <2>6 DEF SourcesOK
  <2>. QED
    BY <2>7 DEF g
<1>. QED
  BY <1>1, <1>2, <1>3

(* insert, of a hash that may be known.                                    *)
LEMMA DedupInsertOK ==
    ASSUME NEW d, MemoryOK(d), NEW hash \in Hashes, NEW node \in Nodes,
           NEW source \in HashSources, NEW t \in Nat
    PROVE  MemoryOK(DedupInsert(d, hash, node, source, t))
<1>1. CASE hash \in DOMAIN d.entries
  <2>. DEFINE f == SourcesWith(d.entries[hash], node, source)
              r == [d EXCEPT !.entries[hash] = f]
  <2>1. DedupInsert(d, hash, node, source, t) = r
    BY <1>1 DEF DedupInsert
  <2>2. SourcesOK(f)
    <3>1. SourcesOK(d.entries[hash])
      BY <1>1 DEF MemoryOK, DedupType, SourcesOK
    <3>. QED
      BY <3>1, SourcesWithOK
  <2>. HIDE DEF f
  <2>3. /\ DOMAIN r = {"entries", "expiry"} /\ r.expiry = d.expiry
        /\ DOMAIN r.entries = DOMAIN d.entries
        /\ \A h \in DOMAIN d.entries : r.entries[h] = IF h = hash THEN f ELSE d.entries[h]
    BY <1>1 DEF MemoryOK
  <2>. HIDE DEF r
  <2>4. \A h \in DOMAIN r.entries : SourcesOK(r.entries[h])
    BY <2>2, <2>3, Zenon DEF MemoryOK, DedupType, SourcesOK
  <2>5. MemoryOK(r)
    <3>1. DedupType(r)
      <4>1. DOMAIN r.entries \subseteq Hashes /\ r.expiry \in Seq(Nat \X Hashes)
        BY <2>3, MemoryQueue, Zenon DEF MemoryOK, DedupType
      <4>2. \A h \in DOMAIN r.entries : /\ DOMAIN r.entries[h] \subseteq Nodes
                                        /\ \A n \in DOMAIN r.entries[h] : r.entries[h][n] \in HashSources
        BY <2>4, Zenon DEF SourcesOK
      <4>. QED
        BY <4>1, <4>2, Zenon DEF DedupType
    <3>2. \A h \in DOMAIN r.entries : Cardinality(DOMAIN r.entries[h]) \in 1..MaxHashSources
      BY <2>4 DEF SourcesOK
    <3>3. /\ {r.expiry[i][2] : i \in 1..Len(r.expiry)} = DOMAIN r.entries
          /\ \A i, j \in 1..Len(r.expiry) : r.expiry[i][2] = r.expiry[j][2] => i = j
          /\ Len(r.expiry) <= DedupCapacity
      <4>1. /\ {d.expiry[i][2] : i \in 1..Len(d.expiry)} = DOMAIN d.entries
            /\ \A i, j \in 1..Len(d.expiry) : d.expiry[i][2] = d.expiry[j][2] => i = j
            /\ Len(d.expiry) <= DedupCapacity
        BY DEF MemoryOK
      <4>2. r.expiry = d.expiry /\ DOMAIN r.entries = DOMAIN d.entries
        BY <2>3
      <4>. QED
        BY <4>1, <4>2, Zenon
    <3>4. DOMAIN r = {"entries", "expiry"}
      BY <2>3
    <3>. QED
      BY <3>1, <3>2, <3>3, <3>4, Zenon DEF MemoryOK
  <2>. QED
    BY <2>1, <2>5
<1>2. CASE hash \notin DOMAIN d.entries
  <2>. DEFINE m == MakeRoom(d)
              one == Put([n \in {} |-> 0], node, source)
              r == DedupInsert(d, hash, node, source, t)
              s == m.expiry
              pair == <<t + DedupTtl, hash>>
  <2>1. MemoryOK(m) /\ DOMAIN m.entries \subseteq DOMAIN d.entries /\ Len(s) < DedupCapacity
    BY MakeRoomOK
  <2>2. /\ r.entries = Put(m.entries, hash, one) /\ r.expiry = Append(s, pair)
        /\ DOMAIN r = {"entries", "expiry"}
    BY <1>2 DEF DedupInsert
  <2>3. SourcesOK(one)
    <3>1. DOMAIN one = {node} /\ one[node] = source
      BY DEF Put
    <3>2. Cardinality({node}) = 1 /\ MaxHashSources \in Nat \ {0}
      BY FS_Singleton, DedupAssumption
    <3>3. Cardinality({node}) \in 1..MaxHashSources
      BY <3>2
    <3>. HIDE DEF one
    <3>. QED
      BY <3>1, <3>3 DEF SourcesOK
  <2>. HIDE DEF m, one, r
  <2>4. /\ DOMAIN r.entries = DOMAIN m.entries \cup {hash} /\ hash \notin DOMAIN m.entries
        /\ \A h \in DOMAIN r.entries : r.entries[h] = IF h = hash THEN one ELSE m.entries[h]
    BY <1>2, <2>1, <2>2 DEF Put
  <2>5. \A h \in DOMAIN r.entries : SourcesOK(r.entries[h])
    BY <2>1, <2>3, <2>4 DEF MemoryOK, DedupType, SourcesOK
  <2>6. pair \in Nat \X Hashes /\ pair[2] = hash
    BY DedupAssumption
  <2>. HIDE DEF pair
  <2>7. s \in Seq(Nat \X Hashes) /\ Len(s) \in Nat
    BY <2>1, MemoryQueue, Zenon
  <2>8. /\ r.expiry \in Seq(Nat \X Hashes) /\ Len(r.expiry) = Len(s) + 1
        /\ \A i \in 1..Len(s) : r.expiry[i] = s[i]
        /\ r.expiry[Len(s) + 1] = pair
    <3>. HIDE DEF s
    <3>1. /\ Append(s, pair) \in Seq(Nat \X Hashes) /\ Len(Append(s, pair)) = Len(s) + 1
          /\ \A i \in 1..Len(s) : Append(s, pair)[i] = s[i]
          /\ Append(s, pair)[Len(s) + 1] = pair
      BY <2>6, <2>7
    <3>. QED
      BY <2>2, <3>1, Zenon
  <2>9. \A i \in 1..Len(r.expiry) : i \in 1..Len(s) \/ i = Len(s) + 1
    <3>1. \A i \in 1..Len(s) + 1 : i \in 1..Len(s) \/ i = Len(s) + 1
      BY <2>7
    <3>. QED
      BY <2>8, <3>1, Zenon
  <2>10. /\ \A i \in 1..Len(s) : s[i][2] \in DOMAIN m.entries
         /\ \A h \in DOMAIN m.entries : \E i \in 1..Len(s) : s[i][2] = h
    BY <2>1, MemoryHashes
  <2>11. {r.expiry[i][2] : i \in 1..Len(r.expiry)} = DOMAIN r.entries
    <3>. DEFINE S == {r.expiry[i][2] : i \in 1..Len(r.expiry)}
    <3>1. \A i \in 1..Len(r.expiry) : r.expiry[i][2] \in DOMAIN r.entries
      BY <2>4, <2>6, <2>8, <2>9, <2>10, ZenonT(60)
    <3>2. \A i \in 1..Len(s) : i \in 1..Len(r.expiry)
      BY <2>7, <2>8
    <3>3. Len(s) + 1 \in 1..Len(r.expiry)
      BY <2>7, <2>8
    <3>4. \A h \in DOMAIN r.entries : \E i \in 1..Len(r.expiry) : r.expiry[i][2] = h
      <4>. TAKE h \in DOMAIN r.entries
      <4>1. CASE h = hash
        BY <2>6, <2>8, <3>3, <4>1
      <4>2. CASE h # hash
        <5>1. PICK i \in 1..Len(s) : s[i][2] = h
          BY <2>4, <2>10, <4>2
        <5>. QED
          BY <2>8, <3>2, <5>1, Zenon
      <4>. QED
        BY <4>1, <4>2
    <3>5. \A h \in S : h \in DOMAIN r.entries
      BY <3>1
    <3>6. \A h \in DOMAIN r.entries : h \in S
      BY <3>4
    <3>. HIDE DEF S
    <3>7. S = DOMAIN r.entries
      BY <3>5, <3>6
    <3>. QED
      BY <3>7 DEF S
  <2>12. \A i, j \in 1..Len(r.expiry) : r.expiry[i][2] = r.expiry[j][2] => i = j
    <3>1. \A i, j \in 1..Len(s) : s[i][2] = s[j][2] => i = j
      BY <2>1 DEF MemoryOK
    <3>2. \A i \in 1..Len(s) : s[i][2] # hash
      BY <2>4, <2>10
    <3>. QED
      BY <2>6, <2>8, <2>9, <3>1, <3>2, ZenonT(60)
  <2>13. Len(r.expiry) <= DedupCapacity
    <3>1. Len(r.expiry) = Len(s) + 1 /\ Len(s) < DedupCapacity /\ DedupCapacity \in Nat
      BY <2>1, <2>8, DedupAssumption
    <3>. QED
      BY <2>7, <3>1
  <2>14. DedupType(r)
    BY <2>1, <2>4, <2>5, <2>8 DEF DedupType, MemoryOK, SourcesOK
  <2>15. MemoryOK(r)
    BY <2>2, <2>5, <2>11, <2>12, <2>13, <2>14, ZenonT(60) DEF MemoryOK, SourcesOK
  <2>. QED
    BY <2>15 DEF r
<1>. QED
  BY <1>1, <1>2

-------------------------------------------------------------------------------
(* The numbers and the memory, step by step.                               *)

Limit == Max({Burst, ExpiryBatch})

Numbers ==
    /\ now <= MaxTime
    /\ left \in 0..Limit
    /\ \A n \in DOMAIN pending : pending[n] \in 0..(now + QueryTimeout)

(* The limit bounds both loops.                                            *)
LEMMA LimitOK == Limit \in Nat /\ Burst \in 0..Limit /\ ExpiryBatch \in 0..Limit
<1>1. Burst \in Nat /\ ExpiryBatch \in Nat
  BY DiscoveryAssumption
<1>2. \E x \in {Burst, ExpiryBatch} : \A y \in {Burst, ExpiryBatch} : x >= y
  BY <1>1
<1>3. Limit \in {Burst, ExpiryBatch} /\ \A y \in {Burst, ExpiryBatch} : Limit >= y
  BY <1>2 DEF Limit, Max
<1>. QED
  BY <1>1, <1>3

(* Loops count down, and a query is given its timeout from now on.         *)
LEMMA NumbersStep ==
    ASSUME Inv, Numbers, [Next]_vars
    PROVE  Numbers'
<1>1. now \in Nat /\ MaxTime \in Nat /\ QueryTimeout \in Nat /\ Limit \in Nat
  BY LimitOK, DiscoveryAssumption DEF Inv, Types
<1>2. CASE UNCHANGED <<now, left, pending>>
  BY <1>2 DEF Numbers
<1>3. CASE /\ UNCHANGED <<now, pending>>
           /\ left' \in {0, Burst, ExpiryBatch} \/ (left > 0 /\ left' = left - 1)
  <2>1. left' \in 0..Limit
    BY <1>1, <1>3, LimitOK DEF Numbers
  <2>. QED
    BY <1>3, <2>1 DEF Numbers
<1>4. CASE /\ now' = now /\ left' \in {0, left}
           /\ \E S \in SUBSET Nodes : pending' = Without(pending, S)
  <2>1. DOMAIN pending' \subseteq DOMAIN pending /\ \A n \in DOMAIN pending' : pending'[n] = pending[n]
    BY <1>4 DEF Without, Restrict
  <2>2. left' \in 0..Limit
    BY <1>1, <1>4 DEF Numbers
  <2>. QED
    BY <1>4, <2>1, <2>2 DEF Numbers
<1>5. CASE Sent
  <2>1. /\ now' = now /\ left' = left
        /\ DOMAIN pending' = DOMAIN pending \cup {target}
        /\ \A n \in DOMAIN pending' :
                pending'[n] = IF n = target THEN now + QueryTimeout ELSE pending[n]
    BY <1>5 DEF Sent, Put
  <2>2. \A n \in DOMAIN pending' : pending'[n] \in 0..(now + QueryTimeout)
    BY <1>1, <2>1 DEF Numbers
  <2>. QED
    BY <2>1, <2>2 DEF Numbers
<1>6. CASE Tick
  <2>1. now < MaxTime /\ now' = now + 1 /\ left' = left /\ pending' = pending
    BY <1>6 DEF Tick, pool
  <2>2. \A n \in DOMAIN pending : pending[n] \in 0..(now + 1 + QueryTimeout)
    BY <1>1 DEF Numbers
  <2>. QED
    BY <1>1, <2>1, <2>2 DEF Numbers
<1>7. OnTick \/ Wake \/ (\E seeds \in SUBSET Nodes : RefreshSeeds(seeds)) \/ StartSend \/ DispatchEnds
        => /\ UNCHANGED <<now, pending>>
           /\ left' \in {0, Burst, ExpiryBatch} \/ (left > 0 /\ left' = left - 1)
  BY ZenonT(60) DEF OnTick, Wake, RefreshSeeds, StartSend, MayQuery, DispatchEnds, pool
<1>8. Timeouts => /\ now' = now /\ left' \in {0, left}
                  /\ \E S \in SUBSET Nodes : pending' = Without(pending, S)
  <2>. SUFFICES ASSUME Timeouts
                PROVE  /\ now' = now /\ left' \in {0, left}
                       /\ \E S \in SUBSET Nodes : pending' = Without(pending, S)
    OBVIOUS
  <2>1. {n \in DOMAIN pending : pending[n] <= at} \in SUBSET Nodes
    BY DEF Inv, Types
  <2>. QED
    BY <2>1 DEF Timeouts
<1>9. ASSUME NEW node \in Nodes, pending' = Without(pending, {node}), now' = now, left' = left
      PROVE  Numbers'
  <2>1. {node} \in SUBSET Nodes
    OBVIOUS
  <2>. QED
    BY <1>4, <1>9, <2>1
<1>10. ASSUME NEW node \in Nodes,
              \/ Unsupported(node)
              \/ \E interval \in Intervals : Invalid(node, interval)
              \/ \E samples \in SUBSET Hashes, interval \in Intervals :
                    AcceptAnswer(node, samples, interval)
       PROVE  Numbers'
  <2>1. pending' = Without(pending, {node}) /\ now' = now /\ left' = left
    BY <1>10, ZenonT(60) DEF Unsupported, Invalid, RejectAnswer, AcceptAnswer
  <2>. QED
    BY <1>9, <2>1
<1>11. ASSUME \/ AdmitNext \/ SendFails \/ (\E hash \in Hashes : TakeSample(hash))
              \/ (\E neighbours \in SUBSET Nodes : AnswerEnds(neighbours)) \/ NeighboursEnd
              \/ (\E hash \in Hashes, node \in Nodes : ObserveGetPeers(hash, node))
              \/ Shutdown \/ UNCHANGED vars
       PROVE  UNCHANGED <<now, left, pending>>
  BY <1>11, ZenonT(60) DEF AdmitNext, SendFails, TakeSample, AnswerEnds, NeighboursEnd, ObserveGetPeers, Shutdown,
         vars, pool
<1>. QED
  BY <1>2, <1>3, <1>4, <1>5, <1>6, <1>7, <1>8, <1>10, <1>11 DEF Next

(* emit_hash expires, and may insert.                                      *)
LEMMA EmitHashOK ==
    ASSUME MemoryOK(dedup), NEW hash \in Hashes, NEW node \in Nodes, NEW source \in HashSources,
           NEW t \in Nat, EmitHash(hash, node, source, t)
    PROVE  MemoryOK(dedup')
<1>. DEFINE d == DedupExpire(dedup, t)
<1>1. MemoryOK(d)
  BY DedupExpireOK
<1>2. dedup' = d \/ dedup' = DedupInsert(d, hash, node, source, t)
  BY DEF EmitHash
<1>. HIDE DEF d
<1>. QED
  BY <1>1, <1>2, DedupInsertOK

(* Hashes are sampled from the node that answered, or asked for by a node. *)
LEMMA MemoryStep ==
    ASSUME Inv, MemoryOK(dedup), [Next]_vars
    PROVE  MemoryOK(dedup')
<1>1. ASSUME NEW hash \in Hashes, TakeSample(hash)
      PROVE  MemoryOK(dedup')
  <2>1. EmitHash(hash, answer.node, "Sample", at) /\ pc = "samples"
    BY <1>1 DEF TakeSample
  <2>2. answer.node \in Nodes /\ at \in Nat /\ "Sample" \in HashSources
    BY <2>1 DEF Inv, Types, Phases, HashSources
  <2>. QED
    BY <2>1, <2>2, EmitHashOK
<1>2. ASSUME NEW hash \in Hashes, NEW node \in Nodes, ObserveGetPeers(hash, node)
      PROVE  MemoryOK(dedup')
  <2>1. EmitHash(hash, node, "GetPeers", now) /\ now \in Nat /\ "GetPeers" \in HashSources
    BY <1>2 DEF ObserveGetPeers, Inv, Types, HashSources
  <2>. QED
    BY <2>1, EmitHashOK
<1>3. ASSUME \/ OnTick \/ Wake \/ Timeouts \/ (\E seeds \in SUBSET Nodes : RefreshSeeds(seeds))
             \/ AdmitNext \/ StartSend \/ Sent \/ SendFails \/ DispatchEnds
             \/ (\E neighbours \in SUBSET Nodes : AnswerEnds(neighbours)) \/ NeighboursEnd
             \/ Shutdown \/ Tick \/ UNCHANGED vars
      PROVE  dedup' = dedup
  BY <1>3, ZenonT(60) DEF OnTick, Wake, Timeouts, RefreshSeeds, AdmitNext, StartSend, Sent, SendFails, DispatchEnds,
         AnswerEnds, NeighboursEnd, Shutdown, Tick, vars
<1>4. ASSUME \/ \E node \in Nodes : Unsupported(node)
             \/ \E node \in Nodes, interval \in Intervals : Invalid(node, interval)
             \/ \E node \in Nodes, samples \in SUBSET Hashes, interval \in Intervals :
                    AcceptAnswer(node, samples, interval)
      PROVE  dedup' = dedup
  BY <1>4, ZenonT(60) DEF Unsupported, Invalid, RejectAnswer, AcceptAnswer
<1>. QED
  BY <1>1, <1>2, <1>3, <1>4 DEF Next

-------------------------------------------------------------------------------
(* The theorems.                                                           *)

(* Every step keeps the invariant and the intervals.                       *)
LEMMA NextStep == Inv /\ [Next]_vars => Inv' /\ Honoured
<1>. SUFFICES ASSUME Inv, [Next]_vars PROVE Inv' /\ Honoured
  OBVIOUS
<1>. QED
  BY TickActions, SendActions, AnswerActions, OtherActions DEF Next

(* Nodes, due keys, pending queries and cooldowns agree in every state of  *)
(* the actor, whatever it awaits and whoever answers meanwhile.            *)
THEOREM Invariance == Spec => []Inv
BY InitInv, NextStep, PTL DEF Spec

(* A candidate waits, is being sent a query, waits for its answer or has   *)
(* answered, exactly one of these, and none of them cools down: the        *)
(* handlers find every node that they look up.                             *)
THEOREM NodesAlwaysPlaced == Spec => []EveryNodePlaced
<1>1. Inv => EveryNodePlaced
  BY DEF Inv, Pool
<1>. QED
  BY <1>1, Invariance, PTL

(* A cooldown slot is free for every node that may still need one, and the *)
(* pool of candidates stays within its limit.                              *)
THEOREM CooldownAlwaysReserved == Spec => []CooldownReserved
<1>1. Inv => CooldownReserved
  BY DEF Inv, Pool
<1>. QED
  BY <1>1, Invariance, PTL

(* No cooldown is cut short, however often its node is discovered again.   *)
THEOREM IntervalAlwaysHonoured == Spec => IntervalHonoured
<1>1. Inv /\ [Next]_vars => [Honoured]_vars
  BY NextStep
<1>. QED
  BY <1>1, Invariance, PTL DEF Spec, IntervalHonoured, Honoured

(* Due keys and cooldown ends agree with the nodes, and the memory of      *)
(* hashes with its expiry queue, which names every hash once.              *)
THEOREM IndexesAlwaysAgree == Spec => []IndexesAgree
<1>. DEFINE All == Inv /\ Numbers /\ MemoryOK(dedup)
<1>1. Init => All
  <2>. SUFFICES ASSUME Init PROVE Numbers /\ MemoryOK(dedup)
    BY InitInv
  <2>1. Numbers
    BY LimitOK, DiscoveryAssumption DEF Init, Empty, Numbers
  <2>2. /\ DOMAIN dedup = {"entries", "expiry"} /\ DOMAIN dedup.entries = {}
        /\ dedup.expiry = <<>> /\ Len(dedup.expiry) = 0
    BY DEF Init, EmptyDedup
  <2>3. 1..Len(dedup.expiry) = {} /\ dedup.expiry \in Seq(Nat \X Hashes)
    BY <2>2
  <2>4. MemoryOK(dedup)
    <3>1. Len(dedup.expiry) <= DedupCapacity
      BY <2>2, DedupAssumption
    <3>2. DedupType(dedup)
      BY <2>2, <2>3, Zenon DEF DedupType
    <3>. QED
      BY <2>2, <2>3, <3>1, <3>2, Zenon DEF MemoryOK
  <2>. QED
    BY <2>1, <2>4
<1>2. All /\ [Next]_vars => All'
  BY NextStep, NumbersStep, MemoryStep
<1>3. All => IndexesAgree
  <2>. SUFFICES ASSUME All PROVE IndexesAgree
    OBVIOUS
  <2>1. TypeOK
    <3>1. now \in 0..MaxTime /\ at \in 0..now /\ left \in 0..Max({Burst, ExpiryBatch})
      BY DiscoveryAssumption DEF Inv, Types, Numbers, Limit
    <3>2. /\ pc \in Pcs /\ target \in Nodes \cup {NoNode} /\ todo \subseteq Nodes
          /\ answer.samples \subseteq Hashes
      BY DEF Inv, Types
    <3>3. /\ DOMAIN nodes \subseteq Nodes
          /\ \A n \in DOMAIN nodes : nodes[n] \in {NotDue} \cup 0..now
          /\ DOMAIN cooldowns \subseteq Nodes
      BY DEF Inv, Pool, NodesOK, CoolingOK
    <3>4. /\ DOMAIN pending \subseteq Nodes
          /\ \A n \in DOMAIN pending : pending[n] \in 0..(now + QueryTimeout)
      BY DEF Inv, Types, Numbers
    <3>5. DedupType(dedup)
      BY DEF MemoryOK
    <3>. QED
      BY <3>1, <3>2, <3>3, <3>4, <3>5, Zenon DEF TypeOK, Pcs
  <2>2. DedupConsistent(dedup)
    BY MemoryConsistent
  <2>. QED
    BY <2>1, <2>2, ZenonT(60) DEF Inv, Pool, NodesOK, CoolingOK, IndexesAgree
<1>. QED
  BY <1>1, <1>2, <1>3, PTL DEF Spec
===============================================================================
