------------------------------ MODULE RecentProbes ------------------------------
(***************************************************************************)
(* The memory of recent probes (struct RecentProbes, src/src/node_pool.rs) *)
(* and the calls NodePool makes to it: a map from an endpoint to its       *)
(* deadline, and a binary heap of <<check_at, endpoint>> pairs, one for    *)
(* every entry.  A repeated probe only moves the deadline in the map; the  *)
(* heap learns of it when check_at comes.  Heap positions count from 1.    *)
(***************************************************************************)
EXTENDS Integers, FiniteSets, Sequences, Functions

CONSTANTS
    Addrs,        \* the endpoints, as numbers: the heap orders by them too
    Ttl,          \* recent_probe_ttl
    ExpiryBatch,  \* entries looked at per call of expire, 256
    Clock         \* the capacities checked, and for each the bound of the clock

ASSUME RecentAssumption ==
    /\ Addrs \subseteq Nat /\ IsFiniteSet(Addrs)
    /\ Ttl \in Nat \ {0}
    /\ ExpiryBatch \in Nat \ {0}
    /\ DOMAIN Clock \subseteq Nat \ {0}
    /\ \A capacity \in DOMAIN Clock : Clock[capacity] \in Nat

VARIABLES
    now,      \* the monotonic clock
    recent,   \* [entries: endpoint -> [expires_at, heap_index], expiry: the heap,
              \*  capacity]
    promised  \* history: remembered endpoint -> Ttl after its latest probe

vars == <<now, recent, promised>>

EmptyRecent(capacity) == [entries |-> [a \in {} |-> 0], expiry |-> <<>>, capacity |-> capacity]

Init ==
    /\ now = 0
    /\ recent \in {EmptyRecent(capacity) : capacity \in DOMAIN Clock}
    /\ promised = [a \in {} |-> 0]

-------------------------------------------------------------------------------
(* The heap.                                                               *)

Earlier(k, o) == k[1] < o[1] \/ (k[1] = o[1] /\ k[2] < o[2])

Parent(i) == i \div 2

Swap(r, i, j) ==
    LET heap == [r.expiry EXCEPT ![i] = r.expiry[j], ![j] = r.expiry[i]]
    IN  [r EXCEPT !.entries[heap[i][2]].heap_index = i,
                  !.entries[heap[j][2]].heap_index = j,
                  !.expiry = heap]

RECURSIVE SiftUp(_, _)
SiftUp(r, i) ==
    IF i > 1 /\ Earlier(r.expiry[i], r.expiry[Parent(i)])
    THEN SiftUp(Swap(r, Parent(i), i), Parent(i))
    ELSE r

FirstChild(heap, i) ==
    IF 2 * i + 1 <= Len(heap) /\ Earlier(heap[2 * i + 1], heap[2 * i]) THEN 2 * i + 1 ELSE 2 * i

RECURSIVE SiftDown(_, _)
SiftDown(r, i) ==
    IF 2 * i <= Len(r.expiry) /\ Earlier(r.expiry[FirstChild(r.expiry, i)], r.expiry[i])
    THEN SiftDown(Swap(r, i, FirstChild(r.expiry, i)), FirstChild(r.expiry, i))
    ELSE r

(* swap_remove: the last pair takes the place of pair i.                   *)
SwapRemove(r, i) ==
    LET last == Len(r.expiry)
        heap == SubSeq([r.expiry EXCEPT ![i] = r.expiry[last]], 1, last - 1)
        rest == Restrict(r.entries, DOMAIN r.entries \ {r.expiry[i][2]})
    IN  [r EXCEPT !.entries = IF i < last THEN [rest EXCEPT ![heap[i][2]].heap_index = i]
                              ELSE rest,
                  !.expiry = heap]

(* Mutant of RemoveAt: the pair that takes the place only moves down.      *)
RemoveAtDown(r, i) ==
    LET s == SwapRemove(r, i)
    IN  IF i > Len(s.expiry) THEN s ELSE SiftDown(s, i)

RemoveAt(r, i) ==
    LET s == SwapRemove(r, i)
    IN  IF i > Len(s.expiry) THEN s
        ELSE IF i > 1 /\ Earlier(s.expiry[i], s.expiry[Parent(i)]) THEN SiftUp(s, i)
        ELSE SiftDown(s, i)

-------------------------------------------------------------------------------
(* The operations on the memory.                                           *)

Insert(r, addr, expires_at) ==
    LET last == Len(r.expiry) + 1
        entries == [a \in DOMAIN r.entries \cup {addr} |->
                        IF a = addr THEN [expires_at |-> expires_at, heap_index |-> last]
                        ELSE r.entries[a]]
    IN  SiftUp([r EXCEPT !.entries = entries, !.expiry = Append(@, <<expires_at, addr>>)], last)

Full(r) == Cardinality(DOMAIN r.entries) = r.capacity

Record(r, addr, expires_at) ==
    IF addr \in DOMAIN r.entries THEN [r EXCEPT !.entries[addr].expires_at = expires_at]
    ELSE Insert(IF Full(r) THEN RemoveAt(r, 1) ELSE r, addr, expires_at)

Remove(r, addr) ==
    IF addr \in DOMAIN r.entries THEN RemoveAt(r, r.entries[addr].heap_index) ELSE r

HasDue(r, t) == r.expiry # <<>> /\ r.expiry[1][1] <= t

(* One turn of expire: the head goes, or is pushed back to its deadline.   *)
ExpireHead(r, t) ==
    LET addr == r.expiry[1][2]
        expires_at == r.entries[addr].expires_at
    IN  IF expires_at <= t THEN RemoveAt(r, 1)
        ELSE SiftDown([r EXCEPT !.expiry[1] = <<expires_at, addr>>], 1)

RECURSIVE ExpireUpTo(_, _, _)
ExpireUpTo(r, t, turns) ==
    IF turns > 0 /\ HasDue(r, t) THEN ExpireUpTo(ExpireHead(r, t), t, turns - 1) ELSE r

(* expire_recent: bounded work per call.                                   *)
ExpireRecent(r, t) == ExpireUpTo(r, t, ExpiryBatch)

(* "Lazily refreshed heap heads must not hide an expired neighbor": a full *)
(* memory is cleared of all that is due before anything live is evicted.   *)
RECURSIVE DrainDue(_, _, _)
DrainDue(r, addr, t) ==
    IF Cardinality(DOMAIN r.entries) >= r.capacity /\ addr \notin DOMAIN r.entries /\ HasDue(r, t)
    THEN DrainDue(ExpireRecent(r, t), addr, t)
    ELSE r

(* Mutant of PrepareSlot: the bounded expiry is all that is done.          *)
PrepareBatch(r, addr, t) == ExpireRecent(r, t)

PrepareSlot(r, addr, t) == DrainDue(ExpireRecent(r, t), addr, t)

-------------------------------------------------------------------------------
(* take_front_for_probe and record_probe.                                  *)
RecordProbe(addr) ==
    /\ recent' = Record(PrepareSlot(recent, addr, now), addr, now + Ttl)
    /\ promised' = [a \in DOMAIN recent'.entries |->
                        IF a = addr THEN now + Ttl ELSE promised[a]]
    /\ UNCHANGED now

StillPromised == promised' = Restrict(promised, DOMAIN recent'.entries)

(* restore_front, of a node that was just taken for a probe.               *)
RestoreFront(addr) ==
    /\ addr \in DOMAIN recent.entries
    /\ recent.entries[addr].expires_at = now + Ttl
    /\ recent' = Remove(recent, addr)
    /\ StillPromised
    /\ UNCHANGED now

(* contains_recent, and the first step of admit.                           *)
ContainsRecent ==
    /\ HasDue(recent, now)
    /\ recent' = ExpireRecent(recent, now)
    /\ StillPromised
    /\ UNCHANGED now

Tick ==
    /\ now < Clock[recent.capacity]
    /\ now' = now + 1
    /\ UNCHANGED <<recent, promised>>

Next ==
    \/ \E addr \in Addrs : RecordProbe(addr)
    \/ \E addr \in Addrs : RestoreFront(addr)
    \/ ContainsRecent
    \/ Tick

Spec == Init /\ [][Next]_vars

-------------------------------------------------------------------------------
(* The map and the heap are well formed.                                   *)
TypeOK ==
    /\ now \in 0..Clock[recent.capacity]
    /\ DOMAIN recent.entries \subseteq Addrs
    /\ \A a \in DOMAIN recent.entries :
        recent.entries[a] \in [expires_at : 0..(now + Ttl), heap_index : 1..Len(recent.expiry)]
    /\ recent.expiry \in Seq((0..(now + Ttl)) \X Addrs)

(* "One map entry and one heap entry per endpoint": every entry knows the  *)
(* heap position of its pair and the deadline its latest probe promised,   *)
(* there are no other pairs, no pair is after its children, none is looked *)
(* at later than its endpoint expires, and the memory stays within its     *)
(* capacity.  remove and expire index the heap and the map by this.        *)
HeapSound ==
    LET heap == recent.expiry
        entries == recent.entries
    IN  /\ TypeOK
        /\ Len(heap) = Cardinality(DOMAIN entries)
        /\ Len(heap) <= recent.capacity
        /\ \A a \in DOMAIN entries :
            /\ heap[entries[a].heap_index][2] = a
            /\ heap[entries[a].heap_index][1] <= entries[a].expires_at
            /\ entries[a].expires_at = promised[a]
        /\ \A i \in 2..Len(heap) : ~Earlier(heap[i], heap[Parent(i)])

(* The memory implements the window: a probed endpoint is recent for Ttl   *)
(* from its latest probe, whatever the heap has been told, and a live      *)
(* endpoint is evicted only from a full memory in which none has expired.  *)
Window == INSTANCE RecentWindow
            WITH capacity <- recent.capacity,
                 deadline <- [a \in DOMAIN recent.entries |-> recent.entries[a].expires_at]

WindowSpec == Window!Spec
===============================================================================
