-------------------------- MODULE ResponsiveReservoir --------------------------
(***************************************************************************)
(* The ring of nodes that answered (struct ResponsiveReservoir,            *)
(* src/src/node_pool.rs), as operators on a record r.  An entry waits for  *)
(* its next probe in exactly one of two places: in revisits, ordered by    *)
(* the instant it is eligible, or in the ready list, linked through the    *)
(* slots.  Slots count from 1, and 0 is no slot.                           *)
(*                                                                         *)
(* revisits is the BTreeSet as the sequence of its keys, in its order: the *)
(* sequence number of a key is its place among keys of the same instant.   *)
(* Left out: node ids, and snapshot, which does not change what waits      *)
(* where: it is module SnapshotPublisher.                                  *)
(***************************************************************************)
EXTENDS Integers, Sequences, SequencesExt

CONSTANTS
    ReservoirCapacity,  \* responsive_capacity
    ResponsiveTtl,      \* responsive_ttl
    RevisitInterval,    \* revisit_interval
    BackoffBase,        \* 5 s: how long a node is left alone after one failure
    BackoffMax,         \* 60 s: and at most
    MaxFailures,        \* 5: failures that are counted
    RevisitBatch        \* entries looked at per call of next_revisit, 256

ASSUME ReservoirAssumption ==
    /\ ReservoirCapacity \in Nat \ {0}
    /\ ResponsiveTtl \in Nat \ {0}
    /\ RevisitInterval \in Nat
    /\ BackoffBase \in Nat \ {0} /\ BackoffMax \in Nat \ {0}
    /\ MaxFailures \in Nat \ {0}
    /\ RevisitBatch \in Nat \ {0}

Slots == 1..ReservoirCapacity

NoSlot == 0

NoInstant == -1

Free == [used |-> FALSE]

EmptyReservoir ==
    [slots |-> [s \in Slots |-> Free], index |-> [a \in {} |-> 0], write_cursor |-> 1,
     revisits |-> <<>>, ready_head |-> NoSlot, ready_tail |-> NoSlot, ready_len |-> 0]

Detached(entry) ==
    [entry EXCEPT !.ready = FALSE, !.previous = NoSlot, !.next = NoSlot, !.revisit_at = NoInstant]

(* unschedule: the entry leaves the index or the list it waits in.         *)
Unlink(slots, entry) ==
    LET fore == IF entry.previous = NoSlot THEN slots
                ELSE [slots EXCEPT ![entry.previous].next = entry.next]
    IN  IF entry.next = NoSlot THEN fore
        ELSE [fore EXCEPT ![entry.next].previous = entry.previous]

Unschedule(r, slot) ==
    LET entry == r.slots[slot]
        keyed == [r EXCEPT !.revisits = SelectSeq(@, LAMBDA k : k # <<entry.revisit_at, slot>>)]
        linked == [keyed EXCEPT
                    !.slots = Unlink(@, entry),
                    !.ready_head = IF entry.previous = NoSlot THEN entry.next ELSE @,
                    !.ready_tail = IF entry.next = NoSlot THEN entry.previous ELSE @,
                    !.ready_len = @ - 1]
        out == IF entry.ready THEN linked ELSE keyed
    IN  [out EXCEPT !.slots[slot] = Detached(@)]

PushReady(r, slot) ==
    LET tail == r.ready_tail
        linked == [r.slots EXCEPT ![slot].ready = TRUE, ![slot].previous = tail,
                                  ![slot].next = NoSlot]
    IN  [r EXCEPT !.slots = IF tail = NoSlot THEN linked ELSE [linked EXCEPT ![tail].next = slot],
                  !.ready_head = IF tail = NoSlot THEN slot ELSE @,
                  !.ready_tail = slot,
                  !.ready_len = @ + 1]

(* A key goes behind the keys of its instant: its number is the largest.   *)
InsertKey(keys, key) ==
    LET before == SelectSeq(keys, LAMBDA k : k[1] <= key[1])
    IN  before \o <<key>> \o SelectSeq(keys, LAMBDA k : k[1] > key[1])

(* enqueue_revisit: never before a backoff ends.                           *)
EnqueueRevisit(r, slot, at, now) ==
    LET out == Unschedule(r, slot)
        when == Max({at, r.slots[slot].blocked_until})
    IN  IF when <= now THEN PushReady(out, slot)
        ELSE [out EXCEPT !.slots[slot].revisit_at = when,
                         !.revisits = InsertKey(@, <<when, slot>>)]

-------------------------------------------------------------------------------
NewEntry(addr, now, probed_at) ==
    [used |-> TRUE, addr |-> addr, expires_at |-> now + ResponsiveTtl, last_probe_at |-> probed_at,
     last_success_at |-> now, failures |-> 0, blocked_until |-> NoInstant,
     revisit_at |-> NoInstant, ready |-> FALSE, previous |-> NoSlot, next |-> NoSlot]

(* The slot is given up by the node that has it.                           *)
Evict(r, slot) ==
    IF r.slots[slot].used
    THEN [Unschedule(r, slot) EXCEPT
            !.index = Restrict(@, DOMAIN @ \ {r.slots[slot].addr}), !.slots[slot] = Free]
    ELSE r

(* record: a node answered a probe sent at probed_at.                      *)
RecordAnswer(r, addr, now, probed_at) ==
    IF addr \in DOMAIN r.index
    THEN LET slot == r.index[addr]
             alive == [r EXCEPT !.slots[slot].expires_at = now + ResponsiveTtl,
                                !.slots[slot].last_success_at = now]
             healed == [alive EXCEPT !.slots[slot].failures = 0,
                                     !.slots[slot].blocked_until = NoInstant]
         IN  IF r.slots[slot].failures = 0 THEN alive
             ELSE EnqueueRevisit(healed, slot, r.slots[slot].last_probe_at + RevisitInterval, now)
    ELSE LET slot == r.write_cursor
             out == Evict(r, slot)
             in == [out EXCEPT
                        !.slots[slot] = NewEntry(addr, now, probed_at),
                        !.index = [a \in DOMAIN @ \cup {addr} |-> IF a = addr THEN slot ELSE @[a]],
                        !.write_cursor = (slot % ReservoirCapacity) + 1]
         IN  EnqueueRevisit(in, slot, probed_at + RevisitInterval, now)

(* The first loop of next_revisit: what is eligible becomes ready.         *)
Promote(r, now) ==
    LET due == SelectSeq(r.revisits, LAMBDA k : k[1] <= now)
        n == Min({Len(due), RevisitBatch})
        rest == [r EXCEPT !.revisits = SubSeq(@, n + 1, Len(@))]
    IN  FoldLeft(LAMBDA acc, k : PushReady([acc EXCEPT !.slots[k[2]].revisit_at = NoInstant], k[2]),
                 rest, SubSeq(due, 1, n))

(* The second loop: the first ready node that has not expired is reserved, *)
(* as found; the ones before it that have are dropped.                     *)
Reserve(acc, now) ==
    LET slot == acc.reservoir.ready_head
        out == Unschedule(acc.reservoir, slot)
    IN  IF acc.found # NoSlot \/ slot = NoSlot THEN acc
        ELSE IF out.slots[slot].expires_at <= now
        THEN [acc EXCEPT !.reservoir = Evict(out, slot)]
        ELSE [reservoir |-> out, found |-> slot]

NextRevisit(r, now) ==
    FoldLeft(LAMBDA acc, turn : Reserve(acc, now), [reservoir |-> Promote(r, now), found |-> NoSlot],
             [turn \in 1..RevisitBatch |-> turn])

(* Mutant of ReservoirProbe: the entry keeps its place.                    *)
ProbeInPlace(r, addr, now) ==
    IF addr \in DOMAIN r.index THEN [r EXCEPT !.slots[r.index[addr]].last_probe_at = now] ELSE r

(* record_probe.                                                           *)
ReservoirProbe(r, addr, now) ==
    IF addr \in DOMAIN r.index
    THEN EnqueueRevisit([r EXCEPT !.slots[r.index[addr]].last_probe_at = now], r.index[addr],
                        now + RevisitInterval, now)
    ELSE r

DeferRevisit(r, addr, retry_at, now) ==
    IF addr \in DOMAIN r.index
    THEN LET slot == r.index[addr]
         IN  EnqueueRevisit(r, slot, Max({retry_at, r.slots[slot].last_probe_at + RevisitInterval}),
                            now)
    ELSE r

Backoff(failures) == Min({BackoffBase * 2 ^ (failures - 1), BackoffMax})

(* record_failure: "a newer successful reply supersedes old failures".     *)
RecordFailure(r, addr, dispatched_at, now) ==
    IF addr \in DOMAIN r.index /\ r.slots[r.index[addr]].last_success_at <= dispatched_at
    THEN LET slot == r.index[addr]
             entry == r.slots[slot]
             failures == Min({entry.failures + 1, MaxFailures})
             until == now + Backoff(failures)
         IN  EnqueueRevisit([r EXCEPT !.slots[slot].failures = failures,
                                      !.slots[slot].blocked_until = until],
                            slot, Max({entry.last_probe_at + RevisitInterval, until}), now)
    ELSE r

IsBackingOff(r, addr, now) ==
    addr \in DOMAIN r.index /\ r.slots[r.index[addr]].blocked_until > now

-------------------------------------------------------------------------------
(* The ready list, from its head along the links.                          *)
ReadyList(r) ==
    LET walk[i \in 1..r.ready_len] ==
            IF i = 1 THEN r.ready_head ELSE r.slots[walk[i - 1]].next
    IN  walk

Used(r) == {s \in Slots : r.slots[s].used}

(* Every entry is indexed, and is in the ready list or in revisits, once.  *)
Scheduled(r) ==
    LET list == ReadyList(r)
        ready == {s \in Used(r) : r.slots[s].ready}
    IN  /\ r.index = [a \in {r.slots[s].addr : s \in Used(r)} |->
                        CHOOSE s \in Used(r) : r.slots[s].addr = a]
        /\ r.ready_len = Cardinality(ready)
        /\ {list[i] : i \in DOMAIN list} = ready
        /\ \A i \in DOMAIN list :
            r.slots[list[i]].previous = IF i = 1 THEN NoSlot ELSE list[i - 1]
        /\ r.ready_tail = IF r.ready_len = 0 THEN NoSlot ELSE list[r.ready_len]
        /\ Len(r.revisits) = Cardinality(Used(r) \ ready)
        /\ Range(r.revisits) = {<<r.slots[s].revisit_at, s>> : s \in Used(r) \ ready}

(* An entry is eligible no sooner than its interval and its backoff allow. *)
Spaced(r, now) ==
    \A s \in Used(r) :
        LET allowed == Max({r.slots[s].last_probe_at + RevisitInterval, r.slots[s].blocked_until})
        IN  IF r.slots[s].ready THEN allowed <= now ELSE allowed <= r.slots[s].revisit_at
===============================================================================
