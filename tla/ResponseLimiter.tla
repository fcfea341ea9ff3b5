---------------------------- MODULE ResponseLimiter ----------------------------
(***************************************************************************)
(* What one UDP worker may answer (struct WorkerResponseLimiter,           *)
(* src/src/server.rs): a budget of packets and bytes, a tenth of it kept   *)
(* for pings and get_peers, and a window of one second for every source.   *)
(* The limiter belongs to its worker, so that a call is one step.          *)
(*                                                                         *)
(* The clock has Second ticks in a second, and the rates are per tick.     *)
(***************************************************************************)
EXTENDS RateBucket, Sequences, FiniteSets, Functions

CONSTANTS
    Sources,        \* the addresses that ask
    Lengths,        \* the lengths of encoded responses
    PacketRate,     \* this worker's share of max_response_rate_per_sec
    ByteRate,       \* and of max_response_bytes_per_sec
    MinByteBurst,   \* the least burst of bytes, 512
    SourceRate,     \* max_response_rate_per_source
    Second,         \* one second
    SourceTtl,      \* how long a source is remembered, 60 seconds
    MaxTime         \* bound on the clock

VARIABLES
    now,
    limiter,    \* the four buckets, the sources and their expiry queue
    permit,     \* the ResponsePermit last returned
    granted     \* history: class -> [packets, bytes] granted, and source -> tick -> packets

vars == <<now, limiter, permit, granted>>

CeilDiv(a, b) == (a + b - 1) \div b

ReserveQuota(total) == IF total = 0 THEN 0 ELSE Min({CeilDiv(total, 10), total})

(* Of a bucket's rate, the burst is a fifth, and at least the second       *)
(* argument.                                                               *)
Full(rate, least) == NewBucket(rate, Max({CeilDiv(rate, 5), least}), TRUE, 0)

NewLimiter ==
    [regular_packets |-> Full(PacketRate - ReserveQuota(PacketRate), 1),
     regular_bytes |-> Full(ByteRate - ReserveQuota(ByteRate), MinByteBurst),
     priority_packets |-> Full(ReserveQuota(PacketRate), 1),
     priority_bytes |-> Full(ReserveQuota(ByteRate), MinByteBurst),
     sources |-> [a \in {} |-> 0],
     source_expiry |-> <<>>]

Init ==
    /\ now = 0
    /\ limiter = NewLimiter
    /\ permit = "None"
    /\ granted = [regular |-> [packets |-> 0, bytes |-> 0],
                  priority |-> [packets |-> 0, bytes |-> 0],
                  to |-> [a \in Sources |-> [t \in 0..MaxTime |-> 0]]]

Tick ==
    /\ now < MaxTime
    /\ now' = now + 1
    /\ UNCHANGED <<limiter, permit, granted>>

-------------------------------------------------------------------------------
(* Mutant of ExpireSources: a source is forgotten with its oldest pair.    *)
ExpireSourcesEarly(l) ==
    LET due == Max({n \in 0..Len(l.source_expiry) :
                        \A i \in 1..n : l.source_expiry[i][1] <= now})
        gone == {l.source_expiry[i][2] : i \in 1..due}
    IN  [l EXCEPT !.sources = Restrict(@, DOMAIN @ \ gone),
                  !.source_expiry = SubSeq(@, due + 1, Len(@))]

(* Pairs that are due are popped; their source goes if it was not granted  *)
(* a response since.                                                       *)
ExpireSources(l) ==
    LET due == Max({n \in 0..Len(l.source_expiry) :
                        \A i \in 1..n : l.source_expiry[i][1] <= now})
        gone == {a \in {l.source_expiry[i][2] : i \in 1..due} \cap DOMAIN l.sources :
                    now - l.sources[a].last_seen >= SourceTtl}
    IN  [l EXCEPT !.sources = Restrict(@, DOMAIN @ \ gone),
                  !.source_expiry = SubSeq(@, due + 1, Len(@))]

(* The source's window, opened anew when it is a second old.               *)
CurrentWindow(l, addr) ==
    IF addr \in DOMAIN l.sources /\ now - l.sources[addr].started_at < Second
    THEN l.sources[addr]
    ELSE [started_at |-> now, last_seen |-> now, count |-> 0]

(* Mutant of HasSourceSlot: one response too many.                         *)
HasSlotAtRate(l, addr) == CurrentWindow(l, addr).count <= SourceRate

HasSourceSlot(l, addr) == SourceRate > 0 /\ CurrentWindow(l, addr).count < SourceRate

TakeSourceSlot(l, addr) ==
    LET window == [CurrentWindow(l, addr) EXCEPT !.count = @ + 1, !.last_seen = now]
    IN  [l EXCEPT !.sources = [a \in DOMAIN @ \cup {addr} |-> IF a = addr THEN window ELSE @[a]],
                  !.source_expiry = Append(@, <<now + SourceTtl, addr>>)]

(* take_budget takes one packet and the bytes, or gives the packet back.   *)
HasBudget(packets, bytes, len) == HasToken(packets, now) /\ HasExactly(bytes, len, now)

(* The buckets as they are after a budget was refused, or taken and given  *)
(* back: refilled, where they were looked at.                              *)
Refused(packets, bytes, len) ==
    <<IF HasToken(packets, now) THEN Refund(TakeOne(packets, now), 1) ELSE TakeOne(packets, now),
      IF HasToken(packets, now) THEN TakeExactly(bytes, len, now) ELSE bytes>>

(* Mutant of Refunded: only the packet is given back.                      *)
RefundedPacket(packets, bytes, len) ==
    <<Refund(TakeOne(packets, now), 1), TakeExactly(bytes, len, now)>>

Refunded(packets, bytes, len) ==
    <<Refund(TakeOne(packets, now), 1), Refund(TakeExactly(bytes, len, now), len)>>

Spent(packets, bytes, len) == <<TakeOne(packets, now), TakeExactly(bytes, len, now)>>

Regular(l, pair) == [l EXCEPT !.regular_packets = pair[1], !.regular_bytes = pair[2]]

Priority(l, pair) == [l EXCEPT !.priority_packets = pair[1], !.priority_bytes = pair[2]]

Grant(class, addr, len) ==
    granted' = [granted EXCEPT ![class].packets = @ + 1, ![class].bytes = @ + len,
                               !.to[addr][now] = @ + 1]

(* acquire, by its three outcomes.                                         *)
AcquireRegular(addr, len) ==
    LET l == ExpireSources(limiter)
        packets == l.regular_packets
        bytes == l.regular_bytes
    IN  /\ HasBudget(packets, bytes, len)
        /\ IF HasSourceSlot(l, addr)
           THEN /\ limiter' = TakeSourceSlot(Regular(l, Spent(packets, bytes, len)), addr)
                /\ permit' = "Regular"
                /\ Grant("regular", addr, len)
           ELSE /\ limiter' = Regular(l, Refunded(packets, bytes, len))
                /\ permit' = "Rejected"
                /\ UNCHANGED granted

AcquirePriority(addr, len) ==
    LET l == ExpireSources(limiter)
        looked == Regular(l, Refused(l.regular_packets, l.regular_bytes, len))
        packets == l.priority_packets
        bytes == l.priority_bytes
    IN  /\ ~HasBudget(l.regular_packets, l.regular_bytes, len)
        /\ HasBudget(packets, bytes, len)
        /\ IF HasSourceSlot(l, addr)
           THEN /\ limiter' = TakeSourceSlot(Priority(looked, Spent(packets, bytes, len)), addr)
                /\ permit' = "PriorityReserve"
                /\ Grant("priority", addr, len)
           ELSE /\ limiter' = Priority(looked, Refunded(packets, bytes, len))
                /\ permit' = "Rejected"
                /\ UNCHANGED granted

Reject(len, is_priority) ==
    LET l == ExpireSources(limiter)
        looked == Regular(l, Refused(l.regular_packets, l.regular_bytes, len))
        packets == l.priority_packets
        bytes == l.priority_bytes
    IN  /\ ~HasBudget(l.regular_packets, l.regular_bytes, len)
        /\ is_priority => ~HasBudget(packets, bytes, len)
        /\ limiter' = IF is_priority THEN Priority(looked, Refused(packets, bytes, len)) ELSE looked
        /\ permit' = "Rejected"
        /\ UNCHANGED granted

Acquire(addr, len, is_priority) ==
    /\ \/ AcquireRegular(addr, len)
       \/ is_priority /\ AcquirePriority(addr, len)
       \/ Reject(len, is_priority)
    /\ UNCHANGED now

Next ==
    \/ Tick
    \/ \E addr \in Sources, len \in Lengths, is_priority \in BOOLEAN :
        Acquire(addr, len, is_priority)

Spec == Init /\ [][Next]_vars

-------------------------------------------------------------------------------
Buckets == {"regular_packets", "regular_bytes", "priority_packets", "priority_bytes"}

Level(l, bucket, t) == Refill(l[bucket], t).tokens

Within(amount, bucket) == amount <= bucket.capacity + bucket.rate * now

(* The worker's answers stay within its share: both classes within the     *)
(* packets and bytes of their buckets, whatever was refunded on the way,   *)
(* and no source gets more than two windows' fill in any second (acquire,  *)
(* acquire_source_slot).                                                   *)
AnswersBounded ==
    /\ Within(granted.regular.packets, limiter.regular_packets)
    /\ Within(granted.regular.bytes, limiter.regular_bytes)
    /\ Within(granted.priority.packets, limiter.priority_packets)
    /\ Within(granted.priority.bytes, limiter.priority_bytes)
    /\ \A a \in Sources, t \in 0..MaxTime - Second + 1 :
        MapThenSumSet(LAMBDA i : granted.to[a][t + i], 0..Second - 1) <= 2 * SourceRate

(* A response that is rejected, or denied by one check after passing       *)
(* another, leaves every bucket as full as it was: one source's refusals   *)
(* cost the others nothing (take_budget, refund_budget).                   *)
RejectionIsFree ==
    [][granted' = granted =>
        \A b \in Buckets : Level(limiter', b, now') = Level(limiter, b, now')]_vars

(* Every source remembered has the pair that makes it go SourceTtl after   *)
(* its last response, behind no pair that is due later, and no source is   *)
(* forgotten before (acquire_source_slot, expire_sources).                 *)
SourcesExpire ==
    LET queue == limiter.source_expiry
    IN  /\ \A i, j \in DOMAIN queue : i < j => queue[i][1] <= queue[j][1]
        /\ \A a \in DOMAIN limiter.sources : \E i \in DOMAIN queue :
            queue[i] = <<limiter.sources[a].last_seen + SourceTtl, a>>
        /\ \A a \in Sources, t \in Max({0, now - SourceTtl + 1})..now :
            granted.to[a][t] > 0 => a \in DOMAIN limiter.sources
===============================================================================
