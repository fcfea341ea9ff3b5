------------------------------- MODULE CrawlActor -------------------------------
(***************************************************************************)
(* The crawl actor (struct CrawlActor, src/src/crawl_engine.rs): on every  *)
(* schedule tick it releases the probes that timed out and sends new ones, *)
(* to bootstrap sources while the pool is low, to nodes of the pool, and   *)
(* to nodes that answered before.  A probe is limited by the query budget, *)
(* by the requests in flight, in all and per subnet, and, when it goes to  *)
(* an endpoint that was not probed recently, by the destination budget.    *)
(*                                                                         *)
(* A tick is one step per probe: nothing of the actor runs in between, but *)
(* the egress task does.  The channel from the network, the egress task    *)
(* and the resolver to the actor drops what does not fit and may delay     *)
(* anything, so an event is simply handled at some later time or never;    *)
(* drain_events is one such step per event.                                *)
(*                                                                         *)
(* Left out: node ids and targets, the routing snapshot (see               *)
(* SnapshotPublisher), statistics, a missing socket, answers and reports   *)
(* that match no pending probe and change nothing, and answers that name   *)
(* more than one node.                                                     *)
(***************************************************************************)
EXTENDS NodePool, ResponsiveReservoir, Bootstrap

CONSTANTS
    Subnets,           \* SubnetKey::from_addr, a function of the endpoint
    Sources,           \* the endpoints bootstrap hosts resolve to
    MaxInFlight,       \* max_in_flight
    MaxPerSubnet,      \* max_in_flight_per_subnet
    RequestTimeout,    \* request_timeout
    Rate,              \* max_find_node_rate_per_sec
    Rates,             \* what metadata pressure may make of it
    Burst,             \* burst
    DestinationRate,   \* max_new_destinations, per unit of time
    ScanLimit,         \* MAX_POOL_SCAN_PER_SCHEDULE
    ScheduleInterval,  \* SCHEDULE_INTERVAL
    NoAddr,            \* no endpoint
    MaxTime            \* bound: the clock

ASSUME CrawlAssumption ==
    /\ Sources \subseteq Addrs /\ NoAddr \notin Addrs
    /\ DOMAIN Subnets = Addrs
    /\ MaxInFlight \in Nat \ {0} /\ MaxPerSubnet \in Nat \ {0}
    /\ RequestTimeout \in Nat \ {0}
    /\ Rate \in Nat /\ Rates \subseteq 0..Rate /\ Rate \in Rates
    /\ Burst \in Nat /\ (Burst = 0 <=> Rate = 0)
    /\ DestinationRate \in Nat
    /\ ScanLimit \in Nat /\ ScheduleInterval \in Nat
    /\ MaxTime \in Nat

VARIABLES
    now,                 \* the monotonic clock
    pc,                  \* "select", "schedule" within a tick, or "stopped"
    left,                \* probes the running tick may still send
    pool, responsive,    \* the node pool and the reservoir
    pending,             \* transaction id -> the probe that waits for an answer
    pending_expiry,      \* queue of <<deadline, transaction id>>
    subnet_in_flight,    \* subnet -> its pending probes, when there are any
    query_budget, destination_budget,
    last_bootstrap,      \* the bootstrap gate
    sources,             \* the bootstrap source pool
    bootstrap_queue,     \* sources to be probed
    resolving,           \* lookups that have not reported yet
    next_tid,
    egress,              \* transaction ids of the requests to be sent
    unsent,              \* pending probes whose request could not be sent
    fresh                \* history: probes to endpoints that were not recent

flight == <<pending, pending_expiry, subnet_in_flight, next_tid, egress, unsent, fresh>>

budgets == <<query_budget, destination_budget>>

boot == <<last_bootstrap, sources, bootstrap_queue, resolving>>

vars == <<now, pc, left, pool, responsive, flight, budgets, boot>>

Empty == [x \in {} |-> 0]

Init ==
    /\ now = 0
    /\ pc = "select"
    /\ left = 0
    /\ pool = EmptyPool
    /\ responsive = EmptyReservoir
    /\ pending = Empty
    /\ pending_expiry = <<>>
    /\ subnet_in_flight = Empty
    /\ query_budget = NewBucket(Rate, Burst, FALSE, 0)
    /\ destination_budget = NewBucket(DestinationRate, DestinationRate, FALSE, 0)
    /\ last_bootstrap = Never
    /\ sources = [a \in Sources |-> Healthy]
    /\ bootstrap_queue = <<>>
    /\ resolving = 0
    /\ next_tid = 1
    /\ egress = <<>>
    /\ unsent = {}
    /\ fresh = 0

Put(f, k, v) == [x \in DOMAIN f \cup {k} |-> IF x = k THEN v ELSE f[x]]

Without(f, S) == Restrict(f, DOMAIN f \ S)

SubnetCount(counts, subnet) == IF subnet \in DOMAIN counts THEN counts[subnet] ELSE 0

(* release_pending.                                                        *)
Release(counts, subnet) ==
    IF SubnetCount(counts, subnet) <= 1 THEN Without(counts, {subnet})
    ELSE [counts EXCEPT ![subnet] = @ - 1]

-------------------------------------------------------------------------------
(* expire_pending: a probe is released at its deadline, as a failure.      *)

Due == SelectSeq(pending_expiry, LAMBDA e : e[1] <= now)

Overdue ==
    SelectSeq(Due, LAMBDA e : e[2] \in DOMAIN pending /\ pending[e[2]].deadline = e[1])

FailSource(states, probe) ==
    IF probe.purpose = "Bootstrap" THEN MarkTimeout(states, probe.addr, now) ELSE states

Fail(r, probe) == RecordFailure(r, probe.addr, probe.dispatched_at, now)

ExpirePending ==
    LET probes == [i \in 1..Len(Overdue) |-> pending[Overdue[i][2]]]
        gone == {Overdue[i][2] : i \in 1..Len(Overdue)}
    IN  /\ pending' = Without(pending, gone)
        /\ pending_expiry' = SubSeq(pending_expiry, Len(Due) + 1, Len(pending_expiry))
        /\ subnet_in_flight' =
                FoldLeft(LAMBDA c, p : Release(c, Subnets[p.addr]), subnet_in_flight, probes)
        /\ responsive' = FoldLeft(Fail, responsive, probes)
        /\ sources' = FoldLeft(FailSource, sources, probes)
        /\ unsent' = unsent \ gone

(* maybe_resolve_bootstrap.                                                *)
MaybeResolve ==
    IF bootstrap_queue = <<>> /\ ShouldBootstrap(last_bootstrap, Len(pool.queue), now)
    THEN last_bootstrap' = now /\ resolving' = resolving + 1
    ELSE UNCHANGED <<last_bootstrap, resolving>>

(* on_schedule_tick, up to its loop.                                       *)
OnScheduleTick(rate) ==
    /\ pc = "select"
    /\ ExpirePending
    /\ MaybeResolve
    /\ LET b == SetRate(query_budget, rate, now)
       IN  /\ left' = Available(b, Burst, now)
           /\ query_budget' = Take(b, Burst, now)
    /\ pc' = "schedule"
    /\ UNCHANGED <<now, pool, next_tid, egress, fresh, destination_budget, bootstrap_queue>>

(* The loop ends, and what is left of the budget is given back.            *)
TickEnds ==
    /\ query_budget' = Refund(query_budget, left)
    /\ left' = 0
    /\ pc' = "select"

-------------------------------------------------------------------------------
(* try_dispatch.                                                           *)

CanDispatch(addr) ==
    /\ Cardinality(DOMAIN pending) < MaxInFlight
    /\ ~IsBackingOff(responsive, addr, now)
    /\ SubnetCount(subnet_in_flight, Subnets[addr]) < MaxPerSubnet
    /\ Len(egress) < MaxInFlight

Dispatch(r, addr, purpose) ==
    LET deadline == now + RequestTimeout
        subnet == Subnets[addr]
    IN  /\ pending' = Put(pending, next_tid, [addr |-> addr, purpose |-> purpose,
                                              dispatched_at |-> now, deadline |-> deadline])
        /\ pending_expiry' = Append(pending_expiry, <<deadline, next_tid>>)
        /\ subnet_in_flight' =
                Put(subnet_in_flight, subnet, SubnetCount(subnet_in_flight, subnet) + 1)
        /\ egress' = Append(egress, next_tid)
        /\ next_tid' = next_tid + 1
        /\ responsive' = ReservoirProbe(r, addr, now)
        /\ fresh' = fresh + (IF ContainsRecent(pool, addr, now) THEN 0 ELSE 1)
        /\ left' = left - 1
        /\ UNCHANGED <<pc, unsent, query_budget>>

(* try_take_one and refund_one of the destination budget, where only an    *)
(* endpoint that is not recent pays.                                       *)
Affordable(isNew, d) == isNew => HasToken(d, now)

Pay(isNew, d) == IF isNew THEN TakeOne(d, now) ELSE d

(* Mutant of PayBack: an endpoint that did not pay is refunded as well.    *)
PayBackAlways(isNew, d) == Refund(Pay(isNew, d), 1)

PayBack(isNew, d) == IF isNew THEN Refund(TakeOne(d, now), 1) ELSE d

(* schedule_one found nothing to send, with pool p, reservoir r, budget d. *)
NothingSent(p, r, d) ==
    /\ TickEnds
    /\ pool' = p /\ responsive' = r /\ destination_budget' = d
    /\ UNCHANGED flight

(* schedule_revisit, with the pool and the budget as they are by then.     *)
ScheduleRevisit(p, d) ==
    LET next == NextRevisit(responsive, now)
        r == next.reservoir
        addr == r.slots[next.found].addr
        isNew == ~ContainsRecent(p, addr, now)
        later == DeferRevisit(r, addr, now + ScheduleInterval, now)
    IN  IF next.found = NoSlot THEN NothingSent(p, r, d)
        ELSE \/ ~Affordable(isNew, d) /\ NothingSent(p, later, Pay(isNew, d))
             \/ /\ Affordable(isNew, d)
                /\ ~CanDispatch(addr)
                /\ NothingSent(p, later, PayBack(isNew, d))
             \/ /\ Affordable(isNew, d)
                /\ CanDispatch(addr)
                /\ Dispatch(r, addr, "Revisit")
                /\ pool' = PoolProbe(p, addr, now)
                /\ destination_budget' = Pay(isNew, d)

(* The scan of the pool in schedule_one: nodes that are blocked for now go *)
(* to the back.                                                            *)
Blocked(addr) ==
    \/ SubnetCount(subnet_in_flight, Subnets[addr]) >= MaxPerSubnet
    \/ IsBackingOff(responsive, addr, now)

SchedulePool(d) ==
    LET scan == Min({Len(pool.queue), ScanLimit})
        open == {i \in 1..scan : ~Blocked(pool.queue[i])}
        p == RotateFront(pool, IF open = {} THEN scan ELSE Min(open) - 1)
        addr == Head(p.queue)
        taken == TakeFrontForProbe(p, now)
    IN  IF open = {} THEN ScheduleRevisit(p, d)
        ELSE \/ ~HasToken(d, now) /\ ScheduleRevisit(p, TakeOne(d, now))
             \/ /\ HasToken(d, now)
                /\ ~CanDispatch(addr)
                /\ ScheduleRevisit(RestoreFront(taken, addr), PayBack(TRUE, d))
             \/ /\ HasToken(d, now)
                /\ CanDispatch(addr)
                /\ Dispatch(responsive, addr, "New")
                /\ pool' = taken
                /\ destination_budget' = TakeOne(d, now)

(* schedule_one, for a bootstrap source while the pool is low.             *)
ScheduleSource(addr) ==
    LET isNew == ~ContainsRecent(pool, addr, now)
        d == destination_budget
    IN  \/ /\ ~Affordable(isNew, d)
           /\ ScheduleRevisit(pool, Pay(isNew, d))
           /\ UNCHANGED bootstrap_queue
        \/ /\ Affordable(isNew, d)
           /\ ~CanDispatch(addr)
           /\ SchedulePool(PayBack(isNew, d))
           /\ UNCHANGED bootstrap_queue
        \/ /\ Affordable(isNew, d)
           /\ CanDispatch(addr)
           /\ Dispatch(responsive, addr, "Bootstrap")
           /\ pool' = PoolProbe(pool, addr, now)
           /\ destination_budget' = Pay(isNew, d)
           /\ bootstrap_queue' = Tail(bootstrap_queue)

ScheduleOne ==
    /\ pc = "schedule"
    /\ left > 0
    /\ Cardinality(DOMAIN pending) < MaxInFlight
    /\ IF Len(pool.queue) < LowWatermark /\ bootstrap_queue # <<>>
       THEN ScheduleSource(Head(bootstrap_queue))
       ELSE SchedulePool(destination_budget) /\ UNCHANGED bootstrap_queue
    /\ UNCHANGED <<now, last_bootstrap, sources, resolving>>

ScheduleStops ==
    /\ pc = "schedule"
    /\ left = 0 \/ Cardinality(DOMAIN pending) >= MaxInFlight
    /\ NothingSent(pool, responsive, destination_budget)
    /\ UNCHANGED <<now, boot>>

-------------------------------------------------------------------------------
(* The egress task (spawn_egress): a request is sent, or its failure is    *)
(* reported.                                                               *)
SendRequest ==
    /\ egress # <<>>
    /\ egress' = Tail(egress)
    /\ UNCHANGED <<now, pc, left, pool, responsive, pending, pending_expiry, subnet_in_flight,
                   next_tid, unsent, fresh, budgets, boot>>

SendFails ==
    /\ egress # <<>>
    /\ egress' = Tail(egress)
    /\ unsent' = unsent \cup ({Head(egress)} \cap DOMAIN pending)
    /\ UNCHANGED <<now, pc, left, pool, responsive, pending, pending_expiry, subnet_in_flight,
                   next_tid, fresh, budgets, boot>>

(* Mutant of Settle: the place in the subnet is not given back.            *)
SettleUnreleased(tid) ==
    /\ pending' = Without(pending, {tid})
    /\ unsent' = unsent \ {tid}
    /\ UNCHANGED <<pending_expiry, subnet_in_flight, next_tid, egress, fresh>>

(* A pending probe is taken out of the table; its deadline stays queued.   *)
Settle(tid) ==
    /\ pending' = Without(pending, {tid})
    /\ subnet_in_flight' = Release(subnet_in_flight, Subnets[pending[tid].addr])
    /\ unsent' = unsent \ {tid}
    /\ UNCHANGED <<pending_expiry, next_tid, egress, fresh>>

(* handle_response, of a probe that was sent; found is a node it names.    *)
HandleResponse(tid, found) ==
    /\ pc = "select"
    /\ tid \in DOMAIN pending \ unsent
    /\ ~Contains(egress, tid)
    /\ Settle(tid)
    /\ LET probe == pending[tid]
       IN  /\ sources' = IF probe.purpose = "Bootstrap" THEN MarkSuccess(sources, probe.addr)
                         ELSE sources
           /\ responsive' = RecordAnswer(responsive, probe.addr, now, probe.dispatched_at)
    /\ pool' = IF found = NoAddr THEN pool ELSE Admit(pool, found, now)
    /\ UNCHANGED <<now, pc, left, budgets, last_bootstrap, bootstrap_queue, resolving>>

(* handle_priority, of SendFailed.                                         *)
HandleSendFailed(tid) ==
    /\ pc = "select"
    /\ tid \in unsent
    /\ Settle(tid)
    /\ responsive' = Fail(responsive, pending[tid])
    /\ sources' = FailSource(sources, pending[tid])
    /\ UNCHANGED <<now, pc, left, pool, budgets, last_bootstrap, bootstrap_queue, resolving>>

(* handle_priority, of BootstrapResolved.                                  *)
HandleResolved(candidates) ==
    /\ pc = "select"
    /\ resolving > 0
    /\ resolving' = resolving - 1
    /\ bootstrap_queue' = bootstrap_queue \o SelectSources(sources, candidates, now)
    /\ UNCHANGED <<now, pc, left, pool, responsive, flight, budgets, last_bootstrap, sources>>

(* A node that was discovered elsewhere is admitted.                       *)
HandleDiscovered(addr) ==
    /\ pc = "select"
    /\ pool' = Admit(pool, addr, now)
    /\ UNCHANGED <<now, pc, left, responsive, flight, budgets, boot>>

(* Cancellation: run returns, and the actor and the egress task are gone.  *)
Shutdown ==
    /\ pc = "select"
    /\ pc' = "stopped"
    /\ pool' = EmptyPool
    /\ responsive' = EmptyReservoir
    /\ pending' = Empty
    /\ pending_expiry' = <<>>
    /\ subnet_in_flight' = Empty
    /\ egress' = <<>>
    /\ unsent' = {}
    /\ bootstrap_queue' = <<>>
    /\ UNCHANGED <<now, left, next_tid, fresh, budgets, last_bootstrap, sources, resolving>>

Tick ==
    /\ pc = "select"
    /\ now < MaxTime
    /\ now' = now + 1
    /\ UNCHANGED <<pc, left, pool, responsive, flight, budgets, boot>>

Next ==
    \/ \E rate \in Rates : OnScheduleTick(rate)
    \/ ScheduleOne
    \/ ScheduleStops
    \/ SendRequest
    \/ SendFails
    \/ \E tid \in DOMAIN pending, found \in Addrs \cup {NoAddr} : HandleResponse(tid, found)
    \/ \E tid \in unsent : HandleSendFailed(tid)
    \/ \E candidates \in SeqOf(Sources, 2) : HandleResolved(candidates)
    \/ \E addr \in Addrs : HandleDiscovered(addr)
    \/ Shutdown
    \/ Tick

Spec == Init /\ [][Next]_vars

-------------------------------------------------------------------------------
(* The state of the actor is well formed.                                  *)
TypeOK ==
    /\ now \in 0..MaxTime
    /\ pc \in {"select", "schedule", "stopped"}
    /\ left \in 0..Burst
    /\ IsInjective(pool.queue) /\ pool.queued = Range(pool.queue) /\ pool.queued \subseteq Addrs
    /\ Len(pool.queue) <= PoolCapacity
    /\ DOMAIN pending \subseteq 1..(next_tid - 1)
    /\ \A t \in DOMAIN pending :
        /\ pending[t].addr \in Addrs
        /\ pending[t].purpose \in {"New", "Revisit", "Bootstrap"}
        /\ pending[t].deadline = pending[t].dispatched_at + RequestTimeout
    /\ unsent \subseteq DOMAIN pending
    /\ Len(egress) <= MaxInFlight
    /\ Range(bootstrap_queue) \subseteq Sources

(* The counters of subnet_in_flight are those of the pending probes, and   *)
(* none is left behind at zero; so the limits, in all and per subnet, are  *)
(* never exceeded, and no answer, failure or timeout frees a place twice.  *)
(* A probe whose answer and whose failure report are lost is released all  *)
(* the same: its deadline is queued once, the queue is in order, and after *)
(* expire_pending no probe is overdue.                                     *)
InFlightAccounted ==
    LET of(subnet) == {t \in DOMAIN pending : Subnets[pending[t].addr] = subnet}
    IN  /\ TypeOK
        /\ DOMAIN subnet_in_flight = {Subnets[pending[t].addr] : t \in DOMAIN pending}
        /\ \A s \in DOMAIN subnet_in_flight :
            subnet_in_flight[s] = Cardinality(of(s)) /\ subnet_in_flight[s] <= MaxPerSubnet
        /\ Cardinality(DOMAIN pending) <= MaxInFlight
        /\ \A t \in DOMAIN pending :
            Cardinality({i \in DOMAIN pending_expiry :
                            pending_expiry[i] = <<pending[t].deadline, t>>}) = 1
        /\ \A i, j \in DOMAIN pending_expiry :
            i < j => pending_expiry[i][1] <= pending_expiry[j][1]
        /\ pc = "schedule" => \A t \in DOMAIN pending : pending[t].deadline > now

(* Every node of the reservoir waits for its next probe in one place: the  *)
(* actor records or defers each node it reserved, so that none is lost and *)
(* none is probed twice; the links of the ready list agree.  And none is   *)
(* eligible before its revisit interval, counted from the last probe its   *)
(* entry knows of, and its backoff are over, whatever answers, failures    *)
(* and deferrals happened in between.                                      *)
RevisitsSpaced == Scheduled(responsive) /\ Spaced(responsive, now)

(* What was sent never exceeds what the budgets granted since the start:   *)
(* refunds give back what was taken and no more, and every probe to an     *)
(* endpoint that was not recent paid for it.                               *)
BudgetsHonoured ==
    /\ (next_tid - 1) + left + query_budget.tokens <= Rate * query_budget.last_refill
    /\ fresh + destination_budget.tokens <= DestinationRate * destination_budget.last_refill
===============================================================================
