------------------------------- MODULE ProbeWindow -------------------------------
(***************************************************************************)
(* Is the memory of recent probes large enough?  recent_probe_capacity     *)
(* (src/src/crawl_engine.rs) bounds the endpoints that can be recent at    *)
(* the same time by the budgets of the crawl actor.  This module keeps of  *)
(* module CrawlActor what the bound depends on: which probes pay which     *)
(* budget, that a probe makes its endpoint recent, that an answered probe  *)
(* brings its endpoint into the reservoir, and that a node of the          *)
(* reservoir, or a bootstrap source, is probed again for free while it is  *)
(* recent.                                                                 *)
(*                                                                         *)
(* The order in which nodes are chosen, replaced, or forgotten, backoff,   *)
(* and intervals are left open: any node of the reservoir may be probed,   *)
(* and any may make room for another.  A unit of time stands for a second  *)
(* and for a minute, so that the burst of the destination budget is one    *)
(* unit's worth of it.                                                     *)
(***************************************************************************)
EXTENDS RateBucket, FiniteSets, Functions

CONSTANTS
    Addrs,              \* the endpoints, 1, 2 and so on
    Configs,            \* the query rate and burst, and whether bootstrap is enabled
    DestinationRate,    \* max_new_destinations_per_minute
    ReservoirCapacity,  \* responsive_capacity
    MaxInFlight,        \* max_in_flight
    RecentTtl,          \* recent_probe_ttl
    MaxTime             \* bound: the clock

VARIABLES
    now,
    config,        \* the member of Configs this crawl runs with
    recent,        \* endpoint -> until when it counts as recent
    reservoir,     \* endpoints that answered
    pending,       \* endpoint -> its probes in flight
    query_budget, destination_budget

vars == <<now, config, recent, reservoir, pending, query_budget, destination_budget>>

Init ==
    /\ now = 0
    /\ config \in Configs
    /\ recent = [a \in {} |-> 0]
    /\ reservoir = {}
    /\ pending = [a \in Addrs |-> 0]
    /\ query_budget = NewBucket(config.rate, config.burst, FALSE, 0)
    /\ destination_budget = NewBucket(DestinationRate, DestinationRate, FALSE, 0)

(* Mutant of RecentProbeCapacity: the endpoints that answered before are   *)
(* not counted.                                                            *)
CapacityOfNew(c) ==
    LET query_window == c.rate * RecentTtl + c.burst
        destination_window == DestinationRate * RecentTtl + DestinationRate
    IN  Max({1, IF c.bootstrap THEN query_window ELSE Min({query_window, destination_window})})

RecentProbeCapacity(c) ==
    LET query_window == c.rate * RecentTtl + c.burst
        destination_window == DestinationRate * RecentTtl + DestinationRate
        resident_window == destination_window + ReservoirCapacity + MaxInFlight
    IN  Max({1, IF c.bootstrap THEN query_window ELSE Min({query_window, resident_window})})

Live == {a \in DOMAIN recent : recent[a] > now}

(* A probe of an endpoint, with or without a token for the destination.    *)
Probe(addr, free) ==
    /\ SumFunction(pending) < MaxInFlight
    /\ HasToken(query_budget, now)
    /\ free \/ HasToken(destination_budget, now)
    /\ query_budget' = TakeOne(query_budget, now)
    /\ destination_budget' = IF free THEN destination_budget
                             ELSE TakeOne(destination_budget, now)
    /\ pending' = [pending EXCEPT ![addr] = @ + 1]
    /\ recent' = [a \in Live \cup {addr} |-> IF a = addr THEN now + RecentTtl ELSE recent[a]]
    /\ UNCHANGED <<now, config, reservoir>>

(* A node of the pool always pays.  The endpoints nothing is known of are  *)
(* interchangeable, so that it is enough to look at the first of them.     *)
ProbeNew(addr) ==
    LET known == {a \in Addrs : a \in Live \/ a \in reservoir \/ pending[a] > 0}
    IN  /\ addr \in known \/ \A a \in 1..(addr - 1) : a \in known
        /\ Probe(addr, FALSE)

(* Other endpoints pay unless they are recent.                             *)
ProbeRevisit(addr) == addr \in reservoir /\ Probe(addr, addr \in Live)

ProbeBootstrap(addr) == config.bootstrap /\ Probe(addr, addr \in Live)

(* The answer: the endpoint enters the reservoir, in place of another when *)
(* the reservoir is full.                                                  *)
Answer(addr) ==
    /\ pending[addr] > 0
    /\ pending' = [pending EXCEPT ![addr] = @ - 1]
    /\ \E gone \in SUBSET reservoir :
        /\ Cardinality(gone) <= 1
        /\ reservoir' = (reservoir \ gone) \cup {addr}
    /\ Cardinality(reservoir') <= ReservoirCapacity
    /\ UNCHANGED <<now, config, recent, query_budget, destination_budget>>

(* A probe times out; its endpoint may leave the reservoir.                *)
Expire(addr) ==
    /\ pending[addr] > 0
    /\ pending' = [pending EXCEPT ![addr] = @ - 1]
    /\ reservoir' \in {reservoir, reservoir \ {addr}}
    /\ UNCHANGED <<now, config, recent, query_budget, destination_budget>>

Tick ==
    /\ now < MaxTime
    /\ now' = now + 1
    /\ UNCHANGED <<config, recent, reservoir, pending, query_budget, destination_budget>>

Next ==
    \/ Tick
    \/ \E addr \in Addrs :
        ProbeNew(addr) \/ ProbeRevisit(addr) \/ ProbeBootstrap(addr) \/ Answer(addr) \/ Expire(addr)

Spec == Init /\ [][Next]_vars

-------------------------------------------------------------------------------
(* recent_probe_capacity is enough: however probes, answers and timeouts   *)
(* follow each other, no more endpoints are recent at a time than the      *)
(* memory holds, so it forgets none that a budget relies on.               *)
RecentFits == Cardinality(Live) <= RecentProbeCapacity(config)
===============================================================================
