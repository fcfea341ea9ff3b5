------------------------------- MODULE MCComponents -------------------------------
(***************************************************************************)
(* Five parts of the crawler that share no state, on small instances: the  *)
(* memory of recent probes (RecentProbes) and what it must hold            *)
(* (ProbeWindow), the sampling and lookup of the routing table             *)
(* (SnapshotPublisher), the limits on responses (ResponseLimiter) and the  *)
(* listeners and workers (DhtServer).  A behaviour exercises the one that  *)
(* part names and leaves the others in their initial states.               *)
(***************************************************************************)
EXTENDS RecentProbes

CONSTANTS
    IdBits, PrefixBits, Populations, NoNode, SnapshotSize, MaxChanges,
    ProbeAddrs, Configs, DestinationRate, ReservoirCapacity, MaxInFlight, ProbeTime,
    Sources, Lengths, PacketRate, ByteRate, MinByteBurst, SourceRate, Second, SourceTtl,
    LimiterTime,
    Sockets, WorkerCount, QueueSize, InitialPool, MaxPool, Origins, Kinds, MaxPackets

VARIABLES
    part,
    slots, member_cursors, prefix_cursor, sparse_prefixes, snapshot, sample, current, changes,
    unseen,
    probe_now, config, live, reservoir, pending, query_budget, destination_budget,
    limiter_now, limiter, permit, granted,
    handle, shutdown, serving, crawling, listener, worker, pool, packets, answered, announced

Publisher == INSTANCE SnapshotPublisher

Memory == INSTANCE ProbeWindow
            WITH Addrs <- ProbeAddrs, RecentTtl <- Ttl, MaxTime <- ProbeTime,
                 now <- probe_now, recent <- live

Limiter == INSTANCE ResponseLimiter
            WITH MaxTime <- LimiterTime, now <- limiter_now

Server == INSTANCE DhtServer

publisherVars == <<slots, member_cursors, prefix_cursor, sparse_prefixes, snapshot, sample,
                   current, changes, unseen>>

memoryVars == <<probe_now, config, live, reservoir, pending, query_budget, destination_budget>>

limiterVars == <<limiter_now, limiter, permit, granted>>

serverVars == <<handle, shutdown, serving, crawling, listener, worker, pool, packets, answered,
                announced>>

partVars == <<part, vars, publisherVars, memoryVars, limiterVars, serverVars>>

PartsInit ==
    /\ part \in {"recent", "memory", "publisher", "limiter", "server"}
    /\ Init /\ Publisher!Init /\ Memory!Init /\ Limiter!Init /\ Server!Init
    /\ part # "recent" => recent.capacity = 3
    /\ part # "memory" => config.bootstrap

PartsNext ==
    \/ /\ part = "recent" /\ Next
       /\ UNCHANGED <<part, publisherVars, memoryVars, limiterVars, serverVars>>
    \/ /\ part = "memory" /\ Memory!Next
       /\ UNCHANGED <<part, vars, publisherVars, limiterVars, serverVars>>
    \/ /\ part = "publisher" /\ Publisher!Next
       /\ UNCHANGED <<part, vars, memoryVars, limiterVars, serverVars>>
    \/ /\ part = "limiter" /\ Limiter!Next
       /\ UNCHANGED <<part, vars, publisherVars, memoryVars, serverVars>>
    \/ /\ part = "server" /\ Server!Next
       /\ UNCHANGED <<part, vars, publisherVars, memoryVars, limiterVars>>

PartsSpec == PartsInit /\ [][PartsNext]_partVars

-------------------------------------------------------------------------------
(* A memory of three endpoints of seven, long enough for deadlines to be   *)
(* moved, and one of six, in which a pair that replaces another may have   *)
(* to move up.                                                             *)
MCClock == [capacity \in {3, 6} |-> IF capacity = 3 THEN 3 ELSE 0]

(* Without bootstrap the memory is sized by the reservoir and the requests *)
(* in flight, with it by the query budget.                                 *)
MCConfigs == {[rate |-> 3, burst |-> 3, bootstrap |-> FALSE],
              [rate |-> 1, burst |-> 1, bootstrap |-> TRUE]}

MCNode(id, addr, subnet) == [id |-> id, addr |-> addr, subnet |-> subnet, v6 |-> addr > 5]

(* Prefix 00 has up to four nodes in two or three subnets, of which a      *)
(* sample of three shows some; two ids are shared, one of them by both     *)
(* address families.                                                       *)
MCPopulations ==
    LET a == MCNode(<<0, 0, 0>>, 2, 1)
        b == MCNode(<<0, 0, 1>>, 1, 1)
        c == MCNode(<<0, 0, 1>>, 3, 2)
        d == MCNode(<<0, 0, 0>>, 4, 2)
        e == MCNode(<<1, 1, 0>>, 5, 3)
        f == MCNode(<<0, 0, 0>>, 6, 4)
        g == MCNode(<<0, 1, 1>>, 7, 4)
    IN  {<<a, b, c, d>>, <<a, b, c, d, e>>, <<f, b, NoNode, g, e>>, <<a, NoNode, b, f>>,
         <<g, a, b, f, e>>, <<g, e, f, d, c, b>>, <<e>>}

(* "Give each represented ID prefix a seed before filling any prefix a     *)
(* second time" and "Relax subnet diversity only after all distinct subnet *)
(* candidates have been considered": the sample has no node twice, as many *)
(* as there are or as fit, no prefix twice while another has none, and     *)
(* past the seeds a subnet again only if all the subnets are in it.        *)
SampleStratified == part = "publisher" => Publisher!SampleStratified

(* "every member gets the first slot": while the population stays the      *)
(* same, a node is in one of as many consecutive samples as there are      *)
(* prefixes times nodes of its own prefix, however the cursors stood.      *)
EveryNodeShown == part = "publisher" => Publisher!EveryNodeShown

(* closest_nodes walks the trie, and with both families merges what either *)
(* walk found; it returns what sorting the whole table would: the count    *)
(* nearest nodes by XOR distance and address, in this order.               *)
NearestAgrees == part = "publisher" => Publisher!NearestAgrees

(* recent_probe_capacity is enough: however probes, answers and timeouts   *)
(* follow each other, no more endpoints are recent at a time than the      *)
(* memory holds, so it forgets none that a budget relies on.               *)
RecentFits == part = "memory" => Memory!RecentFits

(* The worker's answers stay within its share: both classes within the     *)
(* packets and bytes of their buckets, whatever was refunded on the way,   *)
(* and no source gets more than two windows' fill in any second (acquire,  *)
(* acquire_source_slot).                                                   *)
AnswersBounded == part = "limiter" => Limiter!AnswersBounded

(* A response that is rejected, or denied by one check after passing       *)
(* another, leaves every bucket as full as it was: one source's refusals   *)
(* cost the others nothing (take_budget, refund_budget).                   *)
RejectionIsFree == Limiter!RejectionIsFree

(* Every source remembered has the pair that makes it go SourceTtl after   *)
(* its last response, behind no pair that is due later, and no source is   *)
(* forgotten before (acquire_source_slot, expire_sources).                 *)
SourcesExpire == part = "limiter" => Limiter!SourcesExpire

(* A packet is dropped only after every worker that still runs was found   *)
(* with a full queue, and a listener gives up only when no worker runs:    *)
(* removing one that has gone, which moves another into its place, makes   *)
(* the walk over the workers skip none (process_udp_packet).               *)
NoWorkerSkipped == Server!NoWorkerSkipped

(* Every receive buffer is in the pool, waits for a packet, or holds one   *)
(* on its way, unless the pool was full or its owner was dropped: no path  *)
(* through the listener or a worker keeps one (UdpBufferPool).             *)
BuffersAccounted == part = "server" => Server!BuffersAccounted

(* An announced peer enters the hash queue only if a response, with the    *)
(* token of its address, had been sent to that address, whichever workers  *)
(* handled the two queries (handle_announce_peer, validate_token).         *)
AnnouncesVouched == part = "server" => Server!AnnouncesVouched
===============================================================================
