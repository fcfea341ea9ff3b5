------------------------------- MODULE DhtServer -------------------------------
(***************************************************************************)
(* The UDP side of the server and its lifecycle: starting and stopping     *)
(* (DHTServer, src/src/server.rs, and the handle of the JNI bindings,      *)
(* src/jni), the listener of every socket, which hands packets to the      *)
(* workers (src/src/udp_ingress.rs), the pool of receive buffers           *)
(* (src/src/udp_buffer.rs) and the workers with the message handlers.      *)
(*                                                                         *)
(* Listeners and workers are tasks on different threads.  A listener       *)
(* offers a packet to one worker after the other, and a worker may take a  *)
(* packet, panic in a callback or stop between two offers.                 *)
(*                                                                         *)
(* start is called once: a second call would serve the same sockets again. *)
(* The response limiter is ResponseLimiter; here it may permit or reject.  *)
(* The actors behind the channels are the other modules; here an event     *)
(* reaches a channel or finds it full.                                     *)
(***************************************************************************)
EXTENDS Integers, Sequences, FiniteSets, Functions

CONSTANTS
    Sockets,        \* the bound sockets, one listener each
    WorkerCount,    \* available_parallelism
    QueueSize,      \* a worker's queue, 5000
    InitialPool, MaxPool,
    Origins,        \* the remote addresses, as their hashes
    Kinds,          \* the kinds of packets that arrive, among AllKinds
    MaxPackets      \* bound on the packets received

Workers == 1..WorkerCount

(* What a datagram turns out to be: refused by the listener, not a message *)
(* of the protocol, a response to one of the three actors that query, or a *)
(* query.                                                                  *)
AllKinds == {"invalid", "garbage", "sample", "lookup", "crawl", "ping", "find_node", "get_peers",
             "announce_peer"}

Queries == {"ping", "find_node", "get_peers", "announce_peer"}

VARIABLES
    handle,     \* the JNI handle: "live", or "dropped" with its runtime
    shutdown,   \* the CancellationToken
    serving,    \* the call of start: "created", "running", or "over"
    crawling,   \* the crawl actor has taken its receivers
    listener,   \* socket -> [pc, workers, packet, offset, full]
    worker,     \* worker -> [pc, queue, packet]
    pool,       \* [free, made, gone]: buffers in the pool, allocated, and dropped
    packets,    \* how many packets were received
    answered,   \* history: the addresses a response, and so a token, was sent to
    announced   \* history: the addresses that reached the hash queue

vars == <<handle, shutdown, serving, crawling, listener, worker, pool, packets, answered, announced>>

lifecycle == <<handle, shutdown, serving, crawling>>

history == <<answered, announced>>

NoPacket == [kind |-> "none", from |-> 0, token |-> FALSE]

Init ==
    /\ handle = "live"
    /\ shutdown = FALSE
    /\ serving = "created"
    /\ crawling = FALSE
    /\ listener = [s \in Sockets |-> [pc |-> "off", workers |-> <<>>, packet |-> NoPacket,
                                      offset |-> 0, full |-> {}]]
    /\ worker = [w \in Workers |-> [pc |-> "off", queue |-> <<>>, packet |-> NoPacket]]
    /\ pool = [free |-> 0, made |-> 0, gone |-> 0]
    /\ packets = 0
    /\ answered = {}
    /\ announced = {}

-------------------------------------------------------------------------------
(* The lifecycle.                                                          *)

NewPool == [free |-> InitialPool, made |-> InitialPool, gone |-> 0]

(* start: refused once shut down; otherwise the crawl actor, the workers   *)
(* and the listeners are spawned.                                          *)
Start ==
    /\ serving = "created"
    /\ IF shutdown
       THEN /\ serving' = "over"
            /\ UNCHANGED <<crawling, listener, worker, pool>>
       ELSE /\ serving' = "running"
            /\ crawling' = TRUE
            /\ listener' = [s \in Sockets |->
                    [listener[s] EXCEPT !.pc = "top", !.workers = [i \in Workers |-> i]]]
            /\ worker' = [w \in Workers |-> [worker[w] EXCEPT !.pc = "recv"]]
            /\ pool' = NewPool
    /\ UNCHANGED <<handle, shutdown, packets, history>>

(* shutdown, and its end: start returns.                                   *)
Shutdown ==
    /\ ~shutdown
    /\ shutdown' = TRUE
    /\ UNCHANGED <<handle, serving, crawling, listener, worker, pool, packets, history>>

Return ==
    /\ serving = "running"
    /\ shutdown
    /\ serving' = "over"
    /\ UNCHANGED <<handle, shutdown, crawling, listener, worker, pool, packets, history>>

(* stopServer: the handle is consumed, the server shut down, and the       *)
(* runtime dropped by a thread of its own.                                 *)
StopServer ==
    /\ handle = "live"
    /\ handle' = "dropped"
    /\ shutdown' = TRUE
    /\ UNCHANGED <<serving, crawling, listener, worker, pool, packets, history>>

-------------------------------------------------------------------------------
(* The pool of buffers.                                                    *)

AcquireBuffer(p) == IF p.free > 0 THEN [p EXCEPT !.free = @ - 1] ELSE [p EXCEPT !.made = @ + 1]

ReleaseBuffer(p) == IF p.free < MaxPool THEN [p EXCEPT !.free = @ + 1] ELSE [p EXCEPT !.gone = @ + 1]

DropBuffers(p, n) == [p EXCEPT !.gone = @ + n]

-------------------------------------------------------------------------------
(* A listener.                                                             *)

ListenerStep(s, record, p) ==
    /\ listener' = [listener EXCEPT ![s] = record]
    /\ pool' = p
    /\ UNCHANGED <<lifecycle, history>>

Stopped(s) == [listener[s] EXCEPT !.pc = "stopped", !.packet = NoPacket, !.workers = <<>>,
                                  !.offset = 0, !.full = {}]

NextTurn(s) == [listener[s] EXCEPT !.pc = "top", !.packet = NoPacket, !.offset = 0, !.full = {}]

(* The top of the loop: a buffer for the next packet.                      *)
Listen(s) ==
    /\ listener[s].pc = "top"
    /\ ListenerStep(s, [listener[s] EXCEPT !.pc = "recv"], AcquireBuffer(pool))
    /\ UNCHANGED <<worker, packets>>

(* Mutant of StopListening: the wait for a packet is not cancelled.        *)
StopListeningAsleep(s) ==
    /\ shutdown
    /\ listener[s].pc = "sleep"
    /\ ListenerStep(s, Stopped(s), pool)
    /\ UNCHANGED <<worker, packets>>

(* The select is cancelled, in the wait for a packet or after an error.    *)
StopListening(s) ==
    /\ shutdown
    /\ listener[s].pc \in {"recv", "sleep"}
    /\ ListenerStep(s, Stopped(s), IF listener[s].pc = "recv" THEN ReleaseBuffer(pool) ELSE pool)
    /\ UNCHANGED <<worker, packets>>

RecvError(s) ==
    /\ listener[s].pc = "recv"
    /\ ListenerStep(s, [listener[s] EXCEPT !.pc = "sleep"], ReleaseBuffer(pool))
    /\ UNCHANGED <<worker, packets>>

Wake(s) ==
    /\ listener[s].pc = "sleep"
    /\ ListenerStep(s, NextTurn(s), pool)
    /\ UNCHANGED <<worker, packets>>

(* A datagram comes in: one that cannot be a message is dropped, another   *)
(* is about to be offered.  Who announces a peer knows the token of its    *)
(* address only from a response.                                           *)
RecvPacket(s, packet) ==
    /\ listener[s].pc = "recv"
    /\ packets < MaxPackets
    /\ packets' = packets + 1
    /\ packet.token => packet.kind = "announce_peer" /\ packet.from \in answered
    /\ IF packet.kind = "invalid" THEN ListenerStep(s, NextTurn(s), ReleaseBuffer(pool))
       ELSE ListenerStep(s, [listener[s] EXCEPT !.pc = "offer", !.packet = packet], pool)
    /\ UNCHANGED worker

(* The worker the packet is offered to next.                               *)
Offered(s) ==
    LET l == listener[s]
    IN  l.workers[((l.packet.from + l.offset) % Len(l.workers)) + 1]

Offering(s) == listener[s].pc = "offer" /\ listener[s].offset < Len(listener[s].workers)

Accepted(s) ==
    LET w == Offered(s)
    IN  /\ Offering(s)
        /\ worker[w].pc # "ended"
        /\ Len(worker[w].queue) < QueueSize
        /\ worker' = [worker EXCEPT ![w].queue = Append(@, listener[s].packet)]
        /\ ListenerStep(s, NextTurn(s), pool)
        /\ UNCHANGED packets

Refused(s) ==
    LET w == Offered(s)
    IN  /\ Offering(s)
        /\ worker[w].pc # "ended"
        /\ Len(worker[w].queue) >= QueueSize
        /\ ListenerStep(s, [listener[s] EXCEPT !.offset = @ + 1, !.full = @ \cup {w}], pool)
        /\ UNCHANGED <<worker, packets>>

(* Mutant of OffsetAfterClosed: the walk goes on where it was.             *)
OffsetKept(s) == listener[s].offset

OffsetAfterClosed(s) == 0

(* The worker is gone: swap_remove, and the walk begins again.             *)
Closed(s) ==
    LET l == listener[s]
        last == Len(l.workers)
        i == ((l.packet.from + l.offset) % last) + 1
    IN  /\ Offering(s)
        /\ worker[Offered(s)].pc = "ended"
        /\ ListenerStep(s, [l EXCEPT
                                !.workers = SubSeq([@ EXCEPT ![i] = l.workers[last]], 1, last - 1),
                                !.offset = OffsetAfterClosed(s)], pool)
        /\ UNCHANGED <<worker, packets>>

(* Mutant of ChokedPool: the buffer of a packet nobody takes is not        *)
(* returned.                                                               *)
ChokedPoolKept(s) == pool

ChokedPool(s) == ReleaseBuffer(pool)

Choked(s) ==
    /\ listener[s].pc = "offer"
    /\ listener[s].workers # <<>>
    /\ listener[s].offset >= Len(listener[s].workers)
    /\ ListenerStep(s, NextTurn(s), ChokedPool(s))
    /\ UNCHANGED <<worker, packets>>

NoLiveWorkers(s) ==
    /\ listener[s].pc = "offer"
    /\ listener[s].workers = <<>>
    /\ ListenerStep(s, Stopped(s), ReleaseBuffer(pool))
    /\ UNCHANGED <<worker, packets>>

-------------------------------------------------------------------------------
(* A worker.                                                               *)

WorkerStep(w, record, p) ==
    /\ worker' = [worker EXCEPT ![w] = record]
    /\ pool' = p
    /\ UNCHANGED <<lifecycle, listener, packets>>

Ended == [pc |-> "ended", queue |-> <<>>, packet |-> NoPacket]

(* The receiver is dropped, and the packets in the queue with it.          *)
End(w, held) ==
    /\ WorkerStep(w, Ended, DropBuffers(pool, Len(worker[w].queue) + held))
    /\ UNCHANGED history

StopWorking(w) ==
    /\ worker[w].pc = "recv"
    /\ \/ shutdown
       \/ /\ worker[w].queue = <<>>
          /\ serving = "over"
          /\ \A s \in Sockets : listener[s].pc = "stopped"
    /\ End(w, 0)

TakePacket(w) ==
    /\ worker[w].pc = "recv"
    /\ worker[w].queue # <<>>
    /\ WorkerStep(w, [pc |-> "handle", queue |-> Tail(worker[w].queue),
                      packet |-> Head(worker[w].queue)], pool)
    /\ UNCHANGED history

Done(w) == [worker[w] EXCEPT !.pc = "recv", !.packet = NoPacket]

(* Mutant of TokenAccepted: any token will do.                             *)
AnyToken(packet) == TRUE

(* validate_token.                                                         *)
TokenAccepted(packet) == packet.token

(* handle_announce_peer: the hash of a valid announcement is queued.       *)
Announces(packet) == packet.kind = "announce_peer" /\ TokenAccepted(packet)

(* The channels a message has an event for.                                *)
Routes(packet) ==
    CASE packet.kind = "sample" -> {"discovery"}
      [] packet.kind = "lookup" -> {"peer_lookup"}
      [] packet.kind = "crawl" -> {"crawl_priority"}
      [] packet.kind = "get_peers" -> {"crawl_discovery", "discovery"}
      [] Announces(packet) -> {"crawl_discovery", "hash"}
      [] packet.kind \in Queries -> {"crawl_discovery"}
      [] OTHER -> {}

(* handle_message up to the first await: events are offered to the         *)
(* channels, any of which may be full, or turned down by the filter; a     *)
(* query is answered if the limiter permits.                               *)
Handle(w, accepted, permitted) ==
    LET packet == worker[w].packet
    IN  /\ worker[w].pc = "handle"
        /\ accepted \subseteq Routes(packet)
        /\ permitted => packet.kind \in Queries
        /\ announced' = IF "hash" \in accepted THEN announced \cup {packet.from} ELSE announced
        /\ IF permitted THEN WorkerStep(w, [worker[w] EXCEPT !.pc = "send"], pool)
           ELSE WorkerStep(w, Done(w), ReleaseBuffer(pool))
        /\ UNCHANGED answered

(* The response is sent, or sending fails.                                 *)
Send(w, sent) ==
    /\ worker[w].pc = "send"
    /\ answered' = IF sent THEN answered \cup {worker[w].packet.from} ELSE answered
    /\ WorkerStep(w, Done(w), ReleaseBuffer(pool))
    /\ UNCHANGED announced

(* The filter is the application's and runs on the worker's task.          *)
Panic(w) ==
    /\ worker[w].pc = "handle"
    /\ Announces(worker[w].packet)
    /\ End(w, 1)

-------------------------------------------------------------------------------
(* The runtime is dropped: a task goes where it waits.                     *)

DropStart ==
    /\ handle = "dropped"
    /\ serving # "over"
    /\ serving' = "over"
    /\ UNCHANGED <<handle, shutdown, crawling, listener, worker, pool, packets, history>>

DropListener(s) ==
    /\ handle = "dropped"
    /\ listener[s].pc \in {"recv", "sleep"}
    /\ ListenerStep(s, Stopped(s), DropBuffers(pool, IF listener[s].pc = "recv" THEN 1 ELSE 0))
    /\ UNCHANGED <<worker, packets>>

DropWorker(w) ==
    /\ handle = "dropped"
    /\ worker[w].pc \in {"recv", "send"}
    /\ End(w, IF worker[w].pc = "send" THEN 1 ELSE 0)

-------------------------------------------------------------------------------
ListenerNext(s) ==
    \/ Listen(s) \/ StopListening(s) \/ RecvError(s) \/ Wake(s)
    \/ \E kind \in Kinds, from \in Origins, token \in BOOLEAN :
        RecvPacket(s, [kind |-> kind, from |-> from, token |-> token])
    \/ Accepted(s) \/ Refused(s) \/ Closed(s) \/ Choked(s) \/ NoLiveWorkers(s)
    \/ DropListener(s)

WorkerGoesOn(w) ==
    \/ TakePacket(w)
    \/ \E accepted \in SUBSET Routes(worker[w].packet), permitted \in BOOLEAN :
        Handle(w, accepted, permitted)
    \/ \E sent \in BOOLEAN : Send(w, sent)

WorkerNext(w) ==
    StopWorking(w) \/ Panic(w) \/ DropWorker(w) \/ WorkerGoesOn(w)

Next ==
    \/ Start \/ Shutdown \/ Return \/ StopServer \/ DropStart
    \/ \E s \in Sockets : ListenerNext(s)
    \/ \E w \in Workers : WorkerNext(w)

(* The tasks are polled: start, a listener and a worker go on when they    *)
(* can.  A select takes any of the branches that are ready, so the one for *)
(* the shutdown is taken if it is ready again and again.  Nothing is asked *)
(* of the network, of the application, or of the drop of the runtime.      *)
ListenerGoesOn(s) ==
    Listen(s) \/ Wake(s) \/ Accepted(s) \/ Refused(s) \/ Closed(s) \/ Choked(s) \/ NoLiveWorkers(s)

Fairness ==
    /\ WF_vars(Start \/ Return)
    /\ \A s \in Sockets : WF_vars(ListenerGoesOn(s)) /\ SF_vars(StopListening(s))
    /\ \A w \in Workers : WF_vars(WorkerGoesOn(w)) /\ SF_vars(StopWorking(w))

Spec == Init /\ [][Next]_vars /\ Fairness

-------------------------------------------------------------------------------
(* A packet is dropped only after every worker that still runs was found   *)
(* with a full queue, and a listener gives up only when no worker runs:    *)
(* removing one that has gone, which moves another into its place, makes   *)
(* the walk over the workers skip none (process_udp_packet).               *)
NoWorkerSkipped ==
    [][\A s \in Sockets :
        /\ Choked(s) => \A w \in Workers : worker[w].pc # "ended" => w \in listener[s].full
        /\ NoLiveWorkers(s) => \A w \in Workers : worker[w].pc = "ended"]_vars

Held ==
    Cardinality({s \in Sockets : listener[s].pc \in {"recv", "offer"}})
    + Cardinality({w \in Workers : worker[w].pc \in {"handle", "send"}})
    + FoldFunction(LAMBDA r, sum : Len(r.queue) + sum, 0, worker)

(* Every receive buffer is in the pool, waits for a packet, or holds one   *)
(* on its way, unless the pool was full or its owner was dropped: no path  *)
(* through the listener or a worker keeps one (UdpBufferPool).             *)
BuffersAccounted ==
    /\ pool.made - pool.gone = pool.free + Held
    /\ pool.free <= MaxPool

(* An announced peer enters the hash queue only if a response, with the    *)
(* token of its address, had been sent to that address, whichever workers  *)
(* handled the two queries (handle_announce_peer, validate_token).         *)
AnnouncesVouched == announced \subseteq answered

(* A server that is shut down, before, during or after its start, comes to *)
(* rest: start returns, and no listener or worker is left running on the   *)
(* socket, whatever arrives meanwhile and whichever workers are gone       *)
(* (shutdown, spawn_workers, spawn_udp_listener).                          *)
ShutdownStops ==
    shutdown ~> /\ serving = "over"
                /\ \A s \in Sockets : listener[s].pc \in {"off", "stopped"}
                /\ \A w \in Workers : worker[w].pc \in {"off", "ended"}
===============================================================================
