---------------------------- MODULE DhtServerProofs ----------------------------
(***************************************************************************)
(* AnnouncesVouched holds of the server for every set of sockets, workers, *)
(* addresses and packets.  The token of an announcement is judged when its *)
(* packet is handled, so the inductive invariant follows the packet from   *)
(* the listener through the queue to the worker.                           *)
(*                                                                         *)
(* The second part is about the response limiter of a worker, which has    *)
(* variables of its own: RejectionIsFree holds of it for all rates.        *)
(***************************************************************************)
EXTENDS DhtServer, TLAPS

Packet == [kind : Kinds \cup {"none"}, from : Origins \cup {0}, token : BOOLEAN]

Worker ==
    [pc : {"off", "recv", "handle", "send", "ended"}, queue : Seq(Packet), packet : Packet]

(* The sender of a packet with the right token has been sent a response.   *)
Vouched(packet) == packet.token => packet.from \in answered

ListenersVouched ==
    /\ DOMAIN listener = Sockets
    /\ \A s \in Sockets :
        /\ DOMAIN listener[s] = {"pc", "workers", "packet", "offset", "full"}
        /\ listener[s].packet \in Packet
        /\ Vouched(listener[s].packet)

WorkersVouched ==
    /\ worker \in [Workers -> Worker]
    /\ \A w \in Workers :
        /\ Vouched(worker[w].packet)
        /\ \A i \in 1..Len(worker[w].queue) : Vouched(worker[w].queue[i])

(* The inductive invariant.                                                *)
Inv == ListenersVouched /\ WorkersVouched /\ AnnouncesVouched

(* A packet that nobody sent vouches for nobody.                           *)
LEMMA NoPacketVouched == NoPacket \in Packet /\ Vouched(NoPacket)
BY DEF NoPacket, Packet, Vouched

(* Before the start there are no packets.                                  *)
LEMMA InitInv == Init => Inv
<1>. SUFFICES ASSUME Init PROVE Inv
  OBVIOUS
<1>1. ListenersVouched
  BY NoPacketVouched DEF Init, ListenersVouched
<1>2. WorkersVouched
  <2>. DEFINE idle == [pc |-> "off", queue |-> <<>>, packet |-> NoPacket]
  <2>1. worker = [w \in Workers |-> idle]
    BY DEF Init
  <2>2. idle \in Worker /\ idle.packet = NoPacket /\ idle.queue = <<>>
    BY NoPacketVouched DEF Worker
  <2>3. 1..Len(<<>>) = {}
    OBVIOUS
  <2>. HIDE DEF idle
  <2>. QED
    BY <2>1, <2>2, <2>3, NoPacketVouched DEF WorkersVouched
<1>3. AnnouncesVouched
  BY DEF Init, AnnouncesVouched
<1>. QED
  BY <1>1, <1>2, <1>3 DEF Inv

(* A step that leaves the packets alone leaves their senders vouched for.  *)
LEMMA QuietInv ==
    ASSUME Inv, Start \/ Shutdown \/ Return \/ StopServer \/ DropStart
    PROVE  Inv'
<1>1. UNCHANGED history
  BY Zenon DEF Start, Shutdown, Return, StopServer, DropStart
<1>2. CASE UNCHANGED <<listener, worker>>
  BY <1>1, <1>2 DEF Inv, ListenersVouched, WorkersVouched, AnnouncesVouched, Vouched, history
<1>3. CASE Start /\ ~shutdown
  <2>0. UNCHANGED answered
    BY <1>1 DEF history
  <2>1. ListenersVouched'
    <3>1. PICK all : listener' = [s \in Sockets |->
                        [listener[s] EXCEPT !.pc = "top", !.workers = all]]
      BY <1>3, ZenonT(60) DEF Start
    <3>2. \A s \in Sockets : /\ DOMAIN listener'[s] = DOMAIN listener[s]
                             /\ listener'[s].packet = listener[s].packet
      BY <3>1, ZenonT(60) DEF Inv, ListenersVouched
    <3>. QED
      BY <2>0, <3>1, <3>2, ZenonT(60) DEF Inv, ListenersVouched, Vouched
  <2>2. WorkersVouched'
    <3>1. worker' = [w \in Workers |-> [worker[w] EXCEPT !.pc = "recv"]]
      BY <1>3, Zenon DEF Start
    <3>2. \A w \in Workers : /\ worker'[w] \in Worker
                             /\ worker'[w].packet = worker[w].packet
                             /\ worker'[w].queue = worker[w].queue
      BY <3>1 DEF Inv, WorkersVouched, Worker
    <3>. QED
      BY <2>0, <3>1, <3>2 DEF Inv, WorkersVouched, Vouched
  <2>. QED
    BY <1>1, <2>1, <2>2 DEF Inv, AnnouncesVouched, history
<1>. QED
  BY <1>2, <1>3, ZenonT(60) DEF Start, Shutdown, Return, StopServer, DropStart

(* A listener that turns to a packet whose sender is vouched for, or drops *)
(* the one it has.                                                         *)
LEMMA ListenerStepInv ==
    ASSUME Inv, NEW s \in Sockets, NEW record, NEW p,
           ListenerStep(s, record, p),
           DOMAIN record = {"pc", "workers", "packet", "offset", "full"},
           record.packet \in Packet, Vouched(record.packet)
    PROVE  ListenersVouched' /\ AnnouncesVouched'
<1>1. UNCHANGED history /\ listener' = [listener EXCEPT ![s] = record]
  BY DEF ListenerStep
<1>2. ListenersVouched'
  BY <1>1 DEF Inv, ListenersVouched, Vouched, history
<1>. QED
  BY <1>1, <1>2 DEF Inv, AnnouncesVouched, history

(* Where no worker moves and nothing is sent, the workers stay as they     *)
(* were.                                                                   *)
LEMMA WorkersKept ==
    ASSUME Inv, UNCHANGED <<worker, history>>
    PROVE  WorkersVouched'
BY DEF Inv, WorkersVouched, Vouched, history

(* What a listener leaves in its record when it stops, or turns to the     *)
(* next packet.                                                            *)
LEMMA EmptyHanded ==
    ASSUME Inv, NEW s \in Sockets
    PROVE  \A record \in {Stopped(s), NextTurn(s)} :
            /\ DOMAIN record = {"pc", "workers", "packet", "offset", "full"}
            /\ record.packet \in Packet
            /\ Vouched(record.packet)
BY NoPacketVouched, Zenon DEF Inv, ListenersVouched, Stopped, NextTurn

(* Every step of a listener: a packet with the right token comes only from *)
(* a sender that was answered, and is handed to a worker as it came.       *)
LEMMA ListenerInv ==
    ASSUME Inv, NEW s \in Sockets, ListenerNext(s)
    PROVE  Inv'
<1>. DEFINE Fields == {"pc", "workers", "packet", "offset", "full"}
            Good(record) == DOMAIN record = Fields /\ record.packet \in Packet
                            /\ Vouched(record.packet)
<1>1. ASSUME NEW record, NEW p, Good(record), ListenerStep(s, record, p), UNCHANGED worker
      PROVE  Inv'
  <2>1. UNCHANGED <<worker, history>>
    BY <1>1 DEF ListenerStep
  <2>. QED
    BY <1>1, <2>1, ListenerStepInv, WorkersKept DEF Inv
<1>2. Good(listener[s])
  BY DEF Inv, ListenersVouched
<1>3. Good(Stopped(s)) /\ Good(NextTurn(s))
  BY EmptyHanded
<1>4. CASE Listen(s) \/ RecvError(s)
  <2>1. Good([listener[s] EXCEPT !.pc = "recv"]) /\ Good([listener[s] EXCEPT !.pc = "sleep"])
    BY <1>2 DEF Vouched
  <2>. QED
    BY <1>1, <1>4, <2>1 DEF Listen, RecvError
<1>5. CASE \/ StopListening(s) \/ Wake(s) \/ Choked(s) \/ NoLiveWorkers(s)
           \/ DropListener(s)
  BY <1>1, <1>3, <1>5 DEF StopListening, Wake, Choked, NoLiveWorkers, DropListener
<1>6. ASSUME NEW kind \in Kinds, NEW from \in Origins, NEW token \in BOOLEAN,
             RecvPacket(s, [kind |-> kind, from |-> from, token |-> token])
      PROVE  Inv'
  <2>. DEFINE packet == [kind |-> kind, from |-> from, token |-> token]
              taken == [listener[s] EXCEPT !.pc = "offer", !.packet = packet]
  <2>1. packet \in Packet /\ Vouched(packet)
    BY <1>6 DEF Packet, Vouched, RecvPacket
  <2>2. Good(taken)
    BY <1>2, <2>1
  <2>3. \/ ListenerStep(s, NextTurn(s), ReleaseBuffer(pool))
        \/ ListenerStep(s, taken, pool)
    BY <1>6 DEF RecvPacket
  <2>4. UNCHANGED worker
    BY <1>6 DEF RecvPacket
  <2>. QED
    BY <1>1, <1>3, <2>2, <2>3, <2>4, Zenon
<1>7. CASE Accepted(s)
  <2>1. ListenersVouched' /\ AnnouncesVouched'
    BY <1>3, <1>7, ListenerStepInv DEF Accepted
  <2>2. /\ worker' = [worker EXCEPT ![Offered(s)].queue = Append(@, listener[s].packet)]
        /\ UNCHANGED answered
    BY <1>7 DEF Accepted, ListenerStep, history
  <2>3. WorkersVouched'
    <3>1. \A w \in Workers : worker[w] \in Worker
      BY DEF Inv, WorkersVouched
    <3>2. worker' \in [Workers -> Worker]
      <4>1. \A w \in Workers :
              [worker[w] EXCEPT !.queue = Append(@, listener[s].packet)] \in Worker
        <5>1. listener[s].packet \in Packet
          BY <1>2
        <5>2. \A w \in Workers : Append(worker[w].queue, listener[s].packet) \in Seq(Packet)
          BY <3>1, <5>1 DEF Worker
        <5>. QED
          BY <3>1, <5>2 DEF Worker
      <4>2. \A w \in Workers :
              worker'[w] \in {worker[w],
                             [worker[w] EXCEPT !.queue = Append(@, listener[s].packet)]}
        BY <2>2, Zenon DEF Inv, WorkersVouched
      <4>3. worker' = [w \in Workers |-> worker'[w]]
        BY <2>2, Zenon DEF Inv, WorkersVouched
      <4>. QED
        BY <3>1, <4>1, <4>2, <4>3
    <3>3. ASSUME NEW w \in Workers
          PROVE  /\ Vouched(worker[w].packet)'
                 /\ \A i \in 1..Len(worker'[w].queue) : Vouched(worker[w].queue[i])'
      <4>1. Vouched(worker[w].packet)'
        BY <2>2, <3>1 DEF Inv, WorkersVouched, Worker, Vouched
      <4>2. CASE w # Offered(s)
        BY <2>2, <4>1, <4>2 DEF Inv, WorkersVouched, Vouched
      <4>3. CASE w = Offered(s)
        <5>1. worker'[w].queue = Append(worker[w].queue, listener[s].packet)
          BY <2>2, <3>1, <4>3 DEF Inv, WorkersVouched, Worker
        <5>2. worker[w].queue \in Seq(Packet)
          BY <3>1 DEF Worker
        <5>3. \A i \in 1..Len(worker'[w].queue) :
                \/ worker'[w].queue[i] = listener[s].packet
                \/ i \in 1..Len(worker[w].queue) /\ worker'[w].queue[i] = worker[w].queue[i]
          BY <1>2, <5>1, <5>2
        <5>. QED
          BY <1>2, <2>2, <4>1, <5>3 DEF Inv, WorkersVouched, Vouched
      <4>. QED
        BY <4>2, <4>3
    <3>. QED
      BY <3>2, <3>3 DEF WorkersVouched
  <2>. QED
    BY <2>1, <2>3 DEF Inv
<1>8. CASE Refused(s)
  <2>. DEFINE next == [listener[s] EXCEPT !.offset = @ + 1, !.full = @ \cup {Offered(s)}]
  <2>1. Good(next)
    BY <1>2
  <2>2. ListenerStep(s, next, pool) /\ UNCHANGED worker
    BY <1>8 DEF Refused
  <2>. QED
    BY <1>1, <2>1, <2>2, Zenon
<1>9. CASE Closed(s)
  <2>1. PICK workers, offset :
            /\ ListenerStep(s, [listener[s] EXCEPT !.workers = workers, !.offset = offset], pool)
            /\ UNCHANGED worker
    BY <1>9, Zenon DEF Closed
  <2>2. Good([listener[s] EXCEPT !.workers = workers, !.offset = offset])
    BY <1>2
  <2>. QED
    BY <1>1, <2>1, <2>2, Zenon
<1>. QED
  BY <1>4, <1>5, <1>6, <1>7, <1>8, <1>9, Zenon DEF ListenerNext

(* A worker that goes on without sending: its packet is one from its       *)
(* queue, or none.                                                         *)
LEMMA WorkerStepInv ==
    ASSUME Inv, NEW w \in Workers, NEW record \in Worker, NEW p,
           WorkerStep(w, record, p), answered \subseteq answered',
           Vouched(record.packet),
           \A i \in 1..Len(record.queue) : Vouched(record.queue[i])
    PROVE  ListenersVouched' /\ WorkersVouched'
<1>1. UNCHANGED listener /\ worker' = [worker EXCEPT ![w] = record]
  BY DEF WorkerStep
<1>2. ListenersVouched'
  BY <1>1 DEF Inv, ListenersVouched, Vouched
<1>3. WorkersVouched'
  BY <1>1 DEF Inv, WorkersVouched, Vouched
<1>. QED
  BY <1>2, <1>3

(* Every step of a worker: an announcement is queued only with the right   *)
(* token, and answers are never taken back.                                *)
LEMMA WorkerInv ==
    ASSUME Inv, NEW w \in Workers, WorkerNext(w)
    PROVE  Inv'
<1>. DEFINE Good(record) ==
                /\ record \in Worker
                /\ Vouched(record.packet)
                /\ \A i \in 1..Len(record.queue) : Vouched(record.queue[i])
<1>1. Good(worker[w])
  BY DEF Inv, WorkersVouched
<1>2. Good(Ended)
  <2>1. 1..Len(<<>>) = {}
    OBVIOUS
  <2>. QED
    BY <2>1, NoPacketVouched DEF Ended, Worker
<1>3. Good(Done(w)) /\ Good([worker[w] EXCEPT !.pc = "send"])
  BY <1>1, NoPacketVouched, Zenon DEF Done, Worker, Vouched
<1>4. ASSUME NEW record, NEW p, Good(record), WorkerStep(w, record, p), UNCHANGED history
      PROVE  Inv'
  <2>1. ListenersVouched' /\ WorkersVouched'
    BY <1>4, WorkerStepInv DEF history
  <2>. QED
    BY <1>4, <2>1 DEF Inv, AnnouncesVouched, history
<1>5. CASE StopWorking(w) \/ Panic(w) \/ DropWorker(w)
  BY <1>2, <1>4, <1>5, Zenon DEF StopWorking, Panic, DropWorker, End
<1>6. CASE TakePacket(w)
  <2>. DEFINE q == worker[w].queue
              record == [pc |-> "handle", queue |-> Tail(q), packet |-> Head(q)]
  <2>1. q \in Seq(Packet) /\ q # <<>>
    BY <1>1, <1>6 DEF Worker, TakePacket
  <2>2. /\ Tail(q) \in Seq(Packet) /\ Head(q) = q[1] /\ q[1] \in Packet /\ 1 \in 1..Len(q)
        /\ \A i \in 1..Len(Tail(q)) : i + 1 \in 1..Len(q) /\ Tail(q)[i] = q[i + 1]
    BY <2>1
  <2>3. record \in Worker
    BY <2>2 DEF Worker
  <2>4. Good(record)
    BY <1>1, <2>2, <2>3
  <2>5. WorkerStep(w, record, pool) /\ UNCHANGED history
    BY <1>6 DEF TakePacket
  <2>. QED
    BY <1>4, <2>4, <2>5, Zenon
<1>7. ASSUME NEW accepted \in SUBSET Routes(worker[w].packet), NEW permitted \in BOOLEAN,
             Handle(w, accepted, permitted)
      PROVE  Inv'
  <2>. DEFINE packet == worker[w].packet
  <2>1. "hash" \in accepted => packet.token
    BY DEF Routes, Announces, TokenAccepted
  <2>2. AnnouncesVouched'
    BY <1>1, <1>7, <2>1 DEF Handle, Inv, AnnouncesVouched, Vouched
  <2>3. PICK record, p : Good(record) /\ WorkerStep(w, record, p)
    BY <1>3, <1>7, Zenon DEF Handle
  <2>4. ListenersVouched' /\ WorkersVouched'
    BY <1>7, <2>3, WorkerStepInv DEF Handle
  <2>. QED
    BY <2>2, <2>4 DEF Inv
<1>8. ASSUME NEW sent \in BOOLEAN, Send(w, sent)
      PROVE  Inv'
  <2>1. answered \subseteq answered' /\ UNCHANGED announced
    BY <1>8 DEF Send
  <2>2. ListenersVouched' /\ WorkersVouched'
    BY <1>3, <1>8, <2>1, WorkerStepInv DEF Send
  <2>. QED
    BY <2>1, <2>2 DEF Inv, AnnouncesVouched
<1>. QED
  BY <1>5, <1>6, <1>7, <1>8 DEF WorkerNext, WorkerGoesOn

(* Every step preserves the invariant.                                     *)
LEMMA NextInv == Inv /\ [Next]_vars => Inv'
<1>. SUFFICES ASSUME Inv, [Next]_vars PROVE Inv'
  OBVIOUS
<1>1. CASE Start \/ Shutdown \/ Return \/ StopServer \/ DropStart
  BY <1>1, QuietInv
<1>2. CASE \E s \in Sockets : ListenerNext(s)
  BY <1>2, ListenerInv
<1>3. CASE \E w \in Workers : WorkerNext(w)
  BY <1>3, WorkerInv
<1>4. CASE UNCHANGED vars
  BY <1>4 DEF vars, Inv, ListenersVouched, WorkersVouched, AnnouncesVouched, Vouched
<1>. QED
  BY <1>1, <1>2, <1>3, <1>4 DEF Next

(* The inductive invariant holds in every reachable state of the server.   *)
THEOREM Invariance == Spec => []Inv
BY InitInv, NextInv, PTL DEF Spec

(* Whatever packets arrive on however many sockets, and whichever workers  *)
(* handle them in whatever order: an announced peer reaches the hash queue *)
(* only from an address that was sent a response before.                   *)
THEOREM AnnouncesAlwaysVouched == Spec => []AnnouncesVouched
<1>1. Inv => AnnouncesVouched
  BY DEF Inv
<1>. QED
  BY <1>1, Invariance, PTL

-------------------------------------------------------------------------------
(* The response limiter of a worker, a component of its own.               *)

CONSTANTS
    Sources, Lengths, PacketRate, ByteRate, MinByteBurst, SourceRate, Second, SourceTtl, MaxTime

VARIABLES now, limiter, permit, granted

L == INSTANCE ResponseLimiter

(* The rates and the lengths are unsigned.                                 *)
Unsigned ==
    PacketRate \in Nat /\ ByteRate \in Nat /\ MinByteBurst \in Nat /\ Lengths \subseteq Nat

Bucket == [rate : Nat, capacity : Nat, tokens : Nat, last_refill : Nat]

BucketOK(b, t) == b \in Bucket /\ b.tokens <= b.capacity /\ b.last_refill <= t

-------------------------------------------------------------------------------
(* A bucket.                                                               *)

(* The smaller and the larger of two numbers.                              *)
LEMMA MinMaxOfTwo ==
    ASSUME NEW a \in Int, NEW b \in Int
    PROVE  /\ L!Min({a, b}) = IF a <= b THEN a ELSE b
           /\ L!Max({a, b}) = IF a >= b THEN a ELSE b
BY DEF L!Min, L!Max

(* Refilling a bucket keeps it in order, and once is enough.               *)
LEMMA RefillOK ==
    ASSUME NEW t \in Nat, NEW b, BucketOK(b, t)
    PROVE  LET r == L!Refill(b, t)
           IN  /\ BucketOK(r, t)
               /\ r.rate = b.rate /\ r.capacity = b.capacity /\ r.last_refill = t
               /\ L!Refill(r, t) = r
<1>1. CASE t > b.last_refill
  <2>. DEFINE more == (t - b.last_refill) * b.rate
              level == L!Min({b.tokens + more, b.capacity})
              r == [b EXCEPT !.tokens = level, !.last_refill = t]
  <2>1. b.rate \in Nat /\ t - b.last_refill \in Nat /\ b.tokens \in Nat /\ b.capacity \in Nat
    BY <1>1 DEF BucketOK, Bucket
  <2>2. more \in Nat
    BY <2>1
  <2>. HIDE DEF more
  <2>3. level \in Nat /\ level <= b.capacity
    BY <2>1, <2>2, MinMaxOfTwo
  <2>4. L!Refill(b, t) = r
    BY <1>1 DEF L!Refill, more
  <2>. HIDE DEF level
  <2>5. /\ r \in Bucket /\ r.tokens = level /\ r.rate = b.rate /\ r.capacity = b.capacity
        /\ r.last_refill = t
    BY <2>3, Zenon DEF BucketOK, Bucket
  <2>. HIDE DEF r
  <2>6. L!Refill(r, t) = r
    BY <2>5 DEF L!Refill
  <2>. QED
    BY <2>3, <2>4, <2>5, <2>6 DEF BucketOK
<1>2. CASE ~(t > b.last_refill)
  <2>1. b.last_refill = t /\ L!Refill(b, t) = b
    BY <1>2 DEF BucketOK, Bucket, L!Refill
  <2>. QED
    BY <2>1
<1>. QED
  BY <1>1, <1>2

(* What is taken of a bucket that has it can be given back: the bucket is  *)
(* then as if it had only been refilled.                                   *)
LEMMA TakeOK ==
    ASSUME NEW t \in Nat, NEW b, BucketOK(b, t), NEW n \in Nat, n # 0
    PROVE  /\ BucketOK(L!Take(b, n, t), t)
           /\ L!Available(b, n, t) = n => L!Refund(L!Take(b, n, t), n) = L!Refill(b, t)
           /\ L!Available(b, n, t) \in Nat
           /\ L!Available(b, n, t) = 0 => L!Take(b, n, t) \in {b, L!Refill(b, t)}
<1>. DEFINE r == L!Refill(b, t)
<1>1. BucketOK(r, t) /\ r.capacity = b.capacity
  BY RefillOK
<1>2. CASE L!Closed(b)
  BY <1>2 DEF L!Take, L!Available
<1>3. CASE ~L!Closed(b)
  <2>. DEFINE a == L!Available(b, n, t)
              k == [r EXCEPT !.tokens = @ - a]
  <2>1. L!Take(b, n, t) = k /\ a = L!Min({r.tokens, n})
    BY <1>3 DEF L!Take, L!Available
  <2>. HIDE DEF r, a
  <2>2. r.tokens \in Nat /\ r.capacity \in Nat /\ r.tokens <= r.capacity
    BY <1>1 DEF BucketOK, Bucket
  <2>3. a \in Nat /\ a <= r.tokens
    BY <2>1, <2>2, MinMaxOfTwo
  <2>4. k \in Bucket /\ k.tokens = r.tokens - a /\ k.capacity = r.capacity
    BY <1>1, <2>2, <2>3 DEF BucketOK, Bucket
  <2>5. BucketOK(k, t)
    BY <1>1, <2>2, <2>3, <2>4 DEF BucketOK, Bucket
  <2>6. a = n => L!Refund(k, n) = r
    <3>. SUFFICES ASSUME a = n PROVE L!Refund(k, n) = r
      OBVIOUS
    <3>1. L!Min({k.tokens + n, k.capacity}) = r.tokens
      BY <2>2, <2>3, <2>4, MinMaxOfTwo
    <3>2. [k EXCEPT !.tokens = r.tokens] = r
      BY <1>1, ZenonT(60) DEF BucketOK, Bucket
    <3>. HIDE DEF k
    <3>. QED
      BY <3>1, <3>2 DEF L!Refund
  <2>7. a = 0 => k = r
    BY <1>1, <2>2 DEF BucketOK, Bucket
  <2>. HIDE DEF k
  <2>. QED
    BY <2>1, <2>3, <2>5, <2>6, <2>7 DEF r, a
<1>. QED
  BY <1>2, <1>3

(* One token is taken of a bucket that has one; given back, or not there,  *)
(* it leaves the bucket refilled or as it was.                             *)
LEMMA OneOK ==
    ASSUME NEW t \in Nat, NEW b, BucketOK(b, t)
    PROVE  /\ BucketOK(L!TakeOne(b, t), t)
           /\ L!HasToken(b, t) => L!Refund(L!TakeOne(b, t), 1) = L!Refill(b, t)
           /\ ~L!HasToken(b, t) => L!TakeOne(b, t) \in {b, L!Refill(b, t)}
<1>1. L!Available(b, 1, t) \in {0, 1}
  <2>1. L!Refill(b, t).tokens \in Nat
    BY RefillOK DEF BucketOK, Bucket
  <2>. QED
    BY <2>1, MinMaxOfTwo DEF L!Available
<1>. QED
  BY <1>1, TakeOK DEF L!TakeOne, L!HasToken

(* The same for an exact number of tokens, which may be none.              *)
LEMMA ExactlyOK ==
    ASSUME NEW t \in Nat, NEW b, BucketOK(b, t), NEW n \in Nat
    PROVE  /\ BucketOK(L!TakeExactly(b, n, t), t)
           /\ L!HasExactly(b, n, t) => L!Refund(L!TakeExactly(b, n, t), n) \in {b, L!Refill(b, t)}
           /\ ~L!HasExactly(b, n, t) => L!TakeExactly(b, n, t) \in {b, L!Refill(b, t)}
<1>1. CASE n = 0
  <2>1. L!HasExactly(b, n, t) /\ L!TakeExactly(b, n, t) = b
    BY <1>1 DEF L!HasExactly, L!TakeExactly, L!Take
  <2>2. b.tokens \in Nat /\ b.capacity \in Nat /\ b.tokens <= b.capacity
    BY DEF BucketOK, Bucket
  <2>3. L!Min({b.tokens + 0, b.capacity}) = b.tokens
    BY <2>2, MinMaxOfTwo
  <2>4. [b EXCEPT !.tokens = b.tokens] = b
    BY DEF BucketOK, Bucket
  <2>5. L!Refund(b, 0) = b
    BY <2>3, <2>4 DEF L!Refund
  <2>. QED
    BY <1>1, <2>1, <2>5
<1>2. CASE n # 0 /\ L!HasExactly(b, n, t)
  BY <1>2, TakeOK DEF L!HasExactly, L!TakeExactly
<1>3. CASE n # 0 /\ ~L!HasExactly(b, n, t)
  BY <1>3, RefillOK DEF L!TakeExactly
<1>. QED
  BY <1>1, <1>2, <1>3

(* Refilled or as it was, a bucket has the same level.                     *)
LEMMA SameLevel ==
    ASSUME NEW t \in Nat, NEW b, BucketOK(b, t), NEW c \in {b, L!Refill(b, t)}
    PROVE  BucketOK(c, t) /\ L!Refill(c, t) = L!Refill(b, t)
BY RefillOK

-------------------------------------------------------------------------------
(* The limiter.                                                            *)

Fields == L!Buckets \cup {"sources", "source_expiry"}

LimiterOK(l, t) == DOMAIN l = Fields /\ \A b \in L!Buckets : BucketOK(l[b], t)

(* k has the buckets of l, refilled or as they were.                       *)
Untouched(k, l, t) ==
    DOMAIN k = Fields /\ \A b \in L!Buckets : k[b] \in {l[b], L!Refill(l[b], t)}

GrantedOK ==
    /\ DOMAIN granted = {"regular", "priority", "to"}
    /\ \A class \in {"regular", "priority"} :
        DOMAIN granted[class] = {"packets", "bytes"} /\ granted[class].packets \in Nat

(* The inductive invariant.                                                *)
LimiterInv == now \in Nat /\ LimiterOK(limiter, now) /\ GrantedOK

(* A new bucket is in order.                                               *)
LEMMA FullOK ==
    ASSUME NEW rate \in Nat, NEW least \in Nat
    PROVE  BucketOK(L!Full(rate, least), 0)
<1>. DEFINE fifth == L!CeilDiv(rate, 5)
            burst == L!Max({fifth, least})
<1>1. fifth \in Nat
  BY DEF L!CeilDiv
<1>. HIDE DEF fifth
<1>2. burst = IF fifth >= least THEN fifth ELSE least
  BY <1>1, MinMaxOfTwo
<1>3. burst \in Nat
  BY <1>1, <1>2
<1>. HIDE DEF burst
<1>4. L!Max({burst, 1}) = IF burst >= 1 THEN burst ELSE 1
  BY <1>3, MinMaxOfTwo
<1>5. L!Max({burst, 1}) \in Nat
  BY <1>3, <1>4
<1>. USE DEF fifth, burst
<1>. QED
  BY <1>5 DEF L!Full, L!NewBucket, BucketOK, Bucket

(* The reserve is no more than the whole.                                  *)
LEMMA ReserveOK ==
    ASSUME NEW total \in Nat
    PROVE  L!ReserveQuota(total) \in Nat /\ total - L!ReserveQuota(total) \in Nat
<1>1. L!CeilDiv(total, 10) \in Nat
  BY DEF L!CeilDiv
<1>. QED
  BY <1>1, MinMaxOfTwo DEF L!ReserveQuota

(* A new limiter is in order.                                              *)
LEMMA NewLimiterInv == Unsigned /\ L!Init => LimiterInv
<1>. SUFFICES ASSUME Unsigned, L!Init PROVE LimiterInv
  OBVIOUS
<1>1. /\ BucketOK(L!Full(PacketRate - L!ReserveQuota(PacketRate), 1), 0)
      /\ BucketOK(L!Full(ByteRate - L!ReserveQuota(ByteRate), MinByteBurst), 0)
      /\ BucketOK(L!Full(L!ReserveQuota(PacketRate), 1), 0)
      /\ BucketOK(L!Full(L!ReserveQuota(ByteRate), MinByteBurst), 0)
  BY ReserveOK, FullOK, Zenon DEF Unsigned
<1>2. LimiterOK(L!NewLimiter, 0)
  BY <1>1 DEF LimiterOK, L!NewLimiter, Fields, L!Buckets
<1>3. GrantedOK
  BY DEF L!Init, GrantedOK
<1>. QED
  BY <1>2, <1>3 DEF L!Init, LimiterInv

(* What happens to the sources leaves the buckets alone.                   *)
LEMMA SourcesApart ==
    ASSUME NEW l, DOMAIN l = Fields, NEW addr
    PROVE  \A k \in {L!ExpireSources(l), L!TakeSourceSlot(l, addr)} :
            DOMAIN k = Fields /\ \A b \in L!Buckets : k[b] = l[b]
<1>1. PICK s, e : L!ExpireSources(l) = [l EXCEPT !.sources = s, !.source_expiry = e]
  BY Zenon DEF L!ExpireSources
<1>2. DOMAIN L!ExpireSources(l) = Fields /\ \A b \in L!Buckets : L!ExpireSources(l)[b] = l[b]
  BY <1>1 DEF Fields, L!Buckets
<1>3. PICK sources, expiry :
        L!TakeSourceSlot(l, addr) = [l EXCEPT !.sources = sources, !.source_expiry = expiry]
  BY Zenon DEF L!TakeSourceSlot
<1>4. /\ DOMAIN L!TakeSourceSlot(l, addr) = Fields
      /\ \A b \in L!Buckets : L!TakeSourceSlot(l, addr)[b] = l[b]
  BY <1>3 DEF Fields, L!Buckets
<1>. QED
  BY <1>2, <1>4

(* The pairs of buckets are set apart from each other.                     *)
LEMMA PairsApart ==
    ASSUME NEW l, DOMAIN l = Fields, NEW pair
    PROVE  /\ DOMAIN L!Regular(l, pair) = Fields
           /\ L!Regular(l, pair).regular_packets = pair[1]
           /\ L!Regular(l, pair).regular_bytes = pair[2]
           /\ L!Regular(l, pair).priority_packets = l.priority_packets
           /\ L!Regular(l, pair).priority_bytes = l.priority_bytes
           /\ DOMAIN L!Priority(l, pair) = Fields
           /\ L!Priority(l, pair).priority_packets = pair[1]
           /\ L!Priority(l, pair).priority_bytes = pair[2]
           /\ L!Priority(l, pair).regular_packets = l.regular_packets
           /\ L!Priority(l, pair).regular_bytes = l.regular_bytes
BY DEF L!Regular, L!Priority, Fields, L!Buckets

(* The four buckets, one by one.                                           *)
LEMMA EachBucket ==
    ASSUME NEW k, NEW l, NEW t
    PROVE  /\ (\A b \in L!Buckets : BucketOK(k[b], t)) <=>
                /\ BucketOK(k.regular_packets, t) /\ BucketOK(k.regular_bytes, t)
                /\ BucketOK(k.priority_packets, t) /\ BucketOK(k.priority_bytes, t)
           /\ Untouched(k, l, t) <=>
                /\ DOMAIN k = Fields
                /\ k.regular_packets \in {l.regular_packets, L!Refill(l.regular_packets, t)}
                /\ k.regular_bytes \in {l.regular_bytes, L!Refill(l.regular_bytes, t)}
                /\ k.priority_packets \in {l.priority_packets, L!Refill(l.priority_packets, t)}
                /\ k.priority_bytes \in {l.priority_bytes, L!Refill(l.priority_bytes, t)}
BY DEF L!Buckets, Untouched

(* A pair of buckets that is spent stays in order.                         *)
LEMMA SpentOK ==
    ASSUME NEW p, NEW q, now \in Nat, BucketOK(p, now), BucketOK(q, now), NEW len \in Nat
    PROVE  BucketOK(L!Spent(p, q, len)[1], now) /\ BucketOK(L!Spent(p, q, len)[2], now)
BY OneOK, ExactlyOK DEF L!Spent

(* One that is refused, or refunded, is as it was or refilled.             *)
LEMMA RefusedOK ==
    ASSUME NEW p, NEW q, now \in Nat, BucketOK(p, now), BucketOK(q, now), NEW len \in Nat,
           ~L!HasBudget(p, q, len)
    PROVE  /\ L!Refused(p, q, len)[1] \in {p, L!Refill(p, now)}
           /\ L!Refused(p, q, len)[2] \in {q, L!Refill(q, now)}
BY OneOK, ExactlyOK DEF L!HasBudget, L!Refused

(* And so is one that is given its tokens back.                             *)
LEMMA RefundedOK ==
    ASSUME NEW p, NEW q, now \in Nat, BucketOK(p, now), BucketOK(q, now), NEW len \in Nat,
           L!HasBudget(p, q, len)
    PROVE  /\ L!Refunded(p, q, len)[1] \in {p, L!Refill(p, now)}
           /\ L!Refunded(p, q, len)[2] \in {q, L!Refill(q, now)}
BY OneOK, ExactlyOK DEF L!HasBudget, L!Refunded

(* A grant counts.                                                         *)
LEMMA GrantOK ==
    ASSUME GrantedOK, NEW class \in {"regular", "priority"}, NEW addr, NEW len,
           L!Grant(class, addr, len)
    PROVE  GrantedOK' /\ granted' # granted
<1>1. PICK bytes, to : granted' = [granted EXCEPT ![class].packets = @ + 1, ![class].bytes = bytes,
                                               !.to = to]
  BY DEF L!Grant, GrantedOK
<1>2. /\ DOMAIN granted' = {"regular", "priority", "to"}
      /\ granted'[class].packets = granted[class].packets + 1
      /\ DOMAIN granted'[class] = {"packets", "bytes"}
      /\ \A other \in {"regular", "priority"} \ {class} : granted'[other] = granted[other]
  BY <1>1 DEF GrantedOK
<1>3. granted[class].packets \in Nat
  BY DEF GrantedOK
<1>4. granted' # granted
  BY <1>2, <1>3
<1>. QED
  BY <1>2, <1>3, <1>4 DEF GrantedOK

(* A call of acquire keeps the buckets in order, and one that grants       *)
(* nothing leaves them as they were, or refilled.                          *)
LEMMA AcquireOK ==
    ASSUME Unsigned, LimiterInv, NEW addr, NEW len \in Lengths, NEW is_priority,
           L!Acquire(addr, len, is_priority)
    PROVE  /\ LimiterInv'
           /\ now' = now
           /\ granted' = granted => Untouched(limiter', limiter, now)
<1>. DEFINE l == L!ExpireSources(limiter)
            looked == L!Regular(l, L!Refused(l.regular_packets, l.regular_bytes, len))
            good(k) == LimiterOK(k, now)
            same(k) == Untouched(k, limiter, now)
<1>1. now \in Nat /\ now' = now /\ len \in Nat
  BY DEF LimiterInv, Unsigned, L!Acquire
<1>2. DOMAIN l = Fields /\ \A b \in L!Buckets : l[b] = limiter[b] /\ BucketOK(l[b], now)
  BY SourcesApart DEF LimiterInv, LimiterOK
<1>3. ASSUME NEW k, same(k)
      PROVE  good(k)
  BY <1>1, <1>2, <1>3, SameLevel DEF Untouched, LimiterOK
<1>. HIDE DEF l
<1>4. ASSUME NEW k, DOMAIN k = Fields, \A b \in L!Buckets : BucketOK(k[b], now)
      PROVE  good(L!TakeSourceSlot(k, addr))
  BY <1>4, SourcesApart DEF LimiterOK
<1>5. /\ BucketOK(l.regular_packets, now) /\ BucketOK(l.regular_bytes, now)
      /\ BucketOK(l.priority_packets, now) /\ BucketOK(l.priority_bytes, now)
  BY <1>2 DEF L!Buckets
<1>6. /\ l.regular_packets = limiter.regular_packets /\ l.regular_bytes = limiter.regular_bytes
      /\ l.priority_packets = limiter.priority_packets /\ l.priority_bytes = limiter.priority_bytes
  BY <1>2 DEF L!Buckets
<1>. HIDE DEF looked
<1>7. ASSUME NEW pair, pair[1] \in {l.regular_packets, L!Refill(l.regular_packets, now)},
             pair[2] \in {l.regular_bytes, L!Refill(l.regular_bytes, now)}
      PROVE  /\ same(L!Regular(l, pair))
             /\ L!Regular(l, pair).priority_packets = l.priority_packets
             /\ L!Regular(l, pair).priority_bytes = l.priority_bytes
  <2>1. DOMAIN l = Fields
    BY <1>2
  <2>. DEFINE k == L!Regular(l, pair)
  <2>2. /\ DOMAIN k = Fields /\ k.regular_packets = pair[1] /\ k.regular_bytes = pair[2]
        /\ k.priority_packets = l.priority_packets /\ k.priority_bytes = l.priority_bytes
    BY <2>1 DEF L!Regular, Fields, L!Buckets
  <2>. HIDE DEF k
  <2>3. Untouched(k, limiter, now)
    BY <1>6, <1>7, <2>2, EachBucket
  <2>. QED
    BY <2>2, <2>3 DEF k
<1>8. ASSUME NEW j, same(j), j.priority_packets = l.priority_packets,
             j.priority_bytes = l.priority_bytes,
             NEW pair, pair[1] \in {l.priority_packets, L!Refill(l.priority_packets, now)},
             pair[2] \in {l.priority_bytes, L!Refill(l.priority_bytes, now)}
      PROVE  same(L!Priority(j, pair))
  <2>1. DOMAIN j = Fields
    BY <1>8 DEF Untouched
  <2>. DEFINE k == L!Priority(j, pair)
  <2>2. /\ DOMAIN k = Fields /\ k.priority_packets = pair[1] /\ k.priority_bytes = pair[2]
        /\ k.regular_packets = j.regular_packets /\ k.regular_bytes = j.regular_bytes
    BY <2>1, PairsApart, ZenonT(60)
  <2>. HIDE DEF k
  <2>3. Untouched(k, limiter, now)
    BY <1>6, <1>8, <2>2, EachBucket
  <2>. QED
    BY <2>3 DEF k
<1>9. ~L!HasBudget(l.regular_packets, l.regular_bytes, len) =>
        /\ same(looked)
        /\ looked.priority_packets = l.priority_packets
        /\ looked.priority_bytes = l.priority_bytes
  BY <1>1, <1>5, <1>7, RefusedOK DEF looked
<1>10. CASE UNCHANGED granted /\ same(limiter')
  BY <1>1, <1>3, <1>10 DEF LimiterInv, GrantedOK
<1>11. CASE good(limiter') /\ \E class \in {"regular", "priority"} : L!Grant(class, addr, len)
  BY <1>1, <1>11, GrantOK DEF LimiterInv
<1>. HIDE DEF same, good
<1>12. CASE L!AcquireRegular(addr, len)
  <2>. DEFINE p == l.regular_packets
              q == l.regular_bytes
  <2>1. L!HasBudget(p, q, len)
    BY <1>12 DEF L!AcquireRegular, l
  <2>2. \/ /\ limiter' = L!TakeSourceSlot(L!Regular(l, L!Spent(p, q, len)), addr)
           /\ L!Grant("regular", addr, len)
        \/ limiter' = L!Regular(l, L!Refunded(p, q, len)) /\ UNCHANGED granted
    BY <1>12 DEF L!AcquireRegular, l
  <2>3. BucketOK(L!Spent(p, q, len)[1], now) /\ BucketOK(L!Spent(p, q, len)[2], now)
    BY <1>1, <1>5, SpentOK, Zenon
  <2>4. /\ DOMAIN L!Regular(l, L!Spent(p, q, len)) = Fields
        /\ \A x \in L!Buckets : BucketOK(L!Regular(l, L!Spent(p, q, len))[x], now)
    BY <1>2, <1>5, <2>3, PairsApart, EachBucket, ZenonT(60)
  <2>5. good(L!TakeSourceSlot(L!Regular(l, L!Spent(p, q, len)), addr))
    BY <1>4, <2>4
  <2>6. /\ L!Refunded(p, q, len)[1] \in {p, L!Refill(p, now)}
        /\ L!Refunded(p, q, len)[2] \in {q, L!Refill(q, now)}
    BY <1>1, <1>5, <2>1, RefundedOK
  <2>7. same(L!Regular(l, L!Refunded(p, q, len)))
    BY <1>7, <2>6
  <2>. QED
    BY <1>10, <1>11, <2>2, <2>5, <2>7
<1>13. CASE L!AcquirePriority(addr, len)
  <2>. DEFINE p == l.priority_packets
              q == l.priority_bytes
  <2>1. ~L!HasBudget(l.regular_packets, l.regular_bytes, len) /\ L!HasBudget(p, q, len)
    BY <1>13 DEF L!AcquirePriority, l
  <2>2. \/ /\ limiter' = L!TakeSourceSlot(L!Priority(looked, L!Spent(p, q, len)), addr)
           /\ L!Grant("priority", addr, len)
        \/ limiter' = L!Priority(looked, L!Refunded(p, q, len)) /\ UNCHANGED granted
    BY <1>13 DEF L!AcquirePriority, l, looked
  <2>3. BucketOK(L!Spent(p, q, len)[1], now) /\ BucketOK(L!Spent(p, q, len)[2], now)
    BY <1>1, <1>5, SpentOK, Zenon
  <2>4. DOMAIN looked = Fields /\ \A x \in L!Buckets : BucketOK(looked[x], now)
    BY <1>3, <1>9, <2>1 DEF same, good, Untouched, LimiterOK
  <2>5. /\ DOMAIN L!Priority(looked, L!Spent(p, q, len)) = Fields
        /\ \A x \in L!Buckets : BucketOK(L!Priority(looked, L!Spent(p, q, len))[x], now)
    <3>. DEFINE k == L!Priority(looked, L!Spent(p, q, len))
    <3>1. /\ DOMAIN k = Fields
          /\ k.priority_packets = L!Spent(p, q, len)[1] /\ k.priority_bytes = L!Spent(p, q, len)[2]
          /\ k.regular_packets = looked.regular_packets
          /\ k.regular_bytes = looked.regular_bytes
      <4>1. DOMAIN looked = Fields
        BY <2>4
      <4>. QED
        BY <4>1 DEF L!Priority, Fields, L!Buckets
    <3>2. BucketOK(looked.regular_packets, now) /\ BucketOK(looked.regular_bytes, now)
      BY <2>4, EachBucket
    <3>. HIDE DEF k
    <3>3. DOMAIN k = Fields /\ \A x \in L!Buckets : BucketOK(k[x], now)
      BY <2>3, <3>1, <3>2, EachBucket
    <3>. QED
      BY <3>3 DEF k
  <2>6. good(L!TakeSourceSlot(L!Priority(looked, L!Spent(p, q, len)), addr))
    BY <1>4, <2>5
  <2>7. /\ L!Refunded(p, q, len)[1] \in {p, L!Refill(p, now)}
        /\ L!Refunded(p, q, len)[2] \in {q, L!Refill(q, now)}
    BY <1>1, <1>5, <2>1, RefundedOK
  <2>8. same(looked) /\ looked.priority_packets = p /\ looked.priority_bytes = q
    BY <1>9, <2>1
  <2>9. same(L!Priority(looked, L!Refunded(p, q, len)))
    BY <1>8, <2>7, <2>8
  <2>. QED
    BY <1>10, <1>11, <2>2, <2>6, <2>9
<1>14. CASE L!Reject(len, is_priority)
  <2>. DEFINE p == l.priority_packets
              q == l.priority_bytes
  <2>1. /\ ~L!HasBudget(l.regular_packets, l.regular_bytes, len)
        /\ is_priority => ~L!HasBudget(p, q, len)
        /\ limiter' = IF is_priority THEN L!Priority(looked, L!Refused(p, q, len)) ELSE looked
        /\ UNCHANGED granted
    BY <1>14 DEF L!Reject, l, looked
  <2>2. CASE is_priority
    <3>1. /\ L!Refused(p, q, len)[1] \in {p, L!Refill(p, now)}
          /\ L!Refused(p, q, len)[2] \in {q, L!Refill(q, now)}
      BY <1>1, <1>5, <2>1, <2>2, RefusedOK
    <3>2. same(looked) /\ looked.priority_packets = p /\ looked.priority_bytes = q
      BY <1>9, <2>1
    <3>3. same(L!Priority(looked, L!Refused(p, q, len)))
      BY <1>8, <3>1, <3>2
    <3>. QED
      BY <1>10, <2>1, <2>2, <3>3
  <2>3. CASE ~is_priority
    BY <1>9, <1>10, <2>1, <2>3
  <2>. QED
    BY <2>2, <2>3
<1>. QED
  BY <1>12, <1>13, <1>14 DEF L!Acquire

(* A tick of the clock makes no bucket newer than the time.                *)
LEMMA TickOK == LimiterInv /\ L!Tick => LimiterInv' /\ limiter' = limiter
<1>. SUFFICES ASSUME LimiterInv, L!Tick PROVE LimiterInv' /\ limiter' = limiter
  OBVIOUS
<1>1. now \in Nat /\ now' = now + 1 /\ UNCHANGED <<limiter, granted>>
  BY DEF LimiterInv, L!Tick
<1>2. \A b \in L!Buckets : BucketOK(limiter[b], now')
  BY <1>1 DEF LimiterInv, LimiterOK, BucketOK, Bucket
<1>. QED
  BY <1>1, <1>2 DEF LimiterInv, LimiterOK, GrantedOK

(* The inductive invariant holds in every reachable state.                 *)
THEOREM LimiterInvariance ==
    ASSUME Unsigned
    PROVE  L!Spec => []LimiterInv
<1>1. L!Init => LimiterInv
  BY NewLimiterInv
<1>2. LimiterInv /\ [L!Next]_L!vars => LimiterInv'
  <2>. SUFFICES ASSUME LimiterInv, [L!Next]_L!vars PROVE LimiterInv'
    OBVIOUS
  <2>1. CASE UNCHANGED L!vars
    BY <2>1 DEF L!vars, LimiterInv, GrantedOK
  <2>. QED
    BY <2>1, TickOK, AcquireOK DEF L!Next
<1>. QED
  BY <1>1, <1>2, PTL DEF L!Spec

(* For all rates and lengths: a response that is not granted leaves every  *)
(* bucket as full as it was, whichever of the checks it passed before it   *)
(* was turned down.                                                        *)
THEOREM RejectionAlwaysFree ==
    ASSUME Unsigned
    PROVE  L!Spec => L!RejectionIsFree
<1>1. ASSUME LimiterInv, [L!Next]_L!vars, granted' = granted, NEW b \in L!Buckets
      PROVE  L!Level(limiter', b, now') = L!Level(limiter, b, now')
  <2>1. CASE L!Tick \/ UNCHANGED L!vars
    BY <1>1, <2>1, TickOK DEF L!vars, L!Level
  <2>2. ASSUME NEW addr \in Sources, NEW len \in Lengths, NEW is_priority \in BOOLEAN,
               L!Acquire(addr, len, is_priority)
        PROVE  L!Level(limiter', b, now') = L!Level(limiter, b, now')
    <3>1. now' = now /\ limiter'[b] \in {limiter[b], L!Refill(limiter[b], now)}
      BY <1>1, <2>2, AcquireOK DEF Untouched
    <3>2. now \in Nat /\ BucketOK(limiter[b], now)
      BY <1>1 DEF LimiterInv, LimiterOK
    <3>3. L!Refill(limiter'[b], now) = L!Refill(limiter[b], now)
      BY <3>1, <3>2, SameLevel
    <3>. QED
      BY <3>1, <3>3 DEF L!Level
  <2>. QED
    BY <1>1, <2>1, <2>2 DEF L!Next
<1>2. LimiterInv /\ [L!Next]_L!vars => [granted' = granted =>
        \A b \in L!Buckets : L!Level(limiter', b, now') = L!Level(limiter, b, now')]_L!vars
  BY <1>1
<1>. QED
  BY <1>2, LimiterInvariance, PTL DEF L!Spec, L!RejectionIsFree

===============================================================================
