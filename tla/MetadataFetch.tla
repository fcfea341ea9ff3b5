----------------------------- MODULE MetadataFetch -----------------------------
(***************************************************************************)
(* One peer's part of a metadata job: RbitFetcher (src/src/metadata.rs)    *)
(* looks the peer up in the failure cache, connects, speaks BEP 9 with it  *)
(* under one end-to-end deadline, validates what it got, and records how   *)
(* the peer failed.                                                        *)
(*                                                                         *)
(* A fetch belongs to a torrent and a peer, and there is at most one for   *)
(* such a pair: a torrent has one job at a time (OneOwner of               *)
(* MetadataScheduler), which tries a peer once (AttemptBudget of PeerRace).*)
(* Every fetch runs on its own thread of the runtime.  A call of the cache *)
(* reads the clock, then waits for the cache's mutex: at is the time it    *)
(* read, and another fetch may get the mutex first.                        *)
(*                                                                         *)
(* The peers in Honest serve the torrent as BEP 9 says, in any order and   *)
(* perhaps more than once, though their connection may fail; the others    *)
(* send anything.                                                          *)
(***************************************************************************)
EXTENDS FailureCache

CONSTANTS
    Hashes, Peers,
    Honest,         \* the <<hash, peer>> pairs that follow BEP 9
    Info,           \* the pieces of every torrent's info dictionary
    Lengths,        \* the lengths its files field lists, as signed integers
    MaxIndex,       \* bound on the index of a piece
    Bytes,          \* the contents a piece can have, with their lengths
    Sizes,          \* the values of metadata_size in a handshake, cast to u32
    Ids,            \* the ids of ut_metadata in it
    PieceLength,    \* METADATA_PIECE_SIZE
    SizeLimit,      \* the 10 MiB limit on metadata_size
    Word,           \* 2^64, the modulus of total_size
    TotalTimeout,   \* total_timeout, never 0
    Lag,            \* how long a thread may wait between the clock and the mutex
    MaxTime,        \* bound on the clock
    MaxStarts       \* bound on the fetches

ASSUME FetchAssumption == Lag \in Nat

VARIABLES
    now,
    cache,
    fetch,      \* the state of every fetch, see Idle
    starts,     \* how many were started
    failures    \* history: when a key's scope failed last, as ground truth

vars == <<now, cache, fetch, starts, failures>>

Fetches == Hashes \X Peers

(* The pieces a peer may send and the indexes it may put on them.          *)
Indexes == 0..MaxIndex

Content == DOMAIN Bytes

(* The values of MetadataTimeoutStage.                                     *)
Stages == {"TcpConnect", "BaseHandshake", "ExtensionHandshakeSend",
           "ExtensionHandshakeReceive", "PieceRequestSend", "PieceReceive", "Validation"}

NoPieces == [i \in {} |-> 0]

(* pc is the call in progress: a cache call, or a stage of the exchange.   *)
(* reason is the MetadataFetchFailure being recorded, with Timeout for the *)
(* deadline; its Other is Lost when the connection was, and Incomplete     *)
(* when a piece is missing.                                                *)
Idle == [pc |-> "idle", at |-> 0, deadline |-> 0, key |-> <<>>, size |-> 0, id |-> 0,
         pieces |-> NoPieces, total |-> 0, reason |-> "None"]

Init ==
    /\ now = 0
    /\ cache = EmptyCache
    /\ fetch = [x \in Fetches |-> Idle]
    /\ starts = 0
    /\ failures = [k \in {} |-> 0]

Tick ==
    /\ now < MaxTime
    /\ \A x \in Fetches :
        fetch[x].pc \notin Stages \cup {"idle"} => now - fetch[x].at < Lag
    /\ now' = now + 1
    /\ UNCHANGED <<cache, fetch, starts, failures>>

-------------------------------------------------------------------------------
(* Two lookups in the failure cache.                                       *)

(* The job starts a fetch: the first lookup is about to be made.           *)
Start(x) ==
    /\ fetch[x].pc = "idle"
    /\ now + TotalTimeout <= MaxTime
    /\ starts < MaxStarts
    /\ starts' = starts + 1
    /\ fetch' = [fetch EXCEPT ![x] = [Idle EXCEPT !.pc = "endpoint", !.at = now]]
    /\ UNCHANGED <<now, cache, failures>>

Scope(x) ==
    IF fetch[x].pc = "endpoint" THEN Endpoint(x[2]) ELSE Metadata(x[1], x[2])

Skip(x) ==
    /\ fetch[x].pc \in {"endpoint", "torrent"}
    /\ Cached(cache, Scope(x), fetch[x].at)
    /\ cache' = Get(cache, fetch[x].at)
    /\ fetch' = [fetch EXCEPT ![x] = Idle]
    /\ UNCHANGED <<now, starts, failures>>

PassEndpoint(x) ==
    /\ fetch[x].pc = "endpoint"
    /\ ~Cached(cache, Scope(x), fetch[x].at)
    /\ cache' = Get(cache, fetch[x].at)
    /\ fetch' = [fetch EXCEPT ![x].pc = "torrent", ![x].at = now]
    /\ UNCHANGED <<now, starts, failures>>

(* The attempt begins, and with it the deadline.                           *)
PassTorrent(x) ==
    /\ fetch[x].pc = "torrent"
    /\ ~Cached(cache, Scope(x), fetch[x].at)
    /\ cache' = Get(cache, fetch[x].at)
    /\ fetch' = [fetch EXCEPT ![x].pc = "TcpConnect", ![x].deadline = now + TotalTimeout]
    /\ UNCHANGED <<now, starts, failures>>

-------------------------------------------------------------------------------
(* How a fetch fails.                                                      *)

(* Mutant of FailureKey: a lost base handshake blames the endpoint.        *)
BlameEndpoint(x, reason) ==
    IF fetch[x].pc \in {"TcpConnect", "BaseHandshake"} /\ reason \in {"Connect", "Timeout"}
    THEN Endpoint(x[2]) ELSE Metadata(x[1], x[2])

(* record_connection_failure and record_timeout_failure: only a failure to *)
(* connect counts against the endpoint.                                    *)
FailureKey(x, reason) ==
    IF fetch[x].pc = "TcpConnect" /\ reason \in {"Connect", "Timeout"}
    THEN Endpoint(x[2]) ELSE Metadata(x[1], x[2])

(* A deadline that passes during validation is not the peer's failure.     *)
Recorded(x, reason) == ~(fetch[x].pc = "Validation" /\ reason = "Timeout")

(* What failed in fact: the endpoint did not accept a connection, or it    *)
(* did and did not serve this torrent.                                     *)
Failed(x, reason) ==
    IF reason = "Timeout" /\ fetch[x].pc = "Validation" THEN {}
    ELSE IF fetch[x].pc = "TcpConnect" THEN {Endpoint(x[2])} ELSE {Metadata(x[1], x[2])}

Fail(x, reason) ==
    /\ fetch' = [fetch EXCEPT ![x] =
                    IF Recorded(x, reason)
                    THEN [Idle EXCEPT !.pc = "record", !.at = now, !.reason = reason,
                                      !.key = FailureKey(x, reason)]
                    ELSE Idle]
    /\ failures' = [k \in DOMAIN failures \cup Failed(x, reason) |->
                        IF k \in Failed(x, reason) THEN now ELSE failures[k]]
    /\ UNCHANGED <<now, cache, starts>>

(* record_peer_failure gets the mutex.                                     *)
Record(x) ==
    /\ fetch[x].pc = "record"
    /\ cache' = Insert(cache, fetch[x].key, fetch[x].at)
    /\ fetch' = [fetch EXCEPT ![x] = Idle]
    /\ UNCHANGED <<now, starts, failures>>

(* The one deadline around fetch_with_peer.  It is polled after the        *)
(* exchange, which may therefore still end later.                          *)
TimeOut(x) ==
    /\ fetch[x].pc \in Stages
    /\ now >= fetch[x].deadline
    /\ Fail(x, "Timeout")

(* The job is over, or was aborted: the fetch is dropped where it waits.   *)
Abort(x) ==
    /\ fetch[x].pc \in Stages
    /\ fetch' = [fetch EXCEPT ![x] = Idle]
    /\ UNCHANGED <<now, cache, starts, failures>>

-------------------------------------------------------------------------------
(* The exchange with the peer, fetch_with_peer.                            *)

Advance(x, stage) ==
    /\ fetch' = [fetch EXCEPT ![x].pc = stage]
    /\ UNCHANGED <<now, cache, starts, failures>>

(* connect_peer: the TCP connection, then both base handshakes.            *)
Connect(x) ==
    /\ fetch[x].pc = "TcpConnect"
    /\ Advance(x, "BaseHandshake") \/ Fail(x, "Connect")

ShakeHands(x) ==
    /\ fetch[x].pc = "BaseHandshake"
    /\ \/ Advance(x, "ExtensionHandshakeSend")
       \/ Fail(x, "Connect")
       \/ x \notin Honest /\ Fail(x, "NoExtension")

SendHandshake(x) ==
    /\ fetch[x].pc = "ExtensionHandshakeSend"
    /\ Advance(x, "ExtensionHandshakeReceive") \/ Fail(x, "Send")

Receiving(x) == fetch[x].pc \in {"ExtensionHandshakeReceive", "PieceReceive"}

Requested(x) == fetch[x].pc = "PieceReceive"

Lose(x) ==
    /\ Receiving(x)
    /\ Fail(x, "Lost")

Absent == -1

PieceCount(size) == (size + PieceLength - 1) \div PieceLength

TrueSize(hash) == FoldFunction(LAMBDA c, sum : Bytes[c] + sum, 0, Info[hash])

(* An extension handshake; either field may be absent.  The first one that *)
(* completes both has the pieces requested.                                *)
ReceiveHandshake(x, size, id) ==
    LET known == [fetch[x] EXCEPT !.size = IF size = Absent THEN @ ELSE size,
                                  !.id = IF id = Absent THEN @ ELSE id]
        ready == known.size > 0 /\ known.id > 0 /\ ~Requested(x)
    IN  /\ Receiving(x)
        /\ x \in Honest => size = TrueSize(x[1]) /\ id = 1
        /\ IF ready /\ known.size > SizeLimit THEN Fail(x, "SizeLimit")
           ELSE /\ fetch' = [fetch EXCEPT ![x] =
                                IF ready THEN [known EXCEPT !.pc = "PieceRequestSend"] ELSE known]
                /\ UNCHANGED <<now, cache, starts, failures>>

(* All the requests are written.                                           *)
RequestPieces(x) ==
    /\ fetch[x].pc = "PieceRequestSend"
    /\ Advance(x, "PieceReceive") \/ Fail(x, "Send")

ReceiveReject(x, i) ==
    /\ Requested(x)
    /\ x \notin Honest
    /\ i < PieceCount(fetch[x].size)
    /\ Fail(x, "Reject")

(* Mutant of Received: a piece that replaces another counts once more.     *)
ReceivedTwice(x, i, content) == fetch[x].total + Bytes[content]

(* total_received after a piece, which may replace one.                    *)
Received(x, i, content) ==
    LET pieces == fetch[x].pieces
    IN  fetch[x].total + Bytes[content] - (IF i \in DOMAIN pieces THEN Bytes[pieces[i]] ELSE 0)

(* A piece of any index, requested or not, is kept.  Once enough bytes are *)
(* there, the pieces are put together.                                     *)
ReceivePiece(x, i, content) ==
    LET size == fetch[x].size
        pieces == [j \in DOMAIN fetch[x].pieces \cup {i} |->
                    IF j = i THEN content ELSE fetch[x].pieces[j]]
        enough == size > 0 /\ Received(x, i, content) >= size
    IN  /\ Receiving(x)
        /\ x \in Honest => /\ Requested(x)
                           /\ i + 1 \in DOMAIN Info[x[1]]
                           /\ content = Info[x[1]][i + 1]
        /\ IF enough /\ ~(0..PieceCount(size) - 1 \subseteq DOMAIN pieces)
           THEN Fail(x, "Incomplete")
           ELSE /\ fetch' = [fetch EXCEPT
                        ![x].pieces = pieces, ![x].total = Received(x, i, content),
                        ![x].pc = IF enough THEN "Validation" ELSE @]
                /\ UNCHANGED <<now, cache, starts, failures>>

FullData(x) ==
    [i \in 1..PieceCount(fetch[x].size) |-> fetch[x].pieces[i - 1]]

(* parse_metadata: the lengths of the files are cast to u64 and added; a   *)
(* torrent of no bytes is refused.                                         *)
ParseMetadata(hash) ==
    FoldFunction(LAMBDA length, sum : (sum + (length % Word)) % Word, 0, Lengths[hash]) > 0

(* The digest is computed on the blocking pool, then the info is parsed.   *)
Validate(x) ==
    /\ fetch[x].pc = "Validation"
    /\ CASE FullData(x) # Info[x[1]] -> Fail(x, "Sha1")
         [] FullData(x) = Info[x[1]] /\ ~ParseMetadata(x[1]) -> Fail(x, "Parse")
         [] OTHER -> /\ fetch' = [fetch EXCEPT ![x] = [Idle EXCEPT
                                            !.pc = "forget_endpoint", !.at = now]]
                     /\ UNCHANGED <<now, cache, starts, failures>>

(* A peer that delivered is taken out of the cache, in both scopes.        *)
ForgetEndpoint(x) ==
    /\ fetch[x].pc = "forget_endpoint"
    /\ cache' = Remove(cache, Endpoint(x[2]), fetch[x].at)
    /\ fetch' = [fetch EXCEPT ![x].pc = "forget_torrent", ![x].at = now]
    /\ UNCHANGED <<now, starts, failures>>

ForgetTorrent(x) ==
    /\ fetch[x].pc = "forget_torrent"
    /\ cache' = Remove(cache, Metadata(x[1], x[2]), fetch[x].at)
    /\ fetch' = [fetch EXCEPT ![x] = Idle]
    /\ UNCHANGED <<now, starts, failures>>

-------------------------------------------------------------------------------
CacheCall(x) ==
    Skip(x) \/ PassEndpoint(x) \/ PassTorrent(x) \/ Record(x) \/ ForgetEndpoint(x) \/ ForgetTorrent(x)

FromPeer(x) ==
    \/ Lose(x)
    \/ \E size \in Sizes \cup {Absent}, id \in Ids \cup {Absent} : ReceiveHandshake(x, size, id)
    \/ \E i \in Indexes : ReceiveReject(x, i)
    \/ \E i \in Indexes, content \in Content : ReceivePiece(x, i, content)

FetchStep(x) ==
    Start(x) \/ CacheCall(x) \/ TimeOut(x) \/ Abort(x) \/ Connect(x) \/ ShakeHands(x)
    \/ SendHandshake(x) \/ RequestPieces(x) \/ FromPeer(x) \/ Validate(x)

Next == Tick \/ \E x \in Fetches : FetchStep(x)

Spec == Init /\ [][Next]_vars

-------------------------------------------------------------------------------
(* Whatever fetches interleave between reading the clock and obtaining the *)
(* mutex, the cache keeps within its capacity and no entry loses the pair  *)
(* that has it expire (PeerFailureCache::insert, remove, expire).          *)
CacheSound == Sound(cache)

(* A peer is skipped only for a reason: less than the time to live ago,    *)
(* and the time a thread may wait for the mutex, its endpoint refused a    *)
(* connection, or it failed to serve this very torrent after accepting     *)
(* one.  A torrent it failed to serve costs the others nothing, and        *)
(* neither does a validation that came too late (record_timeout_failure,   *)
(* record_connection_failure, get).                                        *)
SkipsAreEarned ==
    [][\A x \in Fetches : Skip(x) =>
        /\ Scope(x) \in DOMAIN failures
        /\ fetch[x].at < failures[Scope(x)] + FailureTtl + Lag]_vars

(* A peer that follows BEP 9 and whose connection lasts is not turned      *)
(* down: its pieces may come in any order and more than once, and still    *)
(* are complete, match the digest and are accepted (fetch_with_peer).      *)
HonestPeerServes ==
    \A x \in Honest :
        fetch[x].reason \notin {"NoExtension", "SizeLimit", "Reject", "Incomplete", "Sha1", "Parse"}
===============================================================================
