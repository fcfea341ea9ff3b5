----------------------------- MODULE PeerRaceProofs -----------------------------
(***************************************************************************)
(* AttemptBudget and GivesUpOnlyWhenDry hold of the race for any number of *)
(* peers, attempts and candidates.                                         *)
(***************************************************************************)
EXTENDS PeerRace, FiniteSetTheorems, TLAPS

Types ==
    /\ pc \in {"top", "select", "done"}
    /\ accepting \in BOOLEAN
    /\ lookup \in [open : BOOLEAN, submitted : BOOLEAN, elapsed : BOOLEAN]
    /\ live \in [buffer : Seq(Peers), closed : BOOLEAN]
    /\ found \in [buffer : Seq(Peers), closed : BOOLEAN, sender : {"race", "actor", "dropped"}]
    /\ clock \in {"start", "delay", "deadline"}
    /\ scheduled \subseteq Peers
    /\ streamed \subseteq Peers
    /\ winner \in Peers \cup {NoPeer}

(* Candidates that wait are distinct, and neither run nor were contacted.  *)
Waiting ==
    /\ pending \in Seq(Peers)
    /\ \A i, j \in 1..Len(pending) : pending[i] = pending[j] => i = j
    /\ \A i \in 1..Len(pending) : pending[i] \in seen \ (DOMAIN tasks \cup tried)

(* The fetches that run; those that contacted their peer are past the      *)
(* check of the cache.                                                     *)
Fetching ==
    /\ DOMAIN tasks \subseteq seen
    /\ \A p \in DOMAIN tasks :
        /\ tasks[p] \in Ends \cup {"spawned", "contacted"}
        /\ p \in tried <=> tasks[p] \notin {"spawned", "SkippedCached"}

(* Every peer contacted and every fetch that runs has a reservation.       *)
Reservations ==
    /\ reserved \in 0..MaxPeers
    /\ seen \subseteq Peers
    /\ tried \subseteq seen
    /\ attempts = Cardinality(tried)
    /\ Cardinality(tried \cup DOMAIN tasks) <= reserved

(* The inductive invariant.                                                *)
Inv == Types /\ Waiting /\ Fetching /\ Reservations

(* The inductive invariant gives the property.                             *)
LEMMA InvImplies == Inv => AttemptBudget
<1>. SUFFICES ASSUME Inv PROVE AttemptBudget
  OBVIOUS
<1>. DEFINE all == tried \cup DOMAIN tasks
<1>1. all \subseteq Peers
  BY DEF Inv, Fetching, Reservations
<1>2. IsFiniteSet(all) /\ Cardinality(all) \in Nat
  BY <1>1, RaceAssumption, FS_Subset, FS_CardinalityType
<1>3. Cardinality(tried) <= Cardinality(all) /\ Cardinality(DOMAIN tasks) <= Cardinality(all)
  BY <1>2, FS_Subset
<1>4. /\ IsFiniteSet(tried) /\ Cardinality(tried) \in Nat
      /\ IsFiniteSet(DOMAIN tasks) /\ Cardinality(DOMAIN tasks) \in Nat
  BY <1>2, FS_Subset, FS_CardinalityType
<1>5. Cardinality(all) <= reserved /\ reserved \in 0..MaxPeers /\ attempts = Cardinality(tried)
  BY DEF Inv, Reservations
<1>6. attempts <= MaxPeers /\ Cardinality(DOMAIN tasks) <= MaxPeers /\ attempts \in Nat
  BY <1>2, <1>3, <1>4, <1>5, RaceAssumption
<1>7. TypeOK
  BY <1>6 DEF Inv, Types, Waiting, Fetching, Reservations, TypeOK
<1>. QED
  BY <1>5, <1>6, <1>7 DEF AttemptBudget

(* At first distinct candidates wait and nothing runs.                     *)
LEMMA InitInv == Init => Inv
<1>. SUFFICES ASSUME Init PROVE Inv
  OBVIOUS
<1>1. Types
  BY RaceAssumption DEF Init, Types, Range
<1>2. PICK n \in 0..MaxInitial : pending \in [1..n -> Peers]
  BY DEF Init
<1>3. n \in Nat
  BY RaceAssumption
<1>4. pending \in Seq(Peers) /\ Len(pending) = n /\ DOMAIN pending = 1..n
  BY <1>2, <1>3
<1>5. IsInjective(pending) /\ seen = Range(pending) /\ tried = {}
  BY DEF Init
<1>6. DOMAIN tasks = {}
  BY DEF Init
<1>7. Waiting
  BY <1>4, <1>5, <1>6 DEF Waiting, IsInjective, Range
<1>8. Fetching
  BY <1>6 DEF Fetching
<1>9. seen \subseteq Peers
  BY <1>2, <1>4, <1>5 DEF Range
<1>10. tried \cup DOMAIN tasks = {} /\ reserved = 0 /\ attempts = 0
  BY <1>5, <1>6 DEF Init
<1>11. Reservations
  BY <1>5, <1>9, <1>10, FS_EmptySet, RaceAssumption DEF Reservations
<1>. QED
  BY <1>1, <1>7, <1>8, <1>11 DEF Inv

(* A step that moves neither candidates nor fetches keeps their part of    *)
(* the invariant.                                                          *)
LEMMA StillInv ==
    ASSUME Inv, Types', UNCHANGED <<pending, seen, tasks, reserved, tried, attempts>>
    PROVE  Inv'
BY DEF Inv, Waiting, Fetching, Reservations

(* What the first n of distinct candidates are, and what is left.          *)
LEMMA FirstOfPending ==
    ASSUME Inv, NEW n \in Nat, n <= Len(pending)
    PROVE  LET started == {pending[i] : i \in 1..n}
               rest == SubSeq(pending, n + 1, Len(pending))
           IN  /\ IsFiniteSet(started)
               /\ Cardinality(started) <= n
               /\ started \subseteq seen \ (DOMAIN tasks \cup tried)
               /\ rest \in Seq(Peers)
               /\ \A i, j \in 1..Len(rest) : rest[i] = rest[j] => i = j
               /\ \A i \in 1..Len(rest) : rest[i] \in seen \ (DOMAIN tasks \cup tried \cup started)
<1>. DEFINE started == {pending[i] : i \in 1..n}
            rest == SubSeq(pending, n + 1, Len(pending))
            f == [i \in 1..n |-> pending[i]]
<1>1. f \in Surjection(1..n, started)
  BY DEF Surjection
<1>2. IsFiniteSet(1..n) /\ Cardinality(1..n) = n
  BY FS_Interval
<1>3. IsFiniteSet(started) /\ Cardinality(started) <= n
  <2>. HIDE DEF f, started
  <2>. QED
    BY <1>1, <1>2, FS_Surjection
<1>4. pending \in Seq(Peers) /\ Len(pending) \in Nat
  BY DEF Inv, Waiting
<1>5. \A i \in 1..n : i \in 1..Len(pending)
  BY <1>4
<1>6. started \subseteq seen \ (DOMAIN tasks \cup tried)
  BY <1>5 DEF Inv, Waiting
<1>7. /\ rest \in Seq(Peers)
      /\ Len(rest) = Len(pending) - n
      /\ \A i \in 1..Len(rest) : n + i \in 1..Len(pending) /\ rest[i] = pending[n + i]
  BY <1>4
<1>8. \A i, j \in 1..Len(rest) : rest[i] = rest[j] => i = j
  <2>. SUFFICES ASSUME NEW i \in 1..Len(rest), NEW j \in 1..Len(rest), rest[i] = rest[j]
                PROVE  i = j
    OBVIOUS
  <2>. HIDE DEF rest
  <2>1. n + i = n + j
    BY <1>7 DEF Inv, Waiting
  <2>2. i \in Nat /\ j \in Nat
    BY <1>4, <1>7
  <2>. QED
    BY <2>1, <2>2
<1>9. ASSUME NEW i \in 1..Len(rest)
      PROVE  rest[i] \in seen \ (DOMAIN tasks \cup tried \cup started)
  <2>. HIDE DEF rest
  <2>1. rest[i] \in seen \ (DOMAIN tasks \cup tried)
    BY <1>7 DEF Inv, Waiting
  <2>2. \A k \in 1..n : n + i # k
    BY <1>4, <1>7
  <2>3. rest[i] \notin started
    BY <1>5, <1>7, <2>2 DEF Inv, Waiting
  <2>. QED
    BY <2>1, <2>3
<1>. QED
  BY <1>3, <1>6, <1>7, <1>8, <1>9

(* Finite sets of peers, and their cardinalities.                          *)
LEMMA Counts ==
    ASSUME Inv
    PROVE  /\ IsFiniteSet(tried) /\ IsFiniteSet(tried \cup DOMAIN tasks)
           /\ Cardinality(tried) \in Nat /\ Cardinality(tried \cup DOMAIN tasks) \in Nat
           /\ reserved \in Nat /\ reserved <= MaxPeers
           /\ Cardinality(tried \cup DOMAIN tasks) <= reserved
<1>1. tried \subseteq Peers /\ tried \cup DOMAIN tasks \subseteq Peers
  BY DEF Inv, Fetching, Reservations
<1>2. IsFiniteSet(tried) /\ IsFiniteSet(tried \cup DOMAIN tasks)
  BY <1>1, RaceAssumption, FS_Subset
<1>. QED
  BY <1>2, FS_CardinalityType, RaceAssumption DEF Inv, Reservations

(* The top of the loop: each peer started takes a reservation of its own.  *)
LEMMA LoopTopInv ==
    ASSUME Inv, LoopTop
    PROVE  Inv'
<1>. DEFINE n == Min({Len(pending), Room})
            started == {pending[i] : i \in 1..n}
<1>1. n \in Nat /\ n <= Len(pending) /\ n <= MaxPeers - reserved
  <2>1. Len(pending) \in Nat /\ Room \in Nat
    BY Counts, RaceAssumption DEF Inv, Waiting, Room
  <2>2. \E x \in {Len(pending), Room} : \A y \in {Len(pending), Room} : x <= y
    BY <2>1
  <2>3. n \in {Len(pending), Room} /\ \A y \in {Len(pending), Room} : n <= y
    BY <2>2 DEF Min
  <2>. QED
    BY <2>1, <2>3 DEF Room
<1>. HIDE DEF n
<1>2. /\ tasks' = [p \in DOMAIN tasks \cup started |->
                    IF p \in started THEN "spawned" ELSE tasks[p]]
      /\ reserved' = reserved + n
      /\ pending' = SubSeq(pending, n + 1, Len(pending))
      /\ UNCHANGED <<seen, tried, attempts>>
  BY DEF LoopTop, Start, environment, n
<1>3. DOMAIN tasks' = DOMAIN tasks \cup started
  BY <1>2
<1>4. /\ IsFiniteSet(started)
      /\ Cardinality(started) <= n
      /\ started \subseteq seen \ (DOMAIN tasks \cup tried)
  BY <1>1, FirstOfPending
<1>5. /\ pending' \in Seq(Peers)
      /\ \A i, j \in 1..Len(pending') : pending'[i] = pending'[j] => i = j
      /\ \A i \in 1..Len(pending') :
            pending'[i] \in seen \ (DOMAIN tasks \cup tried \cup started)
  BY <1>1, <1>2, FirstOfPending, Zenon
<1>. HIDE DEF started
<1>6. Waiting'
  BY <1>2, <1>3, <1>5 DEF Waiting
<1>7. Fetching'
  BY <1>2, <1>3, <1>4 DEF Inv, Fetching
<1>8. Reservations'
  <2>. DEFINE all == tried \cup DOMAIN tasks
  <2>1. tried' \cup DOMAIN tasks' = all \cup started
    BY <1>2, <1>3
  <2>2. IsFiniteSet(all) /\ Cardinality(all) \in Nat /\ Cardinality(started) \in Nat
    BY <1>4, Counts, FS_CardinalityType
  <2>3. all \cap started = {}
    BY <1>4
  <2>. HIDE DEF all
  <2>4. Cardinality(all \cup started) = Cardinality(all) + Cardinality(started)
    <3>1. Cardinality(all \cup started)
            = Cardinality(all) + Cardinality(started) - Cardinality(all \cap started)
      BY <1>4, <2>2, FS_Union
    <3>2. Cardinality(all \cap started) = 0
      BY <2>3, FS_EmptySet
    <3>. QED
      BY <2>2, <3>1, <3>2
  <2>5. Cardinality(tried' \cup DOMAIN tasks') <= reserved'
    <3>1. Cardinality(all) <= reserved /\ reserved \in Nat
      BY Counts DEF all
    <3>2. Cardinality(all \cup started) <= reserved + n
      BY <1>1, <1>4, <2>2, <2>4, <3>1
    <3>. QED
      BY <1>2, <2>1, <3>2, Zenon
  <2>6. reserved' \in 0..MaxPeers
    BY <1>1, <1>2, Counts, RaceAssumption
  <2>. QED
    BY <1>2, <2>5, <2>6 DEF Inv, Reservations
<1>9. Types'
  BY Zenon DEF Inv, Types, LoopTop, environment
<1>. QED
  BY <1>6, <1>7, <1>8, <1>9 DEF Inv

(* queue_race_candidate: only a peer never seen is added.                  *)
LEMMA QueueCandidateInv ==
    ASSUME Inv, NEW peer \in Peers, QueueCandidate(peer), Types',
           UNCHANGED <<tasks, reserved, tried, attempts>>
    PROVE  Inv'
<1>1. CASE ~Considered(peer)
  BY <1>1, StillInv DEF QueueCandidate
<1>2. CASE Considered(peer)
  <2>1. peer \notin seen /\ seen' = seen \cup {peer} /\ pending' = Append(pending, peer)
    BY <1>2 DEF Considered, QueueCandidate
  <2>2. pending \in Seq(Peers) /\ Len(pending) \in Nat
    BY DEF Inv, Waiting
  <2>3. /\ pending' \in Seq(Peers) /\ Len(pending') = Len(pending) + 1
        /\ \A i \in 1..Len(pending') :
            \/ i \in 1..Len(pending) /\ pending'[i] = pending[i]
            \/ i = Len(pending') /\ pending'[i] = peer
    BY <2>1, <2>2
  <2>4. peer \notin DOMAIN tasks \cup tried
    BY <2>1 DEF Inv, Fetching, Reservations
  <2>5. \A i \in 1..Len(pending) : pending[i] # peer
    BY <2>1 DEF Inv, Waiting
  <2>6. Waiting'
    <3>1. \A i, j \in 1..Len(pending') : pending'[i] = pending'[j] => i = j
      BY <2>2, <2>3, <2>5 DEF Inv, Waiting
    <3>2. \A i \in 1..Len(pending') : pending'[i] \in seen' \ (DOMAIN tasks \cup tried)
      BY <2>1, <2>3, <2>4 DEF Inv, Waiting
    <3>. QED
      BY <2>3, <3>1, <3>2 DEF Waiting
  <2>. QED
    BY <2>1, <2>6 DEF Inv, Fetching, Reservations
<1>. QED
  BY <1>1, <1>2

(* A fetch is joined: a skipped one never contacted its peer, so that its  *)
(* reservation may be given back; of a failed one the contact remains.     *)
LEMMA JoinFetchInv ==
    ASSUME Inv, NEW peer \in Peers, JoinFetch(peer)
    PROVE  Inv'
<1>1. UNCHANGED <<pending, seen, tried, attempts>> /\ peer \in DOMAIN tasks
  BY DEF JoinFetch, environment
<1>2. Types'
  BY Zenon DEF Inv, Types, JoinFetch, JoinLoser, JoinWinner, environment
<1>3. CASE JoinLoser(peer)
  <2>1. /\ DOMAIN tasks' = DOMAIN tasks \ {peer}
        /\ \A p \in DOMAIN tasks' : tasks'[p] = tasks[p]
    BY <1>3 DEF JoinLoser, Restrict
  <2>2. Waiting' /\ Fetching'
    BY <1>1, <2>1 DEF Inv, Waiting, Fetching
  <2>3. CASE tasks[peer] = "SkippedCached"
    <3>1. peer \notin tried /\ reserved' = reserved - 1
      BY <1>1, <1>3, <2>3 DEF Inv, Fetching, JoinLoser
    <3>2. tried' \cup DOMAIN tasks' = (tried \cup DOMAIN tasks) \ {peer}
      BY <1>1, <2>1, <3>1
    <3>3. Cardinality(tried' \cup DOMAIN tasks') = Cardinality(tried \cup DOMAIN tasks) - 1
      BY <1>1, <3>2, Counts, FS_RemoveElement, ZenonT(60)
    <3>4. Cardinality(tried' \cup DOMAIN tasks') \in Nat
      BY <3>2, Counts, FS_RemoveElement, FS_CardinalityType, Zenon
    <3>5. reserved' \in 0..MaxPeers /\ Cardinality(tried' \cup DOMAIN tasks') <= reserved'
      BY <3>1, <3>3, <3>4, Counts, RaceAssumption
    <3>. QED
      BY <1>1, <1>2, <2>2, <3>5 DEF Inv, Reservations
  <2>4. CASE tasks[peer] # "SkippedCached"
    <3>1. peer \in tried /\ reserved' = reserved
      BY <1>1, <1>3, <2>4 DEF Inv, Fetching, JoinLoser, Ends
    <3>2. tried' \cup DOMAIN tasks' = tried \cup DOMAIN tasks
      BY <1>1, <2>1, <3>1
    <3>. QED
      BY <1>1, <1>2, <2>2, <3>1, <3>2 DEF Inv, Reservations
  <2>. QED
    BY <2>3, <2>4
<1>4. CASE JoinWinner(peer)
  <2>1. DOMAIN tasks' = {} /\ reserved' = reserved
    BY <1>4 DEF JoinWinner
  <2>2. Waiting' /\ Fetching'
    BY <1>1, <2>1 DEF Inv, Waiting, Fetching
  <2>3. tried' \cup DOMAIN tasks' = tried
    BY <1>1, <2>1
  <2>4. Cardinality(tried) <= Cardinality(tried \cup DOMAIN tasks)
    BY Counts, FS_Subset
  <2>5. Cardinality(tried) <= reserved
    BY <2>4, Counts
  <2>6. Reservations'
    BY <1>1, <2>1, <2>3, <2>5 DEF Inv, Reservations
  <2>. QED
    BY <1>2, <2>2, <2>6 DEF Inv
<1>. QED
  BY <1>3, <1>4 DEF JoinFetch

(* A fetch contacts its peer for the first and only time.                  *)
LEMMA FetchInv ==
    ASSUME Inv, NEW peer \in Peers, Fetch(peer)
    PROVE  Inv'
<1>1. Types'
  BY DEF Inv, Types, Fetch, FetchSkips, FetchAttempts, FetchEnds, environment, unchangedRace
<1>2. UNCHANGED <<pending, seen, reserved>> /\ peer \in DOMAIN tasks /\ DOMAIN tasks' = DOMAIN tasks
  BY DEF Fetch, FetchSkips, FetchAttempts, FetchEnds, unchangedRace
<1>3. CASE FetchSkips(peer) \/ \E end \in Ends \ {"SkippedCached"} : FetchEnds(peer, end)
  <2>1. UNCHANGED <<tried, attempts>>
    BY <1>3 DEF FetchSkips, FetchEnds, environment
  <2>2. Waiting' /\ Reservations'
    BY <1>2, <2>1 DEF Inv, Waiting, Reservations
  <2>3. Fetching'
    BY <1>2, <1>3, <2>1 DEF Inv, Fetching, FetchSkips, FetchEnds, Ends
  <2>. QED
    BY <1>1, <2>2, <2>3 DEF Inv
<1>4. CASE FetchAttempts(peer)
  <2>1. /\ tried' = tried \cup {peer}
        /\ attempts' = attempts + 1
        /\ tasks' = [tasks EXCEPT ![peer] = "contacted"]
        /\ peer \notin tried
    BY <1>2, <1>4 DEF FetchAttempts, Inv, Fetching
  <2>2. Waiting'
    BY <1>2, <2>1 DEF Inv, Waiting
  <2>3. Fetching'
    BY <1>2, <2>1 DEF Inv, Fetching
  <2>4. tried' \cup DOMAIN tasks' = tried \cup DOMAIN tasks
    BY <1>2, <2>1
  <2>5. Cardinality(tried') = Cardinality(tried) + 1
    BY <2>1, Counts, FS_AddElement, Zenon
  <2>6. Reservations'
    BY <1>2, <2>1, <2>4, <2>5 DEF Inv, Fetching, Reservations
  <2>. QED
    BY <1>1, <2>2, <2>3, <2>6 DEF Inv
<1>. QED
  BY <1>3, <1>4 DEF Fetch

(* The arms that hear of a candidate.                                      *)
LEMMA RecvInv ==
    ASSUME Inv, RecvLive \/ RecvFound
    PROVE  Inv'
<1>1. CASE RecvLive
  <2>1. live.buffer \in Seq(Peers) /\ live.buffer # <<>>
    BY <1>1 DEF Inv, Types, RecvLive
  <2>2. Head(live.buffer) \in Peers /\ Tail(live.buffer) \in Seq(Peers)
    BY <2>1
  <2>3. Types'
    BY <1>1, <2>2, Zenon DEF Inv, Types, RecvLive, environment
  <2>. QED
    BY <1>1, <2>2, <2>3, QueueCandidateInv DEF RecvLive, environment
<1>2. CASE RecvFound
  <2>1. found.buffer \in Seq(Peers) /\ found.buffer # <<>>
    BY <1>2 DEF Inv, Types, RecvFound
  <2>2. Head(found.buffer) \in Peers /\ Tail(found.buffer) \in Seq(Peers)
    BY <2>1
  <2>3. Types'
    BY <1>2, <2>2, Zenon DEF Inv, Types, RecvFound, environment
  <2>. QED
    BY <1>2, <2>2, <2>3, QueueCandidateInv DEF RecvFound, environment
<1>. QED
  BY <1>1, <1>2

(* The steps that touch only channels, clocks and flags.                   *)
LEMMA QuietInv ==
    ASSUME Inv,
           \/ FoundEnds \/ SubmitLookup \/ DeadlineElapsed \/ IdleGrace
           \/ LookupFinishes \/ Elapse
           \/ \E peer \in Peers : OfferLive(peer) \/ LookupFinds(peer)
    PROVE  Inv'
<1>1. UNCHANGED <<pending, seen, tasks, reserved, tried, attempts>>
  BY DEF FoundEnds, SubmitLookup, DeadlineElapsed, IdleGrace, LookupFinishes, Elapse, OfferLive,
         LookupFinds, environment, unchangedRace
<1>2. CASE FoundEnds \/ SubmitLookup \/ DeadlineElapsed \/ IdleGrace
  <2>1. Types'
    BY <1>2, ZenonT(60) DEF Inv, Types, FoundEnds, SubmitLookup, DeadlineElapsed, IdleGrace, environment
  <2>. QED
    BY <1>1, <2>1, StillInv
<1>3. CASE LookupFinishes \/ Elapse
  <2>1. Types'
    BY <1>3 DEF Inv, Types, LookupFinishes, Elapse, environment, unchangedRace
  <2>. QED
    BY <1>1, <2>1, StillInv
<1>4. ASSUME NEW peer \in Peers, OfferLive(peer) \/ LookupFinds(peer)
      PROVE  Inv'
  <2>1. Append(live.buffer, peer) \in Seq(Peers) /\ Append(found.buffer, peer) \in Seq(Peers)
    BY DEF Inv, Types
  <2>2. Types'
    BY <1>4, <2>1, ZenonT(60) DEF Inv, Types, OfferLive, LookupFinds, unchangedRace
  <2>. QED
    BY <1>1, <2>2, StillInv
<1>. QED
  BY <1>2, <1>3, <1>4

(* Every step preserves the invariant.                                     *)
LEMMA NextInv == Inv /\ [Next]_vars => Inv'
<1>. SUFFICES ASSUME Inv, [Next]_vars PROVE Inv'
  OBVIOUS
<1>1. CASE UNCHANGED vars
  BY <1>1 DEF vars, Inv, Types, Waiting, Fetching, Reservations
<1>. QED
  BY <1>1, LoopTopInv, JoinFetchInv, RecvInv, QuietInv, FetchInv DEF Next, Race

(* The inductive invariant holds in every reachable state of the race.     *)
THEOREM Invariance == Spec => []Inv
BY InitInv, NextInv, PTL DEF Spec

(* However many peers are offered, found, skipped and refunded: a race     *)
(* never contacts more than MaxPeers of them, nor one twice.               *)
THEOREM AttemptBudgetAlways == Spec => []AttemptBudget
BY Invariance, InvImplies, PTL

-------------------------------------------------------------------------------
(* A race that no longer listens to the lookup, with room for candidates,  *)
(* has drained its channel, and nothing can come any more.                 *)
Drained ==
    ~lookup.open /\ Cardinality(seen) < MaxCandidates =>
        /\ found.buffer = <<>>
        /\ found.closed \/ found.sender # "actor"

(* A race that gave up has no fetch left, and no attempts or no candidates.*)
GaveUp ==
    pc = "done" /\ winner = NoPeer =>
        /\ DOMAIN tasks = {}
        /\ reserved < MaxPeers => pending = <<>> /\ ~lookup.open

(* The candidates seen only grow in number.                                *)
LEMMA SeenGrows ==
    ASSUME Inv, Inv', seen \subseteq seen', Cardinality(seen') < MaxCandidates
    PROVE  Cardinality(seen) < MaxCandidates
<1>1. IsFiniteSet(seen) /\ IsFiniteSet(seen')
  BY RaceAssumption, FS_Subset DEF Inv, Reservations
<1>2. Cardinality(seen) \in Nat /\ Cardinality(seen') \in Nat /\ Cardinality(seen) <= Cardinality(seen')
  BY <1>1, FS_Subset, FS_CardinalityType
<1>. QED
  BY <1>2, RaceAssumption

(* The steps of the race keep the lookup's channel drained once it is.     *)
LEMMA DrainedNext ==
    ASSUME Inv, Inv', Drained, [Next]_vars
    PROVE  Drained'
<1>. SUFFICES ASSUME ~lookup'.open, Cardinality(seen') < MaxCandidates
              PROVE  found'.buffer = <<>> /\ (found'.closed \/ found'.sender # "actor")
  BY DEF Drained
<1>1. Types /\ Types'
  BY DEF Inv
<1>2. CASE LoopTop
  <2>1. seen' = seen /\ ~(Cardinality(seen) >= MaxCandidates)
    <3>1. seen' = seen
      BY <1>2 DEF LoopTop
    <3>2. Cardinality(seen) \in Nat
      BY RaceAssumption, FS_Subset, FS_CardinalityType DEF Inv, Reservations
    <3>. QED
      BY <3>1, <3>2, RaceAssumption
  <2>2. ~lookup.open
    BY <1>1, <1>2, <2>1 DEF LoopTop, Types
  <2>3. found.buffer = <<>> /\ (found.closed \/ found.sender # "actor")
    BY <2>1, <2>2 DEF Drained
  <2>4. found'.buffer = found.buffer /\ found'.sender = found.sender /\ (found.closed => found'.closed)
    BY <1>1, <1>2 DEF LoopTop, Types
  <2>. QED
    BY <2>3, <2>4
<1>3. CASE \E peer \in Peers : JoinFetch(peer)
  <2>1. /\ lookup' = lookup /\ seen' = seen /\ found'.buffer = found.buffer
        /\ found'.sender = found.sender /\ (found.closed => found'.closed)
    BY <1>1, <1>3 DEF JoinFetch, JoinLoser, JoinWinner, Types
  <2>. QED
    BY <2>1 DEF Drained
<1>4. CASE RecvLive
  <2>1. lookup' = lookup /\ found' = found /\ seen \subseteq seen'
    BY <1>4 DEF RecvLive, QueueCandidate
  <2>. QED
    BY <2>1, SeenGrows DEF Drained
<1>5. CASE RecvFound \/ SubmitLookup \/ DeadlineElapsed
  BY <1>1, <1>5 DEF RecvFound, SubmitLookup, DeadlineElapsed, Types
<1>6. CASE FoundEnds
  BY <1>1, <1>6 DEF FoundEnds, Types
<1>7. CASE IdleGrace \/ \E peer \in Peers : Fetch(peer) \/ OfferLive(peer)
  <2>1. UNCHANGED <<lookup, found, seen>>
    BY <1>7 DEF IdleGrace, Fetch, FetchSkips, FetchAttempts, FetchEnds, OfferLive, unchangedRace
  <2>. QED
    BY <2>1 DEF Drained
<1>8. CASE \E peer \in Peers : LookupFinds(peer)
  <2>1. UNCHANGED <<lookup, seen>> /\ found.sender = "actor" /\ (found.closed => found' = found)
    BY <1>8 DEF LookupFinds, unchangedRace
  <2>. QED
    BY <2>1 DEF Drained
<1>9. CASE LookupFinishes
  BY <1>1, <1>9 DEF LookupFinishes, unchangedRace, Drained, Types
<1>10. CASE Elapse \/ UNCHANGED vars
  BY <1>10 DEF Elapse, unchangedRace, vars, Drained
<1>. QED
  BY <1>2, <1>3, <1>4, <1>5, <1>6, <1>7, <1>8, <1>9, <1>10 DEF Next, Race

(* The race gives up in two places, and does nothing afterwards.           *)
LEMMA GaveUpNext ==
    ASSUME Inv, Inv', GaveUp, [Next]_vars
    PROVE  GaveUp'
<1>. SUFFICES ASSUME pc' = "done", winner' = NoPeer
              PROVE  /\ DOMAIN tasks' = {}
                     /\ reserved' < MaxPeers => pending' = <<>> /\ ~lookup'.open
  BY DEF GaveUp
<1>1. CASE LoopTop
  <2>1. DOMAIN tasks' = {} /\ (reserved' >= MaxPeers \/ (pending' = <<>> /\ ~lookup'.open))
    BY <1>1 DEF LoopTop
  <2>2. reserved' \in Nat
    BY RaceAssumption DEF Inv, Reservations
  <2>. QED
    BY <2>1, <2>2, RaceAssumption
<1>2. CASE \E peer \in Peers : JoinFetch(peer)
  BY <1>2, RaceAssumption DEF JoinFetch, JoinLoser, JoinWinner
<1>3. CASE IdleGrace
  BY <1>3 DEF IdleGrace
<1>4. CASE RecvLive \/ RecvFound \/ FoundEnds \/ SubmitLookup \/ DeadlineElapsed
  BY <1>4 DEF RecvLive, RecvFound, FoundEnds, SubmitLookup, DeadlineElapsed
<1>5. CASE \E peer \in Peers : Fetch(peer)
  <2>1. PICK peer \in Peers : Fetch(peer)
    BY <1>5
  <2>2. pc = "done" /\ winner = NoPeer /\ peer \in DOMAIN tasks
    BY <2>1 DEF Fetch, FetchSkips, FetchAttempts, FetchEnds, unchangedRace
  <2>. QED
    BY <2>2 DEF GaveUp
<1>6. CASE \/ \E peer \in Peers : OfferLive(peer) \/ LookupFinds(peer)
           \/ LookupFinishes \/ Elapse
  BY <1>6 DEF OfferLive, LookupFinds, LookupFinishes, Elapse, unchangedRace
<1>7. CASE UNCHANGED vars
  BY <1>7 DEF vars, GaveUp
<1>. QED
  BY <1>1, <1>2, <1>3, <1>4, <1>5, <1>6, <1>7 DEF Next, Race

(* A race ends without metadata only when no fetch runs, and either its    *)
(* attempts are spent or every candidate was taken in and fetched, those   *)
(* delivered by the lookup before its deadline included.                   *)
THEOREM GivesUpOnlyWhenDryAlways == Spec => []GivesUpOnlyWhenDry
<1>1. Init => Drained /\ GaveUp
  BY DEF Init, Drained, GaveUp
<1>2. Inv /\ Inv' /\ Drained /\ GaveUp /\ [Next]_vars => Drained' /\ GaveUp'
  BY DrainedNext, GaveUpNext
<1>3. Drained /\ GaveUp => GivesUpOnlyWhenDry
  BY DEF Drained, GaveUp, GivesUpOnlyWhenDry
<1>. QED
  BY <1>1, <1>2, <1>3, Invariance, PTL DEF Spec

===============================================================================
