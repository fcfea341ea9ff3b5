------------------------------ MODULE MCMetadataJob ------------------------------
(***************************************************************************)
(* The two levels of a metadata job on small instances: the race over the  *)
(* candidate peers (PeerRace), and the fetches from peers that share the   *)
(* failure cache (MetadataFetch).  The race sees of a fetch only how it    *)
(* ends, so a behaviour exercises one of the two and leaves the other in   *)
(* its initial state.                                                      *)
(***************************************************************************)
EXTENDS MetadataFetch, TLC

CONSTANTS h1, h2, p1, RacePeers, MaxPeers, MaxCandidates, MaxInitial, NoPeer

VARIABLES level, pc, pending, seen, tasks, reserved, accepting, lookup, live, found, clock,
          scheduled, streamed, tried, attempts, winner

raceVars == <<pc, pending, seen, tasks, reserved, accepting, lookup, live, found, clock,
              scheduled, streamed, tried, attempts, winner>>

Race == INSTANCE PeerRace WITH Peers <- RacePeers

(* Two torrents of three bytes in two pieces.  The peer serves the second. *)
MCInfo == [h \in {h1, h2} |-> <<"two", "one">>]

MCBytes == [two |-> 2, one |-> 1]

MCHonest == {<<h2, p1>>}

(* The first torrent's lengths add up to 2^64 (Word).                      *)
MCLengths == (h1 :> <<7, 9>>) @@ (h2 :> <<3, -1>>)

RaceSymmetry == Permutations(RacePeers)

JobInit ==
    /\ level \in {"race", "fetch"}
    /\ Init
    /\ Race!Init
    /\ level = "fetch" => scheduled = {} /\ lookup.open

JobNext ==
    \/ level = "race" /\ Race!Next /\ UNCHANGED <<vars, level>>
    \/ level = "fetch" /\ Next /\ UNCHANGED <<raceVars, level>>

JobSpec == JobInit /\ [][JobNext]_<<vars, raceVars, level>>

(* "This bounds both simultaneous TCP connections and total actual         *)
(* attempts": whatever is skipped, refunded, joined or refilled, a job     *)
(* never contacts more than MaxPeers peers, and none of them twice,        *)
(* although the scheduler, the initial list and the lookup may each name   *)
(* it.                                                                     *)
AttemptBudget == Race!AttemptBudget

(* The race gives up only when it must: with attempts left, every          *)
(* candidate it took in was fetched to an end, and a lookup peer delivered *)
(* before the deadline was taken in ("Drain any already-delivered peers    *)
(* before treating the lookup as complete") unless there were enough.      *)
GivesUpOnlyWhenDry == Race!GivesUpOnlyWhenDry
===============================================================================
