-------------------------------- MODULE Bootstrap --------------------------------
(***************************************************************************)
(* When and where the crawler bootstraps (src/src/bootstrap.rs): the gate  *)
(* (struct BootstrapGate) is the instant of the last round, and the source *)
(* pool (struct BootstrapSourcePool) maps an address to its failures and   *)
(* to the instant until which it is left alone; an address it has not met  *)
(* is healthy.                                                             *)
(*                                                                         *)
(* Left out: host names, and last_attempt and last_success, which are      *)
(* never read.                                                             *)
(***************************************************************************)
EXTENDS Integers, Sequences, SequencesExt

CONSTANTS
    LowWatermark,       \* low_watermark
    MaxNodesPerRound,   \* bootstrap_max_nodes_per_round
    BootstrapInterval,  \* bootstrap_interval
    SourceBackoffBase,  \* bootstrap_backoff_base
    SourceBackoffMax    \* bootstrap_backoff_max

ASSUME BootstrapAssumption ==
    /\ LowWatermark \in Nat
    /\ MaxNodesPerRound \in Nat
    /\ BootstrapInterval \in Nat
    /\ SourceBackoffBase \in Nat \ {0}
    /\ SourceBackoffMax \in Nat \ {0}

Never == -1

ShouldBootstrap(last_bootstrap, pool_len, now) ==
    /\ MaxNodesPerRound > 0
    /\ pool_len < LowWatermark
    /\ last_bootstrap = Never \/ now - last_bootstrap >= BootstrapInterval

Healthy == [fail_count |-> 0, backoff_until |-> Never]

MarkSuccess(states, addr) == [states EXCEPT ![addr] = Healthy]

(* mark_timeout: the backoff doubles with every failure, up to its limit.  *)
MarkTimeout(states, addr, now) ==
    LET fails == states[addr].fail_count + 1
        backoff == Min({SourceBackoffBase * 2 ^ Min({fails - 1, 16}), SourceBackoffMax})
    IN  [states EXCEPT ![addr] = [fail_count |-> fails, backoff_until |-> now + backoff]]

(* select: the first sources that are not left alone; when there is none,  *)
(* the one whose turn comes first.                                         *)
SelectSources(states, candidates, now) ==
    LET until(addr) == states[addr].backoff_until
        distinct == FoldLeft(LAMBDA acc, a : IF Contains(acc, a) THEN acc ELSE Append(acc, a),
                             <<>>, candidates)
        open == SelectSeq(distinct, LAMBDA a : until(a) <= now)
        resting == SelectSeq(distinct, LAMBDA a : until(a) > now)
        first == SelectSeq(resting, LAMBDA a :
                    \A i \in 1..Len(resting) : until(a) <= until(resting[i]))
    IN  IF open # <<>> THEN SubSeq(open, 1, Min({Len(open), MaxNodesPerRound}))
        ELSE IF resting # <<>> THEN <<Head(first)>>
        ELSE <<>>
===============================================================================
