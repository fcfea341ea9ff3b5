------------------------------ MODULE RecentWindow ------------------------------
(***************************************************************************)
(* What the memory of recent probes promises the crawl actor: an endpoint  *)
(* that was probed counts as recent for Ttl, from the latest probe on.     *)
(* Entries that have expired may linger.  A live one is given up only for  *)
(* a new endpoint, when the memory is full and nothing in it has expired.  *)
(***************************************************************************)
EXTENDS Integers, FiniteSets, Functions

CONSTANTS
    Addrs,     \* the endpoints
    Ttl        \* recent_probe_ttl

VARIABLES
    now,       \* the monotonic clock
    capacity,  \* how many endpoints are remembered
    deadline   \* endpoint -> until when it is recent

vars == <<now, capacity, deadline>>

Init ==
    /\ now = 0
    /\ capacity > 0
    /\ deadline = [a \in {} |-> 0]

Expired == {a \in DOMAIN deadline : deadline[a] <= now}

Probe(addr) ==
    LET gone == DOMAIN deadline \ DOMAIN deadline'
        victims == gone \ Expired
    IN  /\ deadline' = [a \in (DOMAIN deadline \ gone) \cup {addr} |->
                            IF a = addr THEN now + Ttl ELSE deadline[a]]
        /\ Cardinality(DOMAIN deadline') <= capacity
        /\ victims # {} => /\ Cardinality(victims) = 1
                           /\ Expired \subseteq gone
                           /\ addr \notin DOMAIN deadline
                           /\ Cardinality(DOMAIN deadline') = capacity
    /\ UNCHANGED <<now, capacity>>

Forget(addr) ==
    /\ deadline' = Restrict(deadline, DOMAIN deadline \ {addr})
    /\ UNCHANGED <<now, capacity>>

Expire ==
    /\ DOMAIN deadline \ DOMAIN deadline' \subseteq Expired
    /\ deadline' = Restrict(deadline, DOMAIN deadline')
    /\ UNCHANGED <<now, capacity>>

Tick ==
    /\ now' = now + 1
    /\ UNCHANGED <<capacity, deadline>>

Next ==
    \/ \E addr \in Addrs : Probe(addr) \/ Forget(addr)
    \/ Expire
    \/ Tick

Spec == Init /\ [][Next]_vars
===============================================================================
