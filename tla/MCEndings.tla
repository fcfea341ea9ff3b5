-------------------------------- MODULE MCEndings --------------------------------
(***************************************************************************)
(* What must come to an end, on small instances: the race of a metadata    *)
(* job (PeerRace), and a server that is shut down (DhtServer).  A          *)
(* behaviour exercises the one that part names, under its fairness, and    *)
(* leaves the other in its initial state.                                  *)
(***************************************************************************)
EXTENDS PeerRace

CONSTANTS Sockets, WorkerCount, QueueSize, InitialPool, MaxPool, Origins, Kinds, MaxPackets

VARIABLES
    part,
    handle, shutdown, serving, crawling, listener, worker, pool, packets, answered, announced

Server == INSTANCE DhtServer

serverVars == <<handle, shutdown, serving, crawling, listener, worker, pool, packets, answered,
                announced>>

partVars == <<part, vars, serverVars>>

EndingsInit ==
    /\ part \in {"race", "server"}
    /\ Init
    /\ Server!Init
    /\ part = "server" => scheduled = {} /\ lookup.open

EndingsNext ==
    \/ part = "race" /\ Next /\ UNCHANGED <<part, serverVars>>
    \/ part = "server" /\ Server!Next /\ UNCHANGED <<part, vars>>

(* The fairness of the race, where there is one, and of the server.        *)
RaceFairness ==
    /\ WF_vars(part = "race" /\ Race)
    /\ \A peer \in Peers : WF_vars(part = "race" /\ Fetch(peer))
    /\ WF_vars(part = "race" /\ Elapse)

ServerFairness ==
    /\ WF_serverVars(part = "server" /\ (Server!Start \/ Server!Return))
    /\ \A s \in Sockets :
        /\ WF_serverVars(part = "server" /\ Server!ListenerGoesOn(s))
        /\ SF_serverVars(part = "server" /\ Server!StopListening(s))
    /\ \A w \in Server!Workers :
        /\ WF_serverVars(part = "server" /\ Server!WorkerGoesOn(w))
        /\ SF_serverVars(part = "server" /\ Server!StopWorking(w))

EndingsSpec == EndingsInit /\ [][EndingsNext]_partVars /\ RaceFairness /\ ServerFairness

-------------------------------------------------------------------------------
(* Every race ends, even if the lookup actor stalls with the sender: "a    *)
(* stalled or cancelled actor must never hold a job indefinitely"          *)
(* (race_peer_fetches).                                                    *)
RaceEnds == part = "race" ~> pc = "done"

(* A server that is shut down, before, during or after its start, comes to *)
(* rest: start returns, and no listener or worker is left running on the   *)
(* socket, whatever arrives meanwhile and whichever workers are gone       *)
(* (shutdown, spawn_workers, spawn_udp_listener).                          *)
ShutdownStops == Server!ShutdownStops
===============================================================================
