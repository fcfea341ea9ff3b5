-------------------------- MODULE MCSchedulerLiveness --------------------------
(* The metadata scheduler under the fairness its runtime gives it, on a    *)
(* clock that never runs out: input stops at LastInput, a job takes less   *)
(* than one unit of the clock, and MaxTime lies past the last deadline any *)
(* entry or record can carry (LastInput + Ttl + RetryHistoryTtl + 1).      *)
EXTENDS MetadataScheduler, TLC

CONSTANT LastInput  \* bound: when the last hash arrives

ASSUME HorizonAssumption == MaxTime > LastInput + Ttl + RetryHistoryTtl + 1

Arrive == now <= LastInput /\ \E event \in Events : RecvHash(event)

TickIdle == DOMAIN tasks = {} /\ Tick

LiveNext ==
    \/ Arrive
    \/ InputClosed
    \/ \E t \in TaskIds : JoinJob(t)
    \/ DispatchTick
    \/ Maintain
    \/ LoopStep
    \/ Shutdown
    \/ \E t \in TaskIds : JobAdmit(t)
    \/ \E t \in TaskIds : JobEnds(t)
    \/ TickIdle

(* A turn of the loop, by what it does to pc, and the joining of a job, by *)
(* what it does to tasks (steps of LoopStep, of an arm, and of JoinJob).   *)
TurnEnds ==
    \/ pc = "dispatch" /\ pc' = "sync"
    \/ pc = "sync" /\ pc' \in {"select", "stopped"}

ArmTaken == pc = "select" /\ pc' \in {"dispatch", "stopped"}

Joined(t) ==
    /\ pc = "select"
    /\ t \in DOMAIN tasks
    /\ tasks[t].state = "done"
    /\ tasks' = [u \in DOMAIN tasks \ {t} |-> tasks[u]]

(* The loop does not stop between two awaits and wakes up at every         *)
(* dispatch tick; select! takes a ready arm at random, so an arm that is   *)
(* ready time and again is taken; the gate and the fetch of a job end;     *)
(* time passes.                                                            *)
LiveSpec ==
    /\ Init
    /\ [][LiveNext]_vars
    /\ WF_pc(TurnEnds)
    /\ WF_pc(ArmTaken)
    /\ \A t \in TaskIds : SF_tasks(Joined(t)) /\ WF_tasks(JobEnds(t))
    /\ WF_now(TickIdle)

(* "drains completed jobs before returning when input closes": once the    *)
(* ingress channel is closed the loop ends, after finitely many retries.   *)
Drains == input_closed ~> pc = "stopped"

(* No hash is stuck in the queue: it is dispatched, expires or is evicted, *)
(* and no job keeps its slot.                                              *)
HashesMoveOn ==
    \A h \in Hashes :
        /\ h \in Queued(q) /\ pc # "stopped" ~> h \notin Queued(q) \/ pc = "stopped"
        /\ h \in Running ~> h \notin Running

(* The completion callback is "invoked exactly once when an admitted       *)
(* Metadata job terminates": the admission gate having let a hash pass,    *)
(* its completion is reported, even if the job panics, unless the          *)
(* scheduler is shut down first.                                           *)
Admitted(h) == \E t \in DOMAIN tasks : tasks[t].hash = h /\ tasks[t].state = "fetch"

CompletionsReported == \A h \in Hashes : Admitted(h) ~> h \in reported \/ pc = "stopped"

(* The same without the exception, as the documentation has it: a job      *)
(* aborted by Shutdown ends without a completion, so this fails.           *)
AlwaysReported == \A h \in Hashes : Admitted(h) ~> h \in reported
===============================================================================
