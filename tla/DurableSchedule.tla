-------------------------- MODULE DurableSchedule --------------------------
(***************************************************************************)
(* A timed operation from the row a handler schedules to the transaction   *)
(* that performs it: table, scheduler replicas, command stream and game    *)
(* workers together, sharing the stream.                                   *)
(***************************************************************************)
EXTENDS Scheduler, CommandConsumer

vars == <<schedulerVars, workerVars, effectVars>>

Init == SchedulerInit /\ ConsumerInit

ByScheduler(A) == A /\ UNCHANGED <<workerVars, effectVars>>
ByGame(A) == A /\ UNCHANGED <<tableVars, replicaVars>>

Next == ByScheduler(SchedulerNext) \/ ByGame(ConsumerNext)

Spec == Init /\ [][Next]_vars

(* Fairness: processes are restarted and run, time passes, and the stream  *)
(* offers what waits and what was abandoned.  Nothing is asked of handlers *)
(* that write the table, of operators or of faults.                        *)
FairSpec ==
    /\ Spec
    /\ WF_vars(ByScheduler(Tick))
    /\ \A r \in Replica :
        WF_vars(ByScheduler(TickReplica(r))) /\ WF_vars(ByScheduler(Restart(r)))
    /\ \A w \in Worker : WF_vars(ByGame(Handle(w)))
    /\ \A c \in Slot :
        /\ WF_vars(ByGame(\E w \in Worker : Take(w, c)))
        /\ WF_vars(ByGame(Unattended(c) /\ AckWaitExpires(c)))

(* Everything has its type.                                                *)
TypeOK ==
    TableTypeOK /\ StreamTypeOK /\ FaultTypeOK /\ ReplicaTypeOK /\ ConsumerTypeOK

----------------------------------------------------------------------------
Settled(a) == a \in keys \cup refused
InStream(a) ==
    \E k \in 1 .. MaxCopies : copy[<<a, k>>] \in {"waiting", "delivered"}
Exhausted(a) == \E k \in 1 .. MaxCopies : copy[<<a, k>>] = "dead"

(* A row says completed only if its command is settled, still on its way,  *)
(* or dead after MaxDeliver attempts: publishing comes before completing   *)
(* and acknowledging after the work, whatever crashes in between.          *)
CompletedIsCarried ==
    \A a \in Action :
        status[a] = "completed" => Settled(a) \/ InStream(a) \/ Exhausted(a)

(* The inbox is a record of completion: no message stands in it whose      *)
(* command was not settled first (cmd/game handle).                        *)
InboxAfterOutcome == inbox \subseteq keys \cup refused

(* Whatever restarts or fails, an operation that was scheduled is settled  *)
(* in the end, if fewer than MaxDeliver things go wrong.                   *)
ScheduledIsSettled ==
    \A a \in Routed \ Orphan : status[a] # "absent" ~> Settled(a)

\* What the whole pipeline is for: TimedOperation.
Promise == INSTANCE TimedOperation WITH
    Operation <- Action,
    planned <- {a \in Action : status[a] # "absent"},
    left <- remaining,
    runs <- runs

(* Every behaviour of the pipeline is one of the promise.                  *)
KeepsPromise == Promise!OpSpec
=============================================================================
