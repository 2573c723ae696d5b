----------------------------- MODULE Scheduler -----------------------------
(***************************************************************************)
(* cmd/scheduler: replicas that reap abandoned claims, claim due actions   *)
(* and publish them as commands (internal/workers/scheduler).  Every call  *)
(* of a tick is a step of its own, so replicas, operators and handlers     *)
(* interleave between any two of them.                                     *)
(***************************************************************************)
EXTENDS GameActions, DurableStream

CONSTANTS
    Replica,          \* scheduler processes
    Skew,             \* how far each replica's clock runs ahead
    ShutdownTimeout,  \* scheduler.shutdown_timeout, the budget of a batch
    Routed,           \* the actions whose action_type has a command route
    NoAction

ASSUME SchedulerConstants ==
    /\ Skew \in [Replica -> 0 .. MaxSkew]
    /\ ShutdownTimeout \in Nat \ {0}
    /\ ClaimTimeout > ShutdownTimeout       \* New refuses anything else
    /\ Routed \subseteq Action
    /\ NoAction \notin Action

\* What New cannot see: the clocks of two replicas must not differ by more
\* than the lease exceeds the batch.
ASSUME ClocksAgree == MaxSkew <= ClaimTimeout - ShutdownTimeout

VARIABLES
    pc,      \* where a replica stands in Run
    batch,   \* the claimed actions it has not finished with
    sent,    \* the action published and not yet completed
    budget,  \* time left on batchCtx
    fired    \* ticker.C holds a tick; the time unit is tick_interval

replicaVars == <<pc, batch, sent, budget, fired>>
schedulerVars == <<tableVars, streamVars, replicaVars, faults>>

ReplicaTypeOK ==
    /\ pc \in [Replica -> {"down", "waiting", "reaping", "claiming", "dispatching"}]
    /\ batch \in [Replica -> SUBSET Action]
    /\ sent \in [Replica -> Action \cup {NoAction}]
    /\ budget \in [Replica -> 0 .. ShutdownTimeout]
    /\ fired \in [Replica -> BOOLEAN]

ReplicaInit ==
    /\ pc = [r \in Replica |-> "waiting"]
    /\ batch = [r \in Replica |-> {}]
    /\ sent = [r \in Replica |-> NoAction]
    /\ budget = [r \in Replica |-> 0]
    /\ fired = [r \in Replica |-> FALSE]

----------------------------------------------------------------------------
\* The ticker fires and batchCtx starts to run out.
StartTick(r) ==
    /\ pc[r] = "waiting"
    /\ fired[r]
    /\ fired' = [fired EXCEPT ![r] = FALSE]
    /\ pc' = [pc EXCEPT ![r] = "reaping"]
    /\ budget' = [budget EXCEPT ![r] = ShutdownTimeout]
    /\ UNCHANGED <<tableVars, streamVars, batch, sent, faults>>

Reap(r) ==
    /\ pc[r] = "reaping"
    /\ budget[r] > 0
    /\ \E rows \in Front(StaleRows(Skew[r]), [a \in Action |-> -claimAge[a]]) :
         ReclaimStale(rows)
    /\ pc' = [pc EXCEPT ![r] = "claiming"]
    /\ UNCHANGED <<streamVars, batch, sent, budget, fired, faults>>

\* A failed reap is logged; the tick goes on.
ReapFails(r) ==
    /\ pc[r] = "reaping"
    /\ budget[r] > 0
    /\ Fault
    /\ pc' = [pc EXCEPT ![r] = "claiming"]
    /\ UNCHANGED <<tableVars, streamVars, batch, sent, budget, fired>>

Claim(r) ==
    /\ pc[r] = "claiming"
    /\ budget[r] > 0
    /\ \E rows \in Front(DueRows(Skew[r]), remaining) :
         /\ ClaimDue(rows, Skew[r])
         /\ batch' = [batch EXCEPT ![r] = rows]
         /\ pc' = [pc EXCEPT ![r] = IF rows = {} THEN "waiting" ELSE "dispatching"]
         /\ budget' = [budget EXCEPT ![r] = IF rows = {} THEN 0 ELSE @]
    /\ UNCHANGED <<streamVars, sent, fired, faults>>

\* Due returns an error and the tick ends.  The statement may have committed
\* before its answer was lost.
ClaimFails(r) ==
    /\ pc[r] = "claiming"
    /\ budget[r] > 0
    /\ Fault
    /\ pc' = [pc EXCEPT ![r] = "waiting"]
    /\ budget' = [budget EXCEPT ![r] = 0]
    /\ \/ UNCHANGED tableVars
       \/ \E rows \in Front(DueRows(Skew[r]), remaining) : ClaimDue(rows, Skew[r])
    /\ UNCHANGED <<streamVars, batch, sent, fired>>

----------------------------------------------------------------------------
\* dispatch, one call at a time.  The rows of a batch come in no set order:
\* an UPDATE ... RETURNING promises none.
Dispatching(r, a) ==
    /\ pc[r] = "dispatching"
    /\ budget[r] > 0
    /\ sent[r] = NoAction
    /\ a \in batch[r]

\* The loop moves on from a; the tick ends with the last row.
Finish(r, a) ==
    /\ batch' = [batch EXCEPT ![r] = @ \ {a}]
    /\ sent' = [sent EXCEPT ![r] = NoAction]
    /\ pc' = [pc EXCEPT ![r] = IF batch[r] = {a} THEN "waiting" ELSE @]
    /\ budget' = [budget EXCEPT ![r] = IF batch[r] = {a} THEN 0 ELSE @]
    /\ UNCHANGED fired

\* No route, or a payload that is no JSON: the row is failed, unpublished.
FailUnroutable(r, a) ==
    /\ Dispatching(r, a)
    /\ a \notin Routed
    /\ \/ Fail(a) /\ NoFault
       \/ UNCHANGED tableVars /\ Fault
    /\ Finish(r, a)
    /\ UNCHANGED <<streamVars>>

Publish(r, a) ==
    /\ Dispatching(r, a)
    /\ a \in Routed
    /\ Accept(a)
    /\ NoFault
    /\ sent' = [sent EXCEPT ![r] = a]
    /\ UNCHANGED <<tableVars, pc, batch, budget, fired>>

\* Mutant: the row is completed whatever publishing returned.
PublishFails_Completes(r, a) ==
    /\ Dispatching(r, a)
    /\ a \in Routed
    /\ Accept(a) \/ UNCHANGED streamVars
    /\ Fault
    /\ Finish(r, a)
    /\ Complete(a)

\* The envelope cannot be built, the broker refuses, or it stored the command
\* and its answer was lost: the row stays claimed for the reaper.
PublishFails(r, a) ==
    /\ Dispatching(r, a)
    /\ a \in Routed
    /\ Accept(a) \/ UNCHANGED <<streamVars>>
    /\ Fault
    /\ Finish(r, a)
    /\ UNCHANGED tableVars

\* Complete's own error is only logged.
MarkComplete(r) ==
    /\ sent[r] # NoAction
    /\ budget[r] > 0
    /\ \/ Complete(sent[r]) /\ NoFault
       \/ UNCHANGED tableVars /\ Fault
    /\ Finish(r, sent[r])
    /\ UNCHANGED <<streamVars>>

\* batchCtx is done: every call still to come fails and changes nothing.
Expire(r) ==
    /\ pc[r] \in {"reaping", "claiming", "dispatching"}
    /\ budget[r] = 0
    /\ pc' = [pc EXCEPT ![r] = "waiting"]
    /\ batch' = [batch EXCEPT ![r] = {}]
    /\ sent' = [sent EXCEPT ![r] = NoAction]
    /\ UNCHANGED <<tableVars, streamVars, budget, fired, faults>>

Crash(r) ==
    /\ pc[r] # "down"
    /\ Fault
    /\ pc' = [pc EXCEPT ![r] = "down"]
    /\ batch' = [batch EXCEPT ![r] = {}]
    /\ sent' = [sent EXCEPT ![r] = NoAction]
    /\ budget' = [budget EXCEPT ![r] = 0]
    /\ fired' = [fired EXCEPT ![r] = FALSE]
    /\ UNCHANGED <<tableVars, streamVars>>

Restart(r) ==
    /\ pc[r] = "down"
    /\ pc' = [pc EXCEPT ![r] = "waiting"]
    /\ UNCHANGED <<tableVars, streamVars, batch, sent, budget, fired, faults>>

----------------------------------------------------------------------------
TickReplica(r) ==
    \/ StartTick(r) \/ Reap(r) \/ ReapFails(r) \/ Claim(r) \/ ClaimFails(r)
    \/ MarkComplete(r) \/ Expire(r)
    \/ \E a \in Action : FailUnroutable(r, a) \/ Publish(r, a) \/ PublishFails(r, a)

\* What else writes the table: handlers and operators.
TableWriter(a) ==
    /\ Schedule(a) \/ RequeueAction(a) \/ EndNow(a) \/ CancelActions(a)
    /\ UNCHANGED <<streamVars, replicaVars, faults>>

\* One tick_interval passes.  A batch that runs into its deadline is a fault.
Tick ==
    /\ AgeRows
    /\ AgeWindow
    /\ budget' = [r \in Replica |-> IF budget[r] > 0 THEN budget[r] - 1 ELSE 0]
    /\ fired' = [r \in Replica |-> pc[r] # "down"]
    /\ IF \E r \in Replica : budget[r] = 1 THEN Fault ELSE NoFault
    /\ UNCHANGED <<pc, batch, sent>>

SchedulerInit == TableInit /\ StreamInit /\ ReplicaInit /\ faults = 0

SchedulerNext ==
    \/ \E r \in Replica : TickReplica(r) \/ Crash(r) \/ Restart(r)
    \/ \E a \in Action : TableWriter(a)
    \/ Tick

SchedulerSpec == SchedulerInit /\ [][SchedulerNext]_schedulerVars

----------------------------------------------------------------------------
\* A replica is still allowed to act on its claim of a.
LiveClaim(r, a) == pc[r] = "dispatching" /\ budget[r] > 0 /\ a \in batch[r]

(* A batch that is still legitimately running never has a row reclaimed or *)
(* requeued underneath it, nor claimed by another replica (what New's      *)
(* claim_timeout > shutdown_timeout is for); only the repair may close it. *)
LiveClaimKept ==
    \A r \in Replica, a \in Action :
        LiveClaim(r, a) =>
            /\ status[a] \in {"running", "cancelled"}
            /\ \A q \in Replica \ {r} : ~ LiveClaim(q, a)

(* A row closed as completed or cancelled stays that way; a failed row is  *)
(* only ever handed back to the schedule.                                  *)
ClosedRowsStayClosed ==
    [][\A a \in Action :
        /\ status[a] \in {"completed", "cancelled"} => status'[a] = status[a]
        /\ status[a] = "failed" => status'[a] \in {"failed", "scheduled"}]_schedulerVars
=============================================================================
