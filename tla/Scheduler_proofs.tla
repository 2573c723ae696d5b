-------------------------- MODULE Scheduler_proofs --------------------------
(***************************************************************************)
(* Theorems about the scheduler replicas and the table they share.         *)
(***************************************************************************)
EXTENDS Scheduler, TLAPS

RowsTypeOK == TableTypeOK /\ ReplicaTypeOK

LEMMA ConstantTypes ==
    /\ MaxDelay \in Nat /\ ClaimTimeout \in Nat /\ StuckAfter \in Nat
    /\ MaxSkew \in Nat /\ ShutdownTimeout \in Nat /\ ShutdownTimeout > 0
    /\ StuckAfter > ClaimTimeout
    /\ ClaimTimeout >= ShutdownTimeout + MaxSkew
    /\ \A r \in Replica : Skew[r] \in 0 .. MaxSkew
    /\ NoAction \notin Action
BY ScheduleConstants, SchedulerConstants, ClocksAgree

TableOrReplica == <<tableVars, replicaVars>>

(* One step per action; a step of anything else leaves rows and replicas   *)
(* alone.                                                                  *)
LEMMA RowsTypedStep ==
    RowsTypeOK /\ (SchedulerNext \/ UNCHANGED TableOrReplica) => RowsTypeOK'
<1> SUFFICES ASSUME RowsTypeOK, SchedulerNext \/ UNCHANGED TableOrReplica PROVE RowsTypeOK'
    OBVIOUS
<1> USE ConstantTypes DEF RowsTypeOK, TableTypeOK, ReplicaTypeOK, Status
<1>1. ASSUME NEW r \in Replica, StartTick(r) PROVE RowsTypeOK'
    BY <1>1 DEF StartTick, tableVars
<1>2. ASSUME NEW r \in Replica, Reap(r) PROVE RowsTypeOK'
    BY <1>2 DEF Reap, ReclaimStale
<1>3. ASSUME NEW r \in Replica, ReapFails(r) PROVE RowsTypeOK'
    BY <1>3 DEF ReapFails, tableVars
<1>4. ASSUME NEW r \in Replica, Claim(r) PROVE RowsTypeOK'
    BY <1>4 DEF Claim, ClaimDue, Front, DueRows
<1>5. ASSUME NEW r \in Replica, ClaimFails(r) PROVE RowsTypeOK'
    BY <1>5 DEF ClaimFails, ClaimDue, tableVars
<1>6. ASSUME NEW r \in Replica, NEW a \in Action, FailUnroutable(r, a) PROVE RowsTypeOK'
    BY <1>6 DEF FailUnroutable, Fail, CloseAs, Finish, tableVars, Dispatching
<1>7. ASSUME NEW r \in Replica, NEW a \in Action, Publish(r, a) PROVE RowsTypeOK'
    BY <1>7 DEF Publish, tableVars
<1>8. ASSUME NEW r \in Replica, NEW a \in Action, PublishFails(r, a) PROVE RowsTypeOK'
    BY <1>8 DEF PublishFails, Finish, tableVars, Dispatching
<1>9. ASSUME NEW r \in Replica, MarkComplete(r) PROVE RowsTypeOK'
    BY <1>9 DEF MarkComplete, Complete, CloseAs, Finish, tableVars
<1>10. ASSUME NEW r \in Replica, Expire(r) PROVE RowsTypeOK'
    BY <1>10 DEF Expire, tableVars
<1>11. ASSUME NEW r \in Replica, Crash(r) PROVE RowsTypeOK'
    BY <1>11 DEF Crash, tableVars
<1>12. ASSUME NEW r \in Replica, Restart(r) PROVE RowsTypeOK'
    BY <1>12 DEF Restart, tableVars
<1>13. ASSUME NEW a \in Action, TableWriter(a) PROVE RowsTypeOK'
    BY <1>13 DEF TableWriter, Schedule, RequeueAction, EndNow, CancelActions, replicaVars
<1>14. ASSUME Tick PROVE RowsTypeOK'
    BY <1>14 DEF Tick, AgeRows
<1>15. ASSUME UNCHANGED TableOrReplica PROVE RowsTypeOK'
    BY <1>15 DEF TableOrReplica, tableVars, replicaVars
<1>16. QED
    BY <1>1, <1>2, <1>3, <1>4, <1>5, <1>6, <1>7, <1>8, <1>9, <1>10, <1>11, <1>12,
     <1>13, <1>14, <1>15 DEF SchedulerNext, TickReplica

LEMMA RowsTypedInit == TableInit /\ ReplicaInit => RowsTypeOK
BY ConstantTypes DEF TableInit, ReplicaInit, RowsTypeOK, TableTypeOK, ReplicaTypeOK, Status

(* The rows of the table and the state of the replicas keep their types.   *)
THEOREM RowsTyped == SchedulerSpec => []RowsTypeOK
<1>1. SchedulerInit => RowsTypeOK
  BY RowsTypedInit DEF SchedulerInit
<1>2. RowsTypeOK /\ [SchedulerNext]_schedulerVars => RowsTypeOK'
  BY RowsTypedStep DEF schedulerVars, TableOrReplica
<1>3. QED
  BY <1>1, <1>2, PTL DEF SchedulerSpec

----------------------------------------------------------------------------
(***************************************************************************)
(* A live batch and the lease on its rows run out together: the age of the *)
(* claim, on the claimer's clock, and the budget left never add up to more *)
(* than the budget the batch began with.                                   *)
(***************************************************************************)
LeaseOutlastsBatch ==
    \A r \in Replica, a \in Action :
        LiveClaim(r, a) /\ status[a] = "running" =>
            claimAge[a] + Skew[r] + budget[r] <= ShutdownTimeout

SentIsHeld ==
    \A r \in Replica :
        sent[r] # NoAction => pc[r] = "dispatching" /\ sent[r] \in batch[r]

ClaimInv == RowsTypeOK /\ LiveClaimKept /\ LeaseOutlastsBatch /\ SentIsHeld

LEMMA ClaimInvInit == TableInit /\ ReplicaInit => ClaimInv
BY RowsTypedInit DEF TableInit, ReplicaInit, ClaimInv, LiveClaimKept, LiveClaim,
   LeaseOutlastsBatch, SentIsHeld

LEMMA ClaimInvStep ==
    ClaimInv /\ (SchedulerNext \/ UNCHANGED TableOrReplica) => ClaimInv'
<1> SUFFICES ASSUME ClaimInv, SchedulerNext \/ UNCHANGED TableOrReplica PROVE ClaimInv'
  OBVIOUS
<1>0. RowsTypeOK'
  BY RowsTypedStep DEF ClaimInv
<1> USE <1>0, ConstantTypes DEF ClaimInv, RowsTypeOK, TableTypeOK, ReplicaTypeOK,
        LiveClaimKept, LiveClaim, LeaseOutlastsBatch, SentIsHeld
<1>1. ASSUME NEW r \in Replica, StartTick(r) PROVE ClaimInv'
  BY <1>1 DEF StartTick, tableVars
<1>2. ASSUME NEW r \in Replica, Reap(r) PROVE ClaimInv'
  <2>1. PICK rows \in SUBSET StaleRows(Skew[r]) : ReclaimStale(rows)
    BY <1>2 DEF Reap, Front
  \* No row of a live batch is stale, on any clock.
  <2>2. \A q \in Replica, a \in rows : ~ LiveClaim(q, a)
    BY <2>1 DEF StaleRows
  <2>3. QED
    BY <1>2, <2>1, <2>2 DEF Reap, ReclaimStale
<1>3. ASSUME NEW r \in Replica, ReapFails(r) PROVE ClaimInv'
  BY <1>3 DEF ReapFails, tableVars
<1>4. ASSUME NEW r \in Replica, Claim(r) PROVE ClaimInv'
  <2>1. PICK rows \in SUBSET DueRows(Skew[r]) :
          /\ ClaimDue(rows, Skew[r])
          /\ batch' = [batch EXCEPT ![r] = rows]
          /\ pc' = [pc EXCEPT ![r] = IF rows = {} THEN "waiting" ELSE "dispatching"]
          /\ budget' = [budget EXCEPT ![r] = IF rows = {} THEN 0 ELSE @]
    BY <1>4 DEF Claim, Front
  \* Only scheduled rows are claimed, and those nobody holds.
  <2>2. \A q \in Replica, a \in rows : ~ LiveClaim(q, a)
    BY <2>1 DEF DueRows
  <2>3. QED
    BY <1>4, <2>1, <2>2 DEF Claim, ClaimDue
<1>5. ASSUME NEW r \in Replica, ClaimFails(r) PROVE ClaimInv'
  <2>1. PICK rows \in SUBSET DueRows(Skew[r]) :
          UNCHANGED tableVars \/ ClaimDue(rows, Skew[r])
    BY <1>5 DEF ClaimFails, Front
  <2>2. \A q \in Replica, a \in rows : ~ LiveClaim(q, a)
    BY <2>1 DEF DueRows
  <2>3. QED
    BY <1>5, <2>1, <2>2 DEF ClaimFails, ClaimDue, tableVars
<1>6. ASSUME NEW r \in Replica, NEW a \in Action, FailUnroutable(r, a) PROVE ClaimInv'
  BY <1>6 DEF FailUnroutable, Fail, CloseAs, Finish, tableVars, Dispatching
<1>7. ASSUME NEW r \in Replica, NEW a \in Action, Publish(r, a) PROVE ClaimInv'
  BY <1>7 DEF Publish, Dispatching, tableVars
<1>8. ASSUME NEW r \in Replica, NEW a \in Action, PublishFails(r, a) PROVE ClaimInv'
  BY <1>8 DEF PublishFails, Finish, tableVars, Dispatching
<1>9. ASSUME NEW r \in Replica, MarkComplete(r) PROVE ClaimInv'
  BY <1>9 DEF MarkComplete, Complete, CloseAs, Finish, tableVars
<1>10. ASSUME NEW r \in Replica, Expire(r) PROVE ClaimInv'
  BY <1>10 DEF Expire, tableVars
<1>11. ASSUME NEW r \in Replica, Crash(r) PROVE ClaimInv'
  BY <1>11 DEF Crash, tableVars
<1>12. ASSUME NEW r \in Replica, Restart(r) PROVE ClaimInv'
  BY <1>12 DEF Restart, tableVars
<1>13. ASSUME NEW a \in Action, TableWriter(a) PROVE ClaimInv'
  BY <1>13 DEF TableWriter, Schedule, RequeueAction, EndNow, CancelActions, Open, replicaVars
<1>14. ASSUME Tick PROVE ClaimInv'
  BY <1>14 DEF Tick, AgeRows
<1>15. ASSUME UNCHANGED TableOrReplica PROVE ClaimInv'
  BY <1>15 DEF TableOrReplica, tableVars, replicaVars
<1>16. QED
  BY <1>1, <1>2, <1>3, <1>4, <1>5, <1>6, <1>7, <1>8, <1>9, <1>10, <1>11, <1>12,
     <1>13, <1>14, <1>15 DEF SchedulerNext, TickReplica

(* For any number of actions and replicas, and clocks as far apart as the  *)
(* lease allows: a live batch keeps its rows to itself.                    *)
THEOREM ClaimsAreExclusive == SchedulerSpec => []LiveClaimKept
<1>1. SchedulerInit => ClaimInv
  BY ClaimInvInit DEF SchedulerInit
<1>2. ClaimInv /\ [SchedulerNext]_schedulerVars => ClaimInv'
  BY ClaimInvStep DEF schedulerVars, TableOrReplica
<1>3. QED
  BY <1>1, <1>2, PTL DEF SchedulerSpec, ClaimInv

LEMMA ClosedRowsStep ==
    ASSUME RowsTypeOK, RowsTypeOK', SchedulerNext, NEW a \in Action
    PROVE  /\ status[a] \in {"completed", "cancelled"} => status'[a] = status[a]
           /\ status[a] = "failed" => status'[a] \in {"failed", "scheduled"}
<1> DEFINE Closed ==
        /\ status[a] \in {"completed", "cancelled"} => status'[a] = status[a]
        /\ status[a] = "failed" => status'[a] \in {"failed", "scheduled"}
<1> USE DEF RowsTypeOK, TableTypeOK, tableVars
<1>1. ASSUME NEW r \in Replica,
             StartTick(r) \/ ReapFails(r) \/ Expire(r) \/ Crash(r) \/ Restart(r)
      PROVE  Closed
  BY <1>1 DEF StartTick, ReapFails, Expire, Crash, Restart
<1>2. ASSUME NEW r \in Replica, Reap(r) PROVE Closed
  BY <1>2 DEF Reap, Front, ReclaimStale, StaleRows
<1>3. ASSUME NEW r \in Replica, Claim(r) \/ ClaimFails(r) PROVE Closed
  BY <1>3 DEF Claim, ClaimFails, Front, ClaimDue, DueRows
<1>4. ASSUME NEW r \in Replica, MarkComplete(r) PROVE Closed
  BY <1>4 DEF MarkComplete, Complete, CloseAs, Open
<1>5. ASSUME NEW r \in Replica, NEW b \in Action,
             FailUnroutable(r, b) \/ Publish(r, b) \/ PublishFails(r, b)
      PROVE  Closed
  BY <1>5 DEF FailUnroutable, Publish, PublishFails, Fail, CloseAs, Open
<1>6. ASSUME NEW b \in Action, TableWriter(b) PROVE Closed
  BY <1>6 DEF TableWriter, Schedule, RequeueAction, EndNow, CancelActions, Open
<1>7. ASSUME Tick PROVE Closed
  BY <1>7 DEF Tick, AgeRows
<1>8. QED
  BY <1>1, <1>2, <1>3, <1>4, <1>5, <1>6, <1>7 DEF SchedulerNext, TickReplica

(* The statements' predicates on status are all it takes: completed and    *)
(* cancelled rows never change, failed ones only go back to the schedule.  *)
THEOREM ClosedStaysClosed == SchedulerSpec => ClosedRowsStayClosed
<1>1. ClaimInv /\ ClaimInv' /\ [SchedulerNext]_schedulerVars =>
        [\A a \in Action :
            /\ status[a] \in {"completed", "cancelled"} => status'[a] = status[a]
            /\ status[a] = "failed" => status'[a] \in {"failed", "scheduled"}]_schedulerVars
  BY ClosedRowsStep DEF ClaimInv
<1>2. SchedulerInit => ClaimInv
  BY ClaimInvInit DEF SchedulerInit
<1>3. ClaimInv /\ [SchedulerNext]_schedulerVars => ClaimInv'
  BY ClaimInvStep DEF schedulerVars, TableOrReplica
<1>4. QED
  BY <1>1, <1>2, <1>3, PTL DEF SchedulerSpec, ClosedRowsStayClosed
=============================================================================
