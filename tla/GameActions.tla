---------------------------- MODULE GameActions ----------------------------
(***************************************************************************)
(* The durable schedule: the table game_actions and the statements that    *)
(* write it (internal/infrastructure/postgres/gameaction.go, panel_ops.go, *)
(* orphan_shifts.go).                                                      *)
(*                                                                         *)
(* Time is kept relative: remaining[a] is how far finish_at lies ahead and *)
(* claimAge[a] how long ago claimed_at is, both on the slowest clock of    *)
(* the fleet.  A process whose clock runs ahead by s sees an action due    *)
(* when remaining <= s, stamps a claim at age -s, and judges a claim of    *)
(* age g to be g + s old.  Both saturate, so time itself is unbounded.     *)
(***************************************************************************)
EXTENDS FaultBudget

CONSTANTS
    Orphan,        \* the actions whose settlement shift never existed
    MaxDelay,      \* bound: the longest wait a handler schedules
    BatchSize,     \* scheduler.batch_size
    ClaimTimeout,  \* scheduler.claim_timeout
    StuckAfter,    \* age of a claim an operator may requeue
    MaxSkew        \* bound: how far ahead the fastest clock runs

ASSUME ScheduleConstants ==
    /\ Orphan \subseteq Action
    /\ MaxDelay \in Nat
    /\ BatchSize \in Nat \ {0}
    /\ ClaimTimeout \in Nat \ {0}
    /\ StuckAfter \in Nat
    /\ StuckAfter > ClaimTimeout
    /\ MaxSkew \in Nat

VARIABLES
    status,     \* column status; "absent" before the row is written
    remaining,  \* finish_at, as time still to pass (0 once overdue)
    claimAge    \* claimed_at, as age; 0 unless the row is running

tableVars == <<status, remaining, claimAge>>

Status == {"absent", "scheduled", "running", "completed", "failed", "cancelled"}
Open == {"scheduled", "running"}

TableTypeOK ==
    /\ status \in [Action -> Status]
    /\ remaining \in [Action -> 0 .. MaxDelay]
    /\ claimAge \in [Action -> -MaxSkew .. StuckAfter]

TableInit ==
    /\ status = [a \in Action |-> "absent"]
    /\ remaining = [a \in Action |-> 0]
    /\ claimAge = [a \in Action |-> 0]

----------------------------------------------------------------------------
\* LIMIT BatchSize of an ORDER BY rank.
Front(rows, rank) ==
    {S \in SUBSET rows :
        /\ Cardinality(S) <= BatchSize
        /\ S = rows \/ Cardinality(S) = BatchSize
        /\ \A a \in S, b \in rows \ S : rank[a] <= rank[b]}

\* A handler writes the action in its own transaction.
Schedule(a) ==
    /\ status[a] = "absent"
    /\ status' = [status EXCEPT ![a] = "scheduled"]
    /\ \E d \in 0 .. MaxDelay : remaining' = [remaining EXCEPT ![a] = d]
    /\ UNCHANGED claimAge

\* Mutant: the claim's predicate is the one Complete uses.
DueRows_AnyOpen(skew) == {a \in Action : status[a] \in Open /\ remaining[a] <= skew}

\* The rows the claim of a clock running skew ahead may take.
DueRows(skew) == {a \in Action : status[a] = "scheduled" /\ remaining[a] <= skew}

\* claimDueSQL: one statement selects, locks and claims rows.
ClaimDue(rows, skew) ==
    /\ status' = [a \in Action |-> IF a \in rows THEN "running" ELSE status[a]]
    /\ claimAge' = [a \in Action |-> IF a \in rows THEN -skew ELSE claimAge[a]]
    /\ UNCHANGED remaining

\* Mutant: the comparison with the cutoff is turned round.
StaleRows_Inverted(skew) ==
    {a \in Action : status[a] = "running" /\ claimAge[a] + skew < -MaxSkew}

\* The claims that the cutoff of a clock running skew ahead calls stale.
StaleRows(skew) ==
    {a \in Action : status[a] = "running" /\ claimAge[a] + skew > ClaimTimeout}

\* Mutant: the status of the outbox is written instead.
ReclaimStale_Pending(rows) ==
    /\ status' = [a \in Action |-> IF a \in rows THEN "pending" ELSE status[a]]
    /\ claimAge' = [a \in Action |-> IF a \in rows THEN 0 ELSE claimAge[a]]
    /\ UNCHANGED remaining

\* reclaimStaleSQL: rows go back to the schedule, unclaimed.
ReclaimStale(rows) ==
    /\ status' = [a \in Action |-> IF a \in rows THEN "scheduled" ELSE status[a]]
    /\ claimAge' = [a \in Action |-> IF a \in rows THEN 0 ELSE claimAge[a]]
    /\ UNCHANGED remaining

\* Mutant: no status predicate.
CloseAs_Unguarded(a, closed) ==
    /\ status' = [status EXCEPT ![a] = closed]
    /\ claimAge' = [claimAge EXCEPT ![a] = 0]
    /\ UNCHANGED remaining

\* Complete and Fail close only a row that is still open; on any other row
\* they change nothing and report ErrGameActionNotFound.
CloseAs(a, closed) ==
    /\ IF status[a] \in Open
       THEN /\ status' = [status EXCEPT ![a] = closed]
            /\ claimAge' = [claimAge EXCEPT ![a] = 0]
       ELSE UNCHANGED <<status, claimAge>>
    /\ UNCHANGED remaining
Complete(a) == CloseAs(a, "completed")
Fail(a) == CloseAs(a, "failed")

----------------------------------------------------------------------------
\* An operator hands a failed action, or one claimed for StuckAfter on the
\* panel's clock (any clock of the fleet), back to the scheduler, due now.
RequeueAction(a) ==
    /\ \/ status[a] = "failed"
       \/ status[a] = "running" /\ claimAge[a] + MaxSkew >= StuckAfter
    /\ status' = [status EXCEPT ![a] = "scheduled"]
    /\ claimAge' = [claimAge EXCEPT ![a] = 0]
    /\ remaining' = [remaining EXCEPT ![a] = 0]

\* An operator ends a sentence or a stay: its action becomes due now.
EndNow(a) ==
    /\ status[a] \in {"scheduled", "failed"}
    /\ status' = [status EXCEPT ![a] = "scheduled"]
    /\ claimAge' = [claimAge EXCEPT ![a] = 0]
    /\ remaining' = [remaining EXCEPT ![a] = 0]

\* The repair of refused shifts cancels the actions they left behind.
CancelActions(a) ==
    /\ a \in Orphan
    /\ status[a] \in Open
    /\ status' = [status EXCEPT ![a] = "cancelled"]
    /\ claimAge' = [claimAge EXCEPT ![a] = 0]
    /\ UNCHANGED remaining

\* One unit of time: finish times come nearer, claims grow older.
AgeRows ==
    /\ remaining' = [a \in Action |-> IF remaining[a] > 0 THEN remaining[a] - 1 ELSE 0]
    /\ claimAge' = [a \in Action |->
                      IF status[a] = "running" /\ claimAge[a] < StuckAfter
                      THEN claimAge[a] + 1 ELSE claimAge[a]]
    /\ UNCHANGED status
=============================================================================
