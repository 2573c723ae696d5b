---- MODULE FaultBudget ----
(***************************************************************************)
(* What goes wrong with the durable schedule from outside: a crash, a call *)
(* refused or left unanswered, an ack wait that expires.  Each spends one  *)
(* of a budget that all its parts share.  The ids of the timed actions,    *)
(* which name rows, commands and keys alike, are declared here too.        *)
(***************************************************************************)
EXTENDS FiniteSets, Integers

CONSTANT Action     \* the ids of the timed actions
CONSTANT MaxFaults  \* bound: how many faults one behaviour may have

ASSUME BudgetConstants == MaxFaults \in Nat /\ IsFiniteSet(Action)

VARIABLE faults     \* the faults there have been

FaultTypeOK == faults \in 0 .. MaxFaults

\* A step that is a fault, or one that is none.
Fault ==
    /\ faults < MaxFaults
    /\ faults' = faults + 1
NoFault == faults' = faults
====
