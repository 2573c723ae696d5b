--------------------------- MODULE TimedOperation ---------------------------
(***************************************************************************)
(* What the durable schedule promises: a planned operation runs at most    *)
(* once, and never before its finish time except by the disagreement of    *)
(* the clocks.                                                             *)
(***************************************************************************)
EXTENDS Integers

CONSTANTS Operation, MaxDelay, MaxSkew

VARIABLES
    planned,  \* the operations that were written to the schedule
    left,     \* time until each may run, on the slowest clock
    runs      \* how often each has run

opVars == <<planned, left, runs>>

OpInit ==
    /\ planned = {}
    /\ left = [o \in Operation |-> 0]
    /\ runs = [o \in Operation |-> 0]

Plan(o) ==
    /\ o \notin planned
    /\ planned' = planned \cup {o}
    /\ \E d \in 0 .. MaxDelay : left' = [left EXCEPT ![o] = d]
    /\ UNCHANGED runs

\* An operator may bring an operation forward.
BringForward(o) ==
    /\ o \in planned
    /\ left' = [left EXCEPT ![o] = 0]
    /\ UNCHANGED <<planned, runs>>

Run(o) ==
    /\ o \in planned
    /\ left[o] <= MaxSkew
    /\ runs[o] = 0
    /\ runs' = [runs EXCEPT ![o] = 1]
    /\ UNCHANGED <<planned, left>>

Pass ==
    /\ left' = [o \in Operation |-> IF left[o] > 0 THEN left[o] - 1 ELSE 0]
    /\ UNCHANGED <<planned, runs>>

OpNext ==
    \/ Pass
    \/ \E o \in Operation : Plan(o) \/ BringForward(o) \/ Run(o)

OpSpec == OpInit /\ [][OpNext]_opVars
=============================================================================
