--------------------------- MODULE FollowedState ---------------------------
(***************************************************************************)
(* What client state sync promises a client (internal/statesync,           *)
(* api/client-api.md 5.6).  What the player's entities are told to be goes *)
(* through a sequence of states.  A client that has a copy shows one of    *)
(* them and moves through them one by one, skipping and repeating none; a  *)
(* client without one starts at the newest.                                *)
(***************************************************************************)
EXTENDS Integers, Sequences

CONSTANTS Client, Nothing

VARIABLES
    told,    \* the states told so far
    at,      \* which of them a client shows, 0: it has no copy
    shown

vars == <<told, at, shown>>

Init ==
    /\ told = <<Nothing>>
    /\ at = [c \in Client |-> 0]
    /\ shown = [c \in Client |-> Nothing]

Tell ==
    /\ Len(told') >= Len(told)
    /\ \A i \in 1..Len(told) : told'[i] = told[i]
    /\ UNCHANGED <<at, shown>>

Shows(c, i) ==
    /\ at' = [at EXCEPT ![c] = i]
    /\ shown' = [shown EXCEPT ![c] = told[i]]
    /\ UNCHANGED told

Start(c) == at[c] = 0 /\ Shows(c, Len(told))
Follow(c) == at[c] \in 1..Len(told) - 1 /\ Shows(c, at[c] + 1)

\* A reset, or a page loaded again.
Lose(c) ==
    /\ at' = [at EXCEPT ![c] = 0]
    /\ shown' = [shown EXCEPT ![c] = Nothing]
    /\ UNCHANGED told

Next == Tell \/ \E c \in Client : Start(c) \/ Follow(c) \/ Lose(c)

Spec == Init /\ [][Next]_vars
=============================================================================
