--------------------------- MODULE DurableStream ---------------------------
(***************************************************************************)
(* A JetStream stream as one durable consumer of this code sees it         *)
(* (internal/infrastructure/nats): GAME_COMMANDS, or GAME_EVENTS for one   *)
(* event's consumer.  It has a duplicate window, explicit acknowledgement  *)
(* and at most MaxDeliver deliveries.  A message is known by its           *)
(* deduplication id (an action, an event); each publication the stream     *)
(* stores is one more copy of it.                                          *)
(***************************************************************************)
EXTENDS FaultBudget

CONSTANTS
    MaxCopies,        \* bound: copies of one message stored in a behaviour
    MaxDeliver,       \* deliveries of one copy before it is dead
    DuplicateWindow   \* how long the stream remembers a deduplication id

ASSUME StreamConstants ==
    /\ MaxCopies \in Nat \ {0}
    /\ MaxDeliver \in Nat \ {0}
    /\ DuplicateWindow \in Nat

VARIABLES
    copy,    \* state of each copy
    tries,   \* deliveries of each copy so far
    window   \* time each deduplication id is still remembered

streamVars == <<copy, tries, window>>

Slot == Action \X (1 .. MaxCopies)
CopyState == {"free", "waiting", "delivered", "dead", "acked"}

StreamTypeOK ==
    /\ copy \in [Slot -> CopyState]
    /\ tries \in [Slot -> 0 .. MaxDeliver]
    /\ window \in [Action -> 0 .. DuplicateWindow]

StreamInit ==
    /\ copy = [c \in Slot |-> "free"]
    /\ tries = [c \in Slot |-> 0]
    /\ window = [a \in Action |-> 0]

\* A publication of a reaches the stream: stored, unless its id
\* is remembered.
Accept(a) ==
    \/ /\ window[a] > 0
       /\ UNCHANGED <<copy, tries, window>>
    \/ /\ window[a] = 0
       /\ \E k \in 1 .. MaxCopies :
            /\ copy[<<a, k>>] = "free"
            /\ \A j \in 1 .. k - 1 : copy[<<a, j>>] # "free"
            /\ copy' = [copy EXCEPT ![<<a, k>>] = "waiting"]
       /\ window' = [window EXCEPT ![a] = DuplicateWindow]
       /\ UNCHANGED tries

Deliver(c) ==
    /\ copy[c] = "waiting"
    /\ tries[c] < MaxDeliver
    /\ copy' = [copy EXCEPT ![c] = "delivered"]
    /\ tries' = [tries EXCEPT ![c] = @ + 1]
    /\ UNCHANGED window

\* A NAK, or an ack wait that ran out: another delivery, while any is left.
Redeliver(c) ==
    /\ copy' = [copy EXCEPT ![c] =
                  IF copy[c] # "delivered" THEN copy[c]
                  ELSE IF tries[c] < MaxDeliver THEN "waiting" ELSE "dead"]
    /\ UNCHANGED <<tries, window>>

\* An ack removes the copy, also when it was meanwhile offered again.
Ack(c) ==
    /\ copy' = [copy EXCEPT ![c] = "acked"]
    /\ UNCHANGED <<tries, window>>

AgeWindow ==
    /\ window' = [a \in Action |-> IF window[a] > 0 THEN window[a] - 1 ELSE 0]
    /\ UNCHANGED <<copy, tries>>
=============================================================================
