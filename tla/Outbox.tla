------------------------------- MODULE Outbox -------------------------------
(***************************************************************************)
(* The transactional outbox and cmd/worker, which publishes its rows to    *)
(* the event stream (internal/infrastructure/postgres/outbox.go,           *)
(* cmd/worker/main.go).  An event is its outbox.id.                        *)
(***************************************************************************)
EXTENDS Integers, FiniteSets

CONSTANTS
    Event,        \* outbox.id, a bigserial, of the events that may occur
    Relay,        \* cmd/worker processes
    RelayBatch,   \* worker.batch_size
    MaxCopies, MaxDeliver, DuplicateWindow, MaxFaults

ASSUME OutboxConstants ==
    /\ IsFiniteSet(Event) /\ Event \subseteq Nat
    /\ RelayBatch \in Nat \ {0}
    /\ {MaxCopies, MaxDeliver} \subseteq Nat \ {0}
    /\ {DuplicateWindow, MaxFaults} \subseteq Nat

VARIABLES
    row,        \* column status; "absent" before the event's transaction commits
    pass,       \* where a relay stands in publishBatch
    pending,    \* the rows it claimed and has yet to publish
    published,  \* the rows of this pass the broker confirmed
    copy, tries, window, faults

EventStream == INSTANCE DurableStream WITH Action <- Event

relayVars == <<pass, pending, published>>
eventVars == <<copy, tries, window>>
outboxVars == <<row, relayVars, eventVars, faults>>

OutboxTypeOK ==
    /\ row \in [Event -> {"absent", "pending", "published"}]
    /\ pass \in [Relay -> {"down", "idle", "claiming", "publishing"}]
    /\ pending \in [Relay -> SUBSET Event]
    /\ published \in [Relay -> SUBSET Event]
    /\ EventStream!StreamTypeOK
    /\ EventStream!FaultTypeOK

OutboxInit ==
    /\ row = [e \in Event |-> "absent"]
    /\ pass = [r \in Relay |-> "idle"]
    /\ pending = [r \in Relay |-> {}]
    /\ published = [r \in Relay |-> {}]
    /\ EventStream!StreamInit
    /\ faults = 0

----------------------------------------------------------------------------
\* Appended in the transaction that made it happen; ids need not become
\* visible in their order.
Append(e) ==
    /\ row[e] = "absent"
    /\ row' = [row EXCEPT ![e] = "pending"]
    /\ UNCHANGED <<relayVars, eventVars, faults>>

\* Rows the claim statements of other relays hold at this moment.
LockedByOthers(r) == UNION {pending[q] : q \in {q \in Relay \ {r} : pass[q] = "claiming"}}

\* Mutant: a relay waits until it can claim a full batch.
Claim_FullBatch(r) ==
    /\ pass[r] = "idle"
    /\ \E rows \in SUBSET ({e \in Event : row[e] = "pending"} \ LockedByOthers(r)) :
         /\ Cardinality(rows) = RelayBatch
         /\ pending' = [pending EXCEPT ![r] = rows]
    /\ pass' = [pass EXCEPT ![r] = "claiming"]
    /\ UNCHANGED <<row, published, eventVars, faults>>

\* claimPending selects and locks the oldest pending rows not locked already.
Claim(r) ==
    /\ pass[r] = "idle"
    /\ LET free == {e \in Event : row[e] = "pending"} \ LockedByOthers(r)
       IN  \E rows \in SUBSET free :
             /\ Cardinality(rows) <= RelayBatch
             /\ rows = free \/ Cardinality(rows) = RelayBatch
             /\ \A e \in rows, f \in free \ rows : e < f
             /\ rows # {}
             /\ pending' = [pending EXCEPT ![r] = rows]
    /\ pass' = [pass EXCEPT ![r] = "claiming"]
    /\ UNCHANGED <<row, published, eventVars, faults>>

\* Mutant: the claim is a status, which outbox_status_check does not admit.
Claimed_Processing(r) ==
    /\ pass[r] = "claiming"
    /\ pass' = [pass EXCEPT ![r] = "publishing"]
    /\ row' = [e \in Event |-> IF e \in pending[r] THEN "processing" ELSE row[e]]
    /\ UNCHANGED <<pending, published, eventVars, faults>>

\* The statement commits and its locks go; it only counted an attempt.
Claimed(r) ==
    /\ pass[r] = "claiming"
    /\ pass' = [pass EXCEPT ![r] = "publishing"]
    /\ UNCHANGED <<row, pending, published, eventVars, faults>>

ClaimFails(r) ==
    /\ pass[r] = "claiming"
    /\ EventStream!Fault
    /\ pass' = [pass EXCEPT ![r] = "idle"]
    /\ pending' = [pending EXCEPT ![r] = {}]
    /\ UNCHANGED <<row, published, eventVars>>

\* One event goes out.  The rows come in no set order: an UPDATE ... RETURNING
\* promises none.
Publish(r, e) ==
    /\ pass[r] = "publishing"
    /\ e \in pending[r]
    /\ EventStream!Accept(e)
    /\ pending' = [pending EXCEPT ![r] = @ \ {e}]
    /\ published' = [published EXCEPT ![r] = @ \cup {e}]
    /\ UNCHANGED <<row, pass, faults>>

\* Mutant: the row joins those to be marked whatever publishing returned.
PublishFails_Marks(r, e) ==
    /\ pass[r] = "publishing"
    /\ e \in pending[r]
    /\ EventStream!Fault
    /\ EventStream!Accept(e) \/ UNCHANGED eventVars
    /\ pending' = [pending EXCEPT ![r] = @ \ {e}]
    /\ published' = [published EXCEPT ![r] = @ \cup {e}]
    /\ UNCHANGED <<row, pass>>

\* No confirmation, though the broker may have stored the event: the row stays
\* pending and the pass goes on with the next.
PublishFails(r, e) ==
    /\ pass[r] = "publishing"
    /\ e \in pending[r]
    /\ EventStream!Fault
    /\ EventStream!Accept(e) \/ UNCHANGED eventVars
    /\ pending' = [pending EXCEPT ![r] = @ \ {e}]
    /\ UNCHANGED <<row, pass, published>>

\* markPublished, which waits for rows that a claim holds.  Its failure is
\* logged; it may have committed.
MarkPublished(r) ==
    /\ pass[r] = "publishing"
    /\ pending[r] = {}
    /\ LET marked == [e \in Event |->
                        IF e \in published[r] /\ row[e] = "pending" THEN "published" ELSE row[e]]
       IN  \/ /\ published[r] \cap LockedByOthers(r) = {}
              /\ row' = marked
              /\ EventStream!NoFault
           \/ row' \in {row, marked} /\ EventStream!Fault
    /\ pass' = [pass EXCEPT ![r] = "idle"]
    /\ published' = [published EXCEPT ![r] = {}]
    /\ UNCHANGED <<pending, eventVars>>

RelayCrash(r) ==
    /\ pass[r] # "down"
    /\ EventStream!Fault
    /\ pass' = [pass EXCEPT ![r] = "down"]
    /\ pending' = [pending EXCEPT ![r] = {}]
    /\ published' = [published EXCEPT ![r] = {}]
    /\ UNCHANGED <<row, eventVars>>

RelayRestart(r) ==
    /\ pass[r] = "down"
    /\ pass' = [pass EXCEPT ![r] = "idle"]
    /\ UNCHANGED <<row, pending, published, eventVars, faults>>

\* Time passes: the stream forgets deduplication ids.
Forget ==
    /\ \E e \in Event : window[e] > 0
    /\ EventStream!AgeWindow
    /\ UNCHANGED <<row, relayVars, faults>>

----------------------------------------------------------------------------
Relaying(r) ==
    \/ Claim(r) \/ Claimed(r) \/ ClaimFails(r) \/ MarkPublished(r) \/ RelayRestart(r)
    \/ \E e \in Event : Publish(r, e) \/ PublishFails(r, e)

OutboxNext ==
    \/ \E e \in Event : Append(e)
    \/ \E r \in Relay : Relaying(r) \/ RelayCrash(r)
    \/ Forget
=============================================================================
