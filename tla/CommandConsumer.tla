-------------------------- MODULE CommandConsumer --------------------------
(***************************************************************************)
(* cmd/game: the workers that take commands off the stream, run the        *)
(* handler in one database transaction, record the message in the inbox    *)
(* and acknowledge it (internal/infrastructure/nats/consumer.go,           *)
(* cmd/game/main.go, internal/infrastructure/postgres/idempotency.go).     *)
(* The handler here is any handler of a timed operation: it reserves the   *)
(* idempotency key of its operation, then does its work, in one commit.    *)
(***************************************************************************)
EXTENDS DurableStream

CONSTANTS
    Worker,   \* concurrent handler calls of all cmd/game processes
    MaxRuns,  \* bound: runs of one operation counted, above the one expected
    NoCopy

ASSUME ConsumerConstants ==
    /\ MaxRuns \in Nat \ {0, 1}
    /\ NoCopy \notin Slot

VARIABLES
    task,     \* the delivery a worker handles
    step,     \* how far it is
    keys,     \* idempotency_keys: the operations whose key is committed
    runs,     \* how often the work of each operation was committed
    refused,  \* operations whose handler answered with a classified refusal
    inbox     \* operations of the messages recorded in inbox_messages

workerVars == <<task, step>>
effectVars == <<keys, runs, refused, inbox>>
consumerVars == <<streamVars, workerVars, effectVars, faults>>

ConsumerTypeOK ==
    /\ task \in [Worker -> Slot \cup {NoCopy}]
    /\ step \in [Worker -> {"idle", "begun", "fresh", "done", "recorded"}]
    /\ keys \in SUBSET Action
    /\ runs \in [Action -> 0 .. MaxRuns]
    /\ refused \in SUBSET Action
    /\ inbox \in SUBSET Action

ConsumerInit ==
    /\ task = [w \in Worker |-> NoCopy]
    /\ step = [w \in Worker |-> "idle"]
    /\ keys = {}
    /\ runs = [a \in Action |-> 0]
    /\ refused = {}
    /\ inbox = {}

----------------------------------------------------------------------------
Subject(w) == task[w][1]

Goto(w, s) == step' = [step EXCEPT ![w] = s] /\ UNCHANGED task
Release(w) ==
    /\ task' = [task EXCEPT ![w] = NoCopy]
    /\ step' = [step EXCEPT ![w] = "idle"]

\* Mutant: the inbox is claimed before the work.
Take_ClaimsInbox(w, c) ==
    /\ step[w] = "idle"
    /\ Deliver(c)
    /\ task' = [task EXCEPT ![w] = c]
    /\ step' = [step EXCEPT ![w] = "begun"]
    /\ inbox' = inbox \cup {c[1]}
    /\ UNCHANGED <<keys, runs, refused, faults>>

Take(w, c) ==
    /\ step[w] = "idle"
    /\ Deliver(c)
    /\ task' = [task EXCEPT ![w] = c]
    /\ step' = [step EXCEPT ![w] = "begun"]
    /\ UNCHANGED <<effectVars, faults>>

\* INSERT ... ON CONFLICT DO NOTHING waits for a transaction that has
\* inserted the same key and not ended.
KeyHeld(a) == \E w \in Worker : step[w] = "fresh" /\ Subject(w) = a

\* Mutant: every reservation that raises no error counts as fresh.
Reserve_AlwaysFresh(w) ==
    /\ step[w] = "begun"
    /\ ~ KeyHeld(Subject(w))
    /\ Goto(w, "fresh")
    /\ UNCHANGED <<streamVars, effectVars, faults>>

Reserve(w) ==
    /\ step[w] = "begun"
    /\ ~ KeyHeld(Subject(w))
    /\ Goto(w, IF Subject(w) \in keys THEN "done" ELSE "fresh")
    /\ UNCHANGED <<streamVars, effectVars, faults>>

\* The key and the work become visible together.
Commit(w) ==
    /\ step[w] = "fresh"
    /\ keys' = keys \cup {Subject(w)}
    /\ runs' = [runs EXCEPT ![Subject(w)] = IF @ < MaxRuns THEN @ + 1 ELSE @]
    /\ UNCHANGED <<refused, inbox>>

Succeed(w) ==
    /\ Commit(w)
    /\ Goto(w, "done")
    /\ UNCHANGED <<streamVars, faults>>

\* A classified refusal rolls back, is answered, and counts as handled.
Refuse(w) ==
    /\ step[w] \in {"begun", "fresh"}
    /\ refused' = refused \cup {Subject(w)}
    /\ Goto(w, "done")
    /\ UNCHANGED <<streamVars, keys, runs, inbox, faults>>

\* Any other error is a NAK.  The transaction rolled back, or it committed
\* and the answer was lost, or the work was done and the reply failed.
Nak(w) ==
    /\ \/ step[w] \in {"begun", "fresh", "done"} /\ UNCHANGED effectVars
       \/ Commit(w)
    /\ Fault
    /\ Redeliver(task[w])
    /\ Release(w)

\* Completion is recorded after the work; a failure here is only logged.
MarkProcessed(w) ==
    /\ step[w] = "done"
    /\ \/ inbox' = inbox \cup {Subject(w)} /\ NoFault
       \/ UNCHANGED inbox /\ Fault
    /\ Goto(w, "recorded")
    /\ UNCHANGED <<streamVars, keys, runs, refused>>

\* The ack may not reach the server: the copy stays delivered.
Acknowledge(w) ==
    /\ step[w] = "recorded"
    /\ \/ Ack(task[w]) /\ NoFault
       \/ UNCHANGED streamVars /\ Fault
    /\ Release(w)
    /\ UNCHANGED effectVars

\* The process dies; its transaction, if open, rolls back.
WorkerCrash(w) ==
    /\ step[w] # "idle"
    /\ Fault
    /\ Release(w)
    /\ UNCHANGED <<streamVars, effectVars>>

Unattended(c) == \A w \in Worker : task[w] # c

\* Nobody acknowledged in time, whether or not someone still works on it.
AckWaitExpires(c) ==
    /\ copy[c] = "delivered"
    /\ IF Unattended(c) THEN NoFault ELSE Fault
    /\ Redeliver(c)
    /\ UNCHANGED <<workerVars, effectVars>>

----------------------------------------------------------------------------
Handle(w) ==
    \/ Reserve(w) \/ Succeed(w) \/ Refuse(w) \/ Nak(w)
    \/ MarkProcessed(w) \/ Acknowledge(w)

ConsumerNext ==
    \/ \E w \in Worker : Handle(w) \/ WorkerCrash(w) \/ \E c \in Slot : Take(w, c)
    \/ \E c \in Slot : AckWaitExpires(c)
=============================================================================
