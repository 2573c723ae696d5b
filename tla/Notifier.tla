------------------------------ MODULE Notifier ------------------------------
(***************************************************************************)
(* cmd/notifier and the gateway's notice side: one event's durable         *)
(* consumer, which tells a player what happened and then records that it   *)
(* did (internal/workers/notification, cmd/gateway/notify.go).  Telling is *)
(* a Telegram message through a bot, or an item stored in the player's     *)
(* inbox; neither can be taken back or is idempotent.                      *)
(***************************************************************************)
EXTENDS Outbox

CONSTANTS
    Notifier,     \* concurrent handler calls of all cmd/notifier processes
    Mute,         \* events announced to nobody: nothing to render, too old
    Unreachable,  \* events of players no bot can reach
    NoTask

ASSUME NotifierConstants ==
    /\ IsFiniteSet(Notifier)
    /\ Mute \subseteq Event /\ Unreachable \subseteq Event \ Mute
    /\ NoTask \notin EventStream!Slot

VARIABLES
    task,     \* the delivery a notifier handles
    stage,    \* how far it is
    inbox,    \* inbox_messages: the events recorded as notified
    told,     \* how often each event reached its player
    excuses   \* history: how often a telling was left unrecorded, or a
              \* delivery was repeated while it was still being handled

taskVars == <<task, stage>>
noticeVars == <<inbox, told, excuses>>
notifierVars == <<taskVars, noticeVars>>

NotifierTypeOK ==
    /\ task \in [Notifier -> EventStream!Slot \cup {NoTask}]
    /\ stage \in [Notifier -> {"idle", "begun", "telling", "told", "done"}]
    /\ inbox \in SUBSET Event
    /\ told \in [Event -> Nat]
    /\ excuses \in [Event -> Nat]

NotifierInit ==
    /\ task = [n \in Notifier |-> NoTask]
    /\ stage = [n \in Notifier |-> "idle"]
    /\ inbox = {}
    /\ told = [e \in Event |-> 0]
    /\ excuses = [e \in Event |-> 0]

----------------------------------------------------------------------------
Subject(n) == task[n][1]

Goto(n, s) == stage' = [stage EXCEPT ![n] = s] /\ UNCHANGED task
Release(n) ==
    /\ task' = [task EXCEPT ![n] = NoTask]
    /\ stage' = [stage EXCEPT ![n] = "idle"]
Excuse(e) == excuses' = [excuses EXCEPT ![e] = @ + 1]

Take(n, c) ==
    /\ stage[n] = "idle"
    /\ EventStream!Deliver(c)
    /\ task' = [task EXCEPT ![n] = c]
    /\ stage' = [stage EXCEPT ![n] = "begun"]
    /\ UNCHANGED <<noticeVars, faults>>

\* Mutant: the inbox is not asked.
CheckInbox_Ignored(n) ==
    /\ stage[n] = "begun"
    /\ Goto(n, IF Subject(n) \in Mute THEN "done" ELSE "telling")
    /\ UNCHANGED <<eventVars, noticeVars, faults>>

\* Processed: an event already recorded, or with nothing to tell, is done.
CheckInbox(n) ==
    /\ stage[n] = "begun"
    /\ Goto(n, IF Subject(n) \in Mute \cup inbox THEN "done" ELSE "telling")
    /\ UNCHANGED <<eventVars, noticeVars, faults>>

\* The gateway's receipt says delivered, the item is stored, or no bot is left
\* to try: either way the event is handled.
Tell(n) ==
    /\ stage[n] = "telling"
    /\ told' = [told EXCEPT ![Subject(n)] =
                  IF Subject(n) \in Unreachable THEN @ ELSE @ + 1]
    /\ Goto(n, "told")
    /\ UNCHANGED <<eventVars, inbox, excuses, faults>>

\* An error before anything was sent, or no receipt, an expired or a failed
\* one for what may have been delivered: the event is retried from the top.
Nak(n) ==
    /\ EventStream!Fault
    /\ \/ stage[n] \in {"begun", "telling"} /\ UNCHANGED noticeVars
       \/ /\ stage[n] = "telling"
          /\ Subject(n) \notin Unreachable
          /\ told' = [told EXCEPT ![Subject(n)] = @ + 1]
          /\ Excuse(Subject(n))
          /\ UNCHANGED inbox
    /\ EventStream!Redeliver(task[n])
    /\ Release(n)

\* Recorded after it was told; a failure here is only logged.
MarkProcessed(n) ==
    /\ stage[n] = "told"
    /\ \/ inbox' = inbox \cup {Subject(n)} /\ UNCHANGED excuses /\ EventStream!NoFault
       \/ UNCHANGED inbox /\ Excuse(Subject(n)) /\ EventStream!Fault
    /\ Goto(n, "done")
    /\ UNCHANGED <<eventVars, told>>

\* The ack may not reach the server.
Acknowledge(n) ==
    /\ stage[n] = "done"
    /\ \/ EventStream!Ack(task[n]) /\ EventStream!NoFault
       \/ UNCHANGED eventVars /\ EventStream!Fault
    /\ Release(n)
    /\ UNCHANGED noticeVars

NotifierCrash(n) ==
    /\ stage[n] # "idle"
    /\ EventStream!Fault
    /\ IF stage[n] = "told" THEN Excuse(Subject(n)) ELSE UNCHANGED excuses
    /\ Release(n)
    /\ UNCHANGED <<eventVars, inbox, told>>

\* Nobody acknowledged in time.  A send ends before its ack wait (SendBudget),
\* so a handler that is still at it was held up elsewhere.
AckWaitExpires(c) ==
    /\ copy[c] = "delivered"
    /\ IF \A n \in Notifier : task[n] # c
       THEN EventStream!NoFault /\ UNCHANGED excuses
       ELSE EventStream!Fault /\ Excuse(c[1])
    /\ EventStream!Redeliver(c)
    /\ UNCHANGED <<taskVars, inbox, told>>

----------------------------------------------------------------------------
Notify(n) == CheckInbox(n) \/ Tell(n) \/ Nak(n) \/ MarkProcessed(n) \/ Acknowledge(n)

NotifierNext ==
    \/ \E n \in Notifier :
         Notify(n) \/ NotifierCrash(n) \/ \E c \in EventStream!Slot : Take(n, c)
    \/ \E c \in EventStream!Slot : AckWaitExpires(c)
=============================================================================
