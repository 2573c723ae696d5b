--------------------------- MODULE NoticePipeline ---------------------------
(***************************************************************************)
(* From the transaction in which something happened to the player who is   *)
(* told of it: outbox, relays, event stream and notifiers together.        *)
(***************************************************************************)
EXTENDS Notifier

vars == <<outboxVars, notifierVars>>

Init == OutboxInit /\ NotifierInit

ByOutbox(A) == A /\ UNCHANGED notifierVars
ByNotifier(A) == A /\ UNCHANGED <<row, relayVars>>

Next == ByOutbox(OutboxNext) \/ ByNotifier(NotifierNext)

Spec == Init /\ [][Next]_vars

(* Processes run and are restarted, and the stream offers what waits and   *)
(* what was abandoned.  Nothing is asked of handlers, time or faults.      *)
FairSpec ==
    /\ Spec
    /\ \A r \in Relay : WF_vars(ByOutbox(Relaying(r)))
    /\ \A n \in Notifier : WF_vars(ByNotifier(Notify(n)))
    /\ \A c \in EventStream!Slot :
        /\ WF_vars(ByNotifier(\E n \in Notifier : Take(n, c)))
        /\ WF_vars(ByNotifier((\A n \in Notifier : task[n] # c) /\ AckWaitExpires(c)))

(* Everything has its type.                                                *)
TypeOK == OutboxTypeOK /\ NotifierTypeOK

----------------------------------------------------------------------------
Copies(e) == {k \in 1 .. MaxCopies : copy[<<e, k>>] # "free"}
Handled(e) == told[e] > 0 \/ e \in Mute \cup Unreachable

(* A row says published only if a copy of its event still waits, is being  *)
(* handled, was told to its player, or is dead after MaxDeliver attempts.  *)
PublishedIsCarried ==
    \A e \in Event : row[e] = "published" =>
        \/ Handled(e)
        \/ \E k \in Copies(e) : copy[<<e, k>>] # "acked"

(* The notification package's account of duplicates: beyond one telling    *)
(* for each copy the stream stored, a player is told again only for a      *)
(* telling that went unrecorded (a crash, a lost receipt, a failed inbox   *)
(* write) or a delivery repeated while it was being handled.               *)
RepeatsAreExcused ==
    \A e \in Event : told[e] > 0 => told[e] <= Cardinality(Copies(e)) + excuses[e]

(* Whatever restarts or fails, what happened is told in the end, if fewer  *)
(* than MaxDeliver things go wrong.                                        *)
HappenedIsTold == \A e \in Event : row[e] = "pending" ~> Handled(e)
=============================================================================
