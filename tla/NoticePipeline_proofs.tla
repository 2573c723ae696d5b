----------------------- MODULE NoticePipeline_proofs -----------------------
(***************************************************************************)
(* Theorems about the way of a notice: nothing that is marked published is *)
(* lost, and every repeat has its excuse.                                  *)
(***************************************************************************)
EXTENDS NoticePipeline, FiniteSetTheorems, TLAPS

LEMMA NoticeConstants ==
    /\ MaxCopies \in Nat /\ MaxDeliver \in Nat /\ DuplicateWindow \in Nat /\ MaxFaults \in Nat
    /\ IsFiniteSet(Notifier) /\ IsFiniteSet(1 .. MaxCopies)
    /\ NoTask \notin EventStream!Slot
<1>1. {MaxCopies, MaxDeliver} \subseteq Nat /\ {DuplicateWindow, MaxFaults} \subseteq Nat
  BY OutboxConstants
<1>2. MaxCopies \in Nat /\ MaxDeliver \in Nat /\ DuplicateWindow \in Nat /\ MaxFaults \in Nat
  BY <1>1
<1> QED BY <1>2, NotifierConstants, FS_Interval

----------------------------------------------------------------------------
(* Types.                                                                  *)

BusyHasTask ==
    \A n \in Notifier :
        /\ stage[n] # "idle" => task[n] \in EventStream!Slot
        /\ stage[n] = "idle" => task[n] = NoTask

Typed == TypeOK /\ BusyHasTask

LEMMA SubjectIsEvent ==
    ASSUME Typed, NEW n \in Notifier, stage[n] # "idle"
    PROVE  /\ task[n] \in EventStream!Slot /\ Subject(n) \in Event
           /\ \E k \in 1 .. MaxCopies : task[n] = <<Subject(n), k>>
BY DEF Typed, BusyHasTask, Subject, EventStream!Slot

\* What a publication does to the stream, if it does anything.
LEMMA Accepted ==
    ASSUME TypeOK, NEW e \in Event, EventStream!Accept(e) \/ UNCHANGED eventVars
    PROVE  /\ EventStream!StreamTypeOK'
           /\ \A c \in EventStream!Slot :
                copy'[c] = copy[c] \/ (copy[c] = "free" /\ copy'[c] = "waiting")
           /\ \A f \in Event : window'[f] > 0 => window[f] > 0 \/ f = e
           /\ EventStream!Accept(e) \/ window'[e] > 0 =>
                window[e] > 0 \/ \E k \in 1 .. MaxCopies : copy'[<<e, k>>] # "free"
<1> USE DEF TypeOK, OutboxTypeOK, EventStream!StreamTypeOK, EventStream!CopyState
<1>1. CASE UNCHANGED eventVars /\ ~ EventStream!Accept(e)
  BY <1>1 DEF eventVars
<1>2. CASE EventStream!Accept(e) /\ window[e] > 0
  BY <1>2 DEF EventStream!Accept
<1>3. CASE EventStream!Accept(e) /\ window[e] = 0
  <2>1. PICK k \in 1 .. MaxCopies :
           copy[<<e, k>>] = "free" /\ copy' = [copy EXCEPT ![<<e, k>>] = "waiting"]
    BY <1>3 DEF EventStream!Accept
  <2>2. tries' = tries /\ window' = [window EXCEPT ![e] = DuplicateWindow]
    BY <1>3 DEF EventStream!Accept
  <2>3. <<e, k>> \in EventStream!Slot
    BY DEF EventStream!Slot
  <2>4. copy'[<<e, k>>] # "free"
    BY <2>1, <2>3
  <2>5. /\ copy' \in [EventStream!Slot -> EventStream!CopyState]
        /\ \A c \in EventStream!Slot :
             copy'[c] = copy[c] \/ (copy[c] = "free" /\ copy'[c] = "waiting")
    BY <2>1, <2>3
  <2>6. /\ window' \in [Event -> 0 .. DuplicateWindow]
        /\ \A f \in Event : window'[f] > 0 => window[f] > 0 \/ f = e
    BY <2>2, NoticeConstants
  <2> QED BY <2>2, <2>4, <2>5, <2>6
<1>4. window[e] \in Nat
  BY NoticeConstants
<1> QED BY <1>1, <1>2, <1>3, <1>4

LEMMA OutboxTyped ==
    ASSUME Typed, ByOutbox(OutboxNext)
    PROVE  Typed'
<1> USE DEF Typed, TypeOK, OutboxTypeOK, EventStream!FaultTypeOK, EventStream!Fault, EventStream!NoFault
<1>0. NotifierTypeOK' /\ BusyHasTask'
  BY DEF ByOutbox, notifierVars, taskVars, noticeVars, NotifierTypeOK, BusyHasTask
<1>1. ASSUME NEW e \in Event, Append(e) PROVE OutboxTypeOK'
  BY <1>1 DEF Append, relayVars, eventVars, EventStream!StreamTypeOK
<1>2. ASSUME NEW r \in Relay, Relaying(r) \/ RelayCrash(r) PROVE OutboxTypeOK'
  <2>1. CASE Claim(r)
    BY <2>1 DEF Claim, eventVars, EventStream!StreamTypeOK
  <2>2. CASE Claimed(r)
    BY <2>2 DEF Claimed, eventVars, EventStream!StreamTypeOK
  <2>3. CASE ClaimFails(r)
    BY <2>3, NoticeConstants DEF ClaimFails, eventVars, EventStream!StreamTypeOK
  <2>4. CASE MarkPublished(r)
    <3>1. row' \in [Event -> {"absent", "pending", "published"}]
      BY <2>4 DEF MarkPublished
    <3>2. faults' \in 0 .. MaxFaults
      BY <2>4, NoticeConstants DEF MarkPublished
    <3> QED BY <2>4, <3>1, <3>2 DEF MarkPublished, eventVars, EventStream!StreamTypeOK
  <2>5. CASE RelayRestart(r)
    BY <2>5 DEF RelayRestart, eventVars, EventStream!StreamTypeOK
  <2>6. CASE RelayCrash(r)
    BY <2>6, NoticeConstants DEF RelayCrash, eventVars, EventStream!StreamTypeOK
  <2>7. ASSUME NEW e \in Event, Publish(r, e) PROVE OutboxTypeOK'
    <3>1. EventStream!StreamTypeOK'
      BY <2>7, Accepted DEF Publish
    <3> QED BY <2>7, <3>1 DEF Publish
  <2>8. ASSUME NEW e \in Event, PublishFails(r, e) PROVE OutboxTypeOK'
    <3>1. EventStream!StreamTypeOK'
      BY <2>8, Accepted DEF PublishFails
    <3> QED BY <2>8, <3>1, NoticeConstants DEF PublishFails
  <2> QED BY <1>2, <2>1, <2>2, <2>3, <2>4, <2>5, <2>6, <2>7, <2>8 DEF Relaying
<1>3. ASSUME Forget PROVE OutboxTypeOK'
  <2>1. EventStream!StreamTypeOK'
    BY <1>3, NoticeConstants DEF Forget, EventStream!AgeWindow, EventStream!StreamTypeOK
  <2> QED BY <1>3, <2>1 DEF Forget, relayVars
<1>4. OutboxTypeOK'
  BY <1>1, <1>2, <1>3 DEF ByOutbox, OutboxNext
<1> QED BY <1>0, <1>4

\* What the notifiers do to the stream: no copy comes or goes.
LEMMA Handling ==
    ASSUME Typed, ByNotifier(NotifierNext)
    PROVE  /\ EventStream!StreamTypeOK' /\ window' = window
           /\ \A c \in EventStream!Slot : copy[c] # "free" => copy'[c] # "free"
<1> USE DEF Typed, TypeOK, OutboxTypeOK, EventStream!StreamTypeOK, EventStream!CopyState
<1> DEFINE Kept == /\ EventStream!StreamTypeOK' /\ window' = window
                   /\ \A b \in EventStream!Slot : copy[b] # "free" => copy'[b] # "free"
<1>1. ASSUME NEW c, EventStream!Redeliver(c) \/ EventStream!Ack(c) \/ EventStream!Deliver(c)
             \/ UNCHANGED eventVars
      PROVE  Kept
  <2>1. CASE EventStream!Redeliver(c)
    BY <2>1 DEF EventStream!Redeliver
  <2>2. CASE EventStream!Ack(c)
    BY <2>2 DEF EventStream!Ack
  <2>3. CASE EventStream!Deliver(c)
    <3>1. tries[c] < MaxDeliver /\ tries' = [tries EXCEPT ![c] = @ + 1]
      BY <2>3 DEF EventStream!Deliver
    <3>2. tries' \in [EventStream!Slot -> 0 .. MaxDeliver]
      <4>1. ASSUME NEW b \in EventStream!Slot PROVE tries'[b] \in 0 .. MaxDeliver
        <5>1. tries[b] \in 0 .. MaxDeliver
          OBVIOUS
        <5>2. tries'[b] = IF b = c THEN tries[b] + 1 ELSE tries[b]
          BY <3>1
        <5> QED BY <3>1, <5>1, <5>2, NoticeConstants
      <4> QED BY <3>1, <4>1
    <3> QED BY <2>3, <3>2 DEF EventStream!Deliver
  <2>4. CASE UNCHANGED eventVars
    BY <2>4 DEF eventVars
  <2> QED BY <1>1, <2>1, <2>2, <2>3, <2>4
<1>2. \E c : EventStream!Redeliver(c) \/ EventStream!Ack(c) \/ EventStream!Deliver(c)
             \/ UNCHANGED eventVars
  BY DEF ByNotifier, NotifierNext, Notify, CheckInbox, Tell, Nak, MarkProcessed, Acknowledge,
     NotifierCrash, Take, AckWaitExpires
<1> QED BY <1>1, <1>2

LEMMA NotifierTyped ==
    ASSUME Typed, ByNotifier(NotifierNext)
    PROVE  Typed'
<1> USE DEF Typed, TypeOK, OutboxTypeOK, EventStream!FaultTypeOK, EventStream!Fault,
            EventStream!NoFault, NotifierTypeOK, BusyHasTask, Goto, Release, Excuse
<1>0. /\ EventStream!StreamTypeOK'
      /\ row' = row /\ pass' = pass /\ pending' = pending /\ published' = published
  BY Handling DEF ByNotifier, relayVars
<1> DEFINE Fits == NotifierTypeOK' /\ BusyHasTask' /\ faults' \in 0 .. MaxFaults
<1>1. ASSUME NEW n \in Notifier, NEW c \in EventStream!Slot, Take(n, c) PROVE Fits
  BY <1>1, NoticeConstants DEF Take, noticeVars
<1>2. ASSUME NEW n \in Notifier, CheckInbox(n) PROVE Fits
  BY <1>2 DEF CheckInbox, noticeVars
<1>3. ASSUME NEW n \in Notifier, Tell(n) PROVE Fits
  BY <1>3, SubjectIsEvent DEF Tell
<1>4. ASSUME NEW n \in Notifier, Nak(n) PROVE Fits
  <2>1. stage[n] # "idle" /\ faults' \in 0 .. MaxFaults
    BY <1>4, NoticeConstants DEF Nak
  <2>2. told' \in [Event -> Nat] /\ excuses' \in [Event -> Nat] /\ inbox' = inbox
    BY <1>4, <2>1, SubjectIsEvent DEF Nak, noticeVars
  <2> QED BY <1>4, <2>1, <2>2 DEF Nak
<1>5. ASSUME NEW n \in Notifier, MarkProcessed(n) PROVE Fits
  <2>1. stage[n] # "idle" /\ faults' \in 0 .. MaxFaults
    BY <1>5, NoticeConstants DEF MarkProcessed
  <2>2. inbox' \in SUBSET Event /\ excuses' \in [Event -> Nat] /\ told' = told
    BY <1>5, <2>1, SubjectIsEvent DEF MarkProcessed
  <2> QED BY <1>5, <2>1, <2>2 DEF MarkProcessed
<1>6. ASSUME NEW n \in Notifier, Acknowledge(n) PROVE Fits
  <2>1. faults' \in 0 .. MaxFaults
    BY <1>6, NoticeConstants DEF Acknowledge
  <2> QED BY <1>6, <2>1 DEF Acknowledge, noticeVars
<1>7. ASSUME NEW n \in Notifier, NotifierCrash(n) PROVE Fits
  <2>1. faults' \in 0 .. MaxFaults
    BY <1>7, NoticeConstants DEF NotifierCrash
  <2>2. excuses' \in [Event -> Nat]
    BY <1>7, SubjectIsEvent DEF NotifierCrash
  <2> QED BY <1>7, <2>1, <2>2 DEF NotifierCrash
<1>8. ASSUME NEW c \in EventStream!Slot, AckWaitExpires(c) PROVE Fits
  <2>1. c[1] \in Event
    BY DEF EventStream!Slot
  <2>2. CASE \A n \in Notifier : task[n] # c
    BY <1>8, <2>2 DEF AckWaitExpires, taskVars
  <2>3. CASE \E n \in Notifier : task[n] = c
    <3>1. faults < MaxFaults /\ faults' = faults + 1
      BY <1>8, <2>3 DEF AckWaitExpires
    <3>2. excuses' = [excuses EXCEPT ![c[1]] = @ + 1]
      BY <1>8, <2>3 DEF AckWaitExpires
    <3>3. faults' \in 0 .. MaxFaults
      BY <3>1, NoticeConstants
    <3>4. excuses' \in [Event -> Nat]
      BY <3>2, <2>1
    <3> QED BY <1>8, <3>3, <3>4 DEF AckWaitExpires, taskVars
  <2> QED BY <2>2, <2>3
<1>9. Fits
  BY <1>1, <1>2, <1>3, <1>4, <1>5, <1>6, <1>7, <1>8 DEF ByNotifier, NotifierNext, Notify
<1> QED BY <1>0, <1>9

LEMMA TypedInit == Init => Typed
BY NoticeConstants DEF Init, OutboxInit, NotifierInit, EventStream!StreamInit, Typed, TypeOK, OutboxTypeOK,
   EventStream!StreamTypeOK, EventStream!FaultTypeOK, EventStream!CopyState, NotifierTypeOK, BusyHasTask

LEMMA TypedStep == Typed /\ [Next]_vars => Typed'
<1>1. Typed /\ UNCHANGED vars => Typed'
  BY DEF vars, outboxVars, notifierVars, relayVars, eventVars, taskVars, noticeVars, Typed, TypeOK,
     OutboxTypeOK, EventStream!StreamTypeOK, EventStream!FaultTypeOK, NotifierTypeOK, BusyHasTask
<1> QED BY <1>1, OutboxTyped, NotifierTyped DEF Next

\* Every variable of the way of a notice keeps its type.
THEOREM NoticesAreTyped == Spec => []TypeOK
<1>1. Typed => TypeOK
  BY DEF Typed
<1> QED BY <1>1, TypedInit, TypedStep, PTL DEF Spec

----------------------------------------------------------------------------
(* What is marked published is carried.                                    *)

Stored(e) == \E k \in 1 .. MaxCopies : copy[<<e, k>>] # "free"

\* What a relay, the deduplication window and the outbox take for stored is.
SentIsStored == \A r \in Relay : \A e \in published[r] : Stored(e)
RememberedIsStored == \A e \in Event : window[e] > 0 => Stored(e)
PublishedIsStored == \A e \in Event : row[e] = "published" => Stored(e)

\* What a notifier, the inbox and the stream take for handled is.
AckedIsHandled == \A c \in EventStream!Slot : copy[c] = "acked" => Handled(c[1])
DoneIsHandled == \A n \in Notifier : stage[n] \in {"told", "done"} => Handled(Subject(n))
InboxIsHandled == \A e \in inbox : Handled(e)

CarriedInv ==
    /\ Typed
    /\ SentIsStored /\ RememberedIsStored /\ PublishedIsStored
    /\ AckedIsHandled /\ DoneIsHandled /\ InboxIsHandled

LEMMA StoredStays ==
    ASSUME NEW e \in Event, Stored(e),
           \A c \in EventStream!Slot : copy[c] # "free" => copy'[c] # "free"
    PROVE  Stored(e)'
<1>1. PICK k \in 1 .. MaxCopies : copy[<<e, k>>] # "free"
  BY DEF Stored
<1>2. copy'[<<e, k>>] # "free"
  BY <1>1 DEF EventStream!Slot
<1> QED BY <1>2 DEF Stored

LEMMA CarriedInit == Init => CarriedInv
<1> SUFFICES ASSUME Init PROVE CarriedInv
  OBVIOUS
<1>1. Typed
  BY TypedInit
<1>2. SentIsStored /\ RememberedIsStored /\ PublishedIsStored
  BY DEF Init, OutboxInit, EventStream!StreamInit, SentIsStored, RememberedIsStored, PublishedIsStored
<1>3. AckedIsHandled /\ DoneIsHandled /\ InboxIsHandled
  BY DEF Init, OutboxInit, NotifierInit, EventStream!StreamInit, AckedIsHandled, DoneIsHandled,
     InboxIsHandled
<1> QED BY <1>1, <1>2, <1>3 DEF CarriedInv

\* A step of the outbox that leaves the stream as it is or publishes e.
LEMMA OutboxCarries ==
    ASSUME CarriedInv, ByOutbox(OutboxNext)
    PROVE  CarriedInv'
<1> USE DEF CarriedInv
<1>0. Typed' /\ Typed /\ UNCHANGED notifierVars
  BY OutboxTyped DEF ByOutbox
<1> DEFINE Grows == \A c \in EventStream!Slot :
                      copy'[c] = copy[c] \/ (copy[c] = "free" /\ copy'[c] = "waiting")
           Sent == SentIsStored' /\ RememberedIsStored' /\ PublishedIsStored'
<1>1. ASSUME UNCHANGED <<eventVars, published>>,
             \A e \in Event : row'[e] = "published" => row[e] = "published"
      PROVE  Grows /\ Sent
  BY <1>1 DEF eventVars, SentIsStored, RememberedIsStored, PublishedIsStored, Stored, Typed, TypeOK,
     OutboxTypeOK
<1>2. ASSUME NEW e \in Event, Append(e) PROVE Grows /\ Sent
  BY <1>1, <1>2 DEF Append, relayVars, Typed, TypeOK, OutboxTypeOK
<1>3. ASSUME NEW r \in Relay,
             Claim(r) \/ Claimed(r) \/ ClaimFails(r) \/ RelayRestart(r)
      PROVE  Grows /\ Sent
  BY <1>1, <1>3 DEF Claim, Claimed, ClaimFails, RelayRestart
<1>4. ASSUME NEW r \in Relay, RelayCrash(r) PROVE Grows /\ Sent
  <2>1. Grows /\ row' = row /\ copy' = copy /\ window' = window
    BY <1>4 DEF RelayCrash, eventVars
  <2>2. \A q \in Relay : published'[q] \subseteq published[q]
    BY <1>4, <1>0 DEF RelayCrash, Typed, TypeOK, OutboxTypeOK
  <2> QED BY <2>1, <2>2 DEF SentIsStored, RememberedIsStored, PublishedIsStored, Stored
<1>5. ASSUME NEW r \in Relay, MarkPublished(r) PROVE Grows /\ Sent
  <2>1. Grows /\ copy' = copy /\ window' = window
    BY <1>5 DEF MarkPublished, eventVars
  <2>2. \A q \in Relay : published'[q] \subseteq published[q]
    BY <1>5, <1>0 DEF MarkPublished, Typed, TypeOK, OutboxTypeOK
  <2>3. \A e \in Event : row'[e] = "published" => row[e] = "published" \/ e \in published[r]
    BY <1>5 DEF MarkPublished
  <2> QED BY <2>1, <2>2, <2>3 DEF SentIsStored, RememberedIsStored, PublishedIsStored, Stored
<1>6. ASSUME NEW r \in Relay, NEW e \in Event, Publish(r, e) \/ PublishFails(r, e)
      PROVE  Grows /\ Sent
  <2>1. EventStream!Accept(e) \/ UNCHANGED eventVars
    BY <1>6 DEF Publish, PublishFails
  <2>2. /\ Grows
        /\ \A f \in Event : window'[f] > 0 => window[f] > 0 \/ f = e
        /\ EventStream!Accept(e) \/ window'[e] > 0 => window[e] > 0 \/ Stored(e)'
    BY <1>0, <2>1, Accepted DEF Typed, Stored
  <2>3. \A f \in Event : Stored(f) => Stored(f)'
    BY <2>2, StoredStays
  <2>4. row' = row
    BY <1>6 DEF Publish, PublishFails
  <2>5. \A q \in Relay : \A f \in published'[q] :
            f \in published[q] \/ (f = e /\ EventStream!Accept(e))
    BY <1>6, <1>0 DEF Publish, PublishFails, Typed, TypeOK, OutboxTypeOK
  <2>6. PublishedIsStored'
    BY <2>3, <2>4 DEF PublishedIsStored
  <2>7. RememberedIsStored'
    BY <2>2, <2>3 DEF RememberedIsStored
  <2>8. EventStream!Accept(e) => Stored(e)'
    BY <2>2, <2>3 DEF RememberedIsStored
  <2>9. SentIsStored'
    BY <2>3, <2>5, <2>8, <1>0 DEF SentIsStored, Typed, TypeOK, OutboxTypeOK
  <2> QED BY <2>2, <2>6, <2>7, <2>9
<1>7. ASSUME Forget PROVE Grows /\ Sent
  <2>1. Grows /\ row' = row /\ published' = published /\ copy' = copy
    BY <1>7 DEF Forget, EventStream!AgeWindow, relayVars
  <2>2. \A e \in Event : window'[e] > 0 => window[e] > 0
    BY <1>7 DEF Forget, EventStream!AgeWindow
  <2> QED BY <2>1, <2>2 DEF SentIsStored, RememberedIsStored, PublishedIsStored, Stored
<1>8. Grows /\ Sent
  BY <1>2, <1>3, <1>4, <1>5, <1>6, <1>7 DEF ByOutbox, OutboxNext, Relaying
<1>9. /\ told' = told /\ stage' = stage /\ task' = task /\ inbox' = inbox
      /\ \A e : Handled(e)' = Handled(e)
  BY <1>0 DEF notifierVars, taskVars, noticeVars, Handled
<1>10. AckedIsHandled'
  BY <1>8, <1>9 DEF AckedIsHandled
<1>11. DoneIsHandled' /\ InboxIsHandled'
  BY <1>9 DEF DoneIsHandled, InboxIsHandled, Subject
<1> QED BY <1>0, <1>8, <1>10, <1>11

LEMMA NotifierCarries ==
    ASSUME CarriedInv, ByNotifier(NotifierNext)
    PROVE  CarriedInv'
<1> USE DEF CarriedInv
<1>0. /\ Typed' /\ Typed /\ row' = row /\ published' = published /\ window' = window
      /\ \A c \in EventStream!Slot : copy[c] # "free" => copy'[c] # "free"
  BY NotifierTyped, Handling DEF ByNotifier, relayVars
<1>1. \A e \in Event : Stored(e) => Stored(e)'
  BY <1>0, StoredStays
<1>2. SentIsStored' /\ RememberedIsStored' /\ PublishedIsStored'
  BY <1>0, <1>1 DEF SentIsStored, RememberedIsStored, PublishedIsStored, Typed, TypeOK, OutboxTypeOK
<1> DEFINE Handles == AckedIsHandled' /\ DoneIsHandled' /\ InboxIsHandled'
<1> USE DEF Typed, TypeOK, NotifierTypeOK, Goto, Release, Excuse
<1>3. ASSUME told' = told, inbox' = inbox,
             \A c \in EventStream!Slot : copy'[c] = "acked" => copy[c] = "acked",
             \A n \in Notifier : stage'[n] \in {"told", "done"} =>
                 stage[n] \in {"told", "done"} /\ task'[n] = task[n]
      PROVE  Handles
  BY <1>3 DEF AckedIsHandled, DoneIsHandled, InboxIsHandled, Handled, Subject
<1>4. ASSUME NEW n \in Notifier, NEW c \in EventStream!Slot, Take(n, c) PROVE Handles
  BY <1>3, <1>4 DEF Take, EventStream!Deliver, noticeVars
<1>5. ASSUME NEW n \in Notifier, CheckInbox(n) PROVE Handles
  <2>1. /\ copy' = copy /\ told' = told /\ inbox' = inbox /\ task' = task
        /\ \A e : Handled(e)' = Handled(e)
    BY <1>5 DEF CheckInbox, eventVars, noticeVars, Handled
  <2>2. \A m \in Notifier : m # n => stage'[m] = stage[m]
    BY <1>5 DEF CheckInbox
  <2>3. stage'[n] \in {"told", "done"} => Subject(n) \in Mute \cup inbox
    BY <1>5 DEF CheckInbox
  <2>4. stage'[n] \in {"told", "done"} => Handled(Subject(n))
    BY <2>3 DEF Handled, InboxIsHandled
  <2> QED BY <2>1, <2>2, <2>4 DEF AckedIsHandled, DoneIsHandled, InboxIsHandled, Subject
<1>6. ASSUME NEW n \in Notifier, Tell(n) PROVE Handles
  <2>1. /\ Subject(n) \in Event /\ copy' = copy /\ inbox' = inbox /\ task' = task
        /\ told' = [told EXCEPT ![Subject(n)] =
                      IF Subject(n) \in Unreachable THEN @ ELSE @ + 1]
    BY <1>6, SubjectIsEvent DEF Tell, eventVars
  <2>2. \A e : e \in Event /\ Handled(e) => Handled(e)'
    BY <2>1 DEF Handled
  <2>3. Handled(Subject(n))'
    BY <2>1 DEF Handled, Subject
  <2>4. \A m \in Notifier : m # n => stage'[m] = stage[m]
    BY <1>6 DEF Tell
  <2>5. AckedIsHandled' /\ InboxIsHandled'
    BY <2>1, <2>2 DEF AckedIsHandled, InboxIsHandled, EventStream!Slot
  <2>6. ASSUME NEW m \in Notifier, stage'[m] \in {"told", "done"} PROVE Handled(Subject(m))'
    <3>1. CASE m = n
      BY <2>3, <3>1
    <3>2. CASE m # n
      <4>1. stage[m] \in {"told", "done"} /\ Subject(m) \in Event
        BY <2>4, <2>6, <3>2, SubjectIsEvent
      <4>2. Handled(Subject(m)) /\ Subject(m)' = Subject(m)
        BY <2>1, <4>1 DEF DoneIsHandled, Subject
      <4> QED BY <2>1, <4>1, <4>2 DEF Handled, Subject
    <3> QED BY <3>1, <3>2
  <2> QED BY <2>5, <2>6 DEF DoneIsHandled
<1>7. ASSUME NEW n \in Notifier, Nak(n) PROVE Handles
  <2>1. inbox' = inbox /\ stage[n] \in {"begun", "telling"}
    BY <1>7 DEF Nak, noticeVars
  <2>2. \A e \in Event : told'[e] = told[e] \/ told'[e] = told[e] + 1
    BY <1>7 DEF Nak, noticeVars
  <2>3. \A e \in Event : Handled(e) => Handled(e)'
    BY <2>2 DEF Handled
  <2>4. \A c \in EventStream!Slot : copy'[c] = "acked" => copy[c] = "acked"
    BY <1>7 DEF Nak, EventStream!Redeliver, OutboxTypeOK, EventStream!StreamTypeOK
  <2>5. \A m \in Notifier : stage'[m] \in {"told", "done"} =>
            /\ stage[m] \in {"told", "done"} /\ task'[m] = task[m] /\ Subject(m) \in Event
    BY <1>7, SubjectIsEvent DEF Nak
  <2>6. AckedIsHandled' /\ InboxIsHandled'
    BY <2>1, <2>3, <2>4 DEF AckedIsHandled, InboxIsHandled, EventStream!Slot
  <2>7. DoneIsHandled'
    BY <2>3, <2>5 DEF DoneIsHandled, Subject
  <2> QED BY <2>6, <2>7
<1>8. ASSUME NEW n \in Notifier, MarkProcessed(n) PROVE Handles
  <2>1. /\ copy' = copy /\ told' = told /\ task' = task
        /\ stage[n] = "told" /\ inbox' \subseteq inbox \cup {Subject(n)}
        /\ \A e : Handled(e)' = Handled(e)
    BY <1>8 DEF MarkProcessed, eventVars, Handled
  <2>2. Handled(Subject(n))
    BY <2>1 DEF DoneIsHandled
  <2>3. \A m \in Notifier : m # n => stage'[m] = stage[m]
    BY <1>8 DEF MarkProcessed
  <2> QED BY <2>1, <2>2, <2>3 DEF AckedIsHandled, DoneIsHandled, InboxIsHandled, Subject
<1>9. ASSUME NEW n \in Notifier, Acknowledge(n) PROVE Handles
  <2>1. /\ told' = told /\ inbox' = inbox /\ stage[n] = "done"
        /\ \A e : Handled(e)' = Handled(e)
    BY <1>9 DEF Acknowledge, noticeVars, Handled
  <2>2. Handled(Subject(n))
    BY <2>1 DEF DoneIsHandled
  <2>3. \A c \in EventStream!Slot : copy'[c] = "acked" => copy[c] = "acked" \/ c = task[n]
    BY <1>9 DEF Acknowledge, EventStream!Ack, eventVars, OutboxTypeOK, EventStream!StreamTypeOK
  <2>4. \A m \in Notifier : stage'[m] \in {"told", "done"} =>
            stage[m] \in {"told", "done"} /\ task'[m] = task[m]
    BY <1>9 DEF Acknowledge
  <2> QED BY <2>1, <2>2, <2>3, <2>4 DEF AckedIsHandled, DoneIsHandled, InboxIsHandled, Subject
<1>10. ASSUME NEW n \in Notifier, NotifierCrash(n) PROVE Handles
  BY <1>3, <1>10 DEF NotifierCrash, eventVars
<1>11. ASSUME NEW c \in EventStream!Slot, AckWaitExpires(c) PROVE Handles
  BY <1>3, <1>11 DEF AckWaitExpires, EventStream!Redeliver, taskVars, OutboxTypeOK,
     EventStream!StreamTypeOK
<1>12. Handles
  BY <1>4, <1>5, <1>6, <1>7, <1>8, <1>9, <1>10, <1>11 DEF ByNotifier, NotifierNext, Notify
<1> QED BY <1>0, <1>2, <1>12

LEMMA CarriedStep == CarriedInv /\ [Next]_vars => CarriedInv'
<1>1. CarriedInv /\ UNCHANGED vars => CarriedInv'
  <2> SUFFICES ASSUME CarriedInv, UNCHANGED vars PROVE CarriedInv'
    OBVIOUS
  <2>1. Typed'
    BY TypedStep DEF CarriedInv
  <2>2. SentIsStored' /\ RememberedIsStored' /\ PublishedIsStored'
    BY DEF vars, outboxVars, relayVars, eventVars, CarriedInv, SentIsStored, RememberedIsStored,
       PublishedIsStored, Stored
  <2>3. AckedIsHandled' /\ DoneIsHandled' /\ InboxIsHandled'
    BY DEF vars, outboxVars, eventVars, notifierVars, taskVars, noticeVars, CarriedInv, AckedIsHandled,
       DoneIsHandled, InboxIsHandled, Handled, Subject
  <2> QED BY <2>1, <2>2, <2>3 DEF CarriedInv
<1> QED BY <1>1, OutboxCarries, NotifierCarries DEF Next

\* A row is marked published only when the event stream carries the event on
\* to its player or gave it up after MaxDeliver attempts.
THEOREM NothingPublishedIsLost == Spec => []PublishedIsCarried
<1>1. CarriedInv => PublishedIsCarried
  <2> SUFFICES ASSUME CarriedInv, NEW e \in Event, row[e] = "published", ~ Handled(e)
               PROVE  \E k \in Copies(e) : copy[<<e, k>>] # "acked"
    BY DEF PublishedIsCarried
  <2>1. PICK k \in 1 .. MaxCopies : copy[<<e, k>>] # "free"
    BY DEF CarriedInv, PublishedIsStored, Stored
  <2>2. <<e, k>> \in EventStream!Slot /\ <<e, k>>[1] = e
    BY DEF EventStream!Slot
  <2>3. copy[<<e, k>>] # "acked"
    BY <2>2 DEF CarriedInv, AckedIsHandled
  <2> QED BY <2>1, <2>3 DEF Copies
<1> QED BY <1>1, CarriedInit, CarriedStep, PTL DEF Spec

----------------------------------------------------------------------------
(* Repeats.  An event that is not recorded yet was told at most once for   *)
(* each excuse and for each delivery under way, less the deliveries whose  *)
(* telling is still to come or that nobody handles any more.  Once it is   *)
(* recorded, only those already past the inbox can tell it again.          *)

Waits(e) ==
    {n \in Notifier : stage[n] \in {"begun", "telling", "done"} /\ Subject(n) = e}
Tellers(e) == {n \in Notifier : stage[n] = "telling" /\ Subject(n) = e}
Delivered(e) == {k \in 1 .. MaxCopies : copy[<<e, k>>] = "delivered"}
Unheld(e) == {k \in Delivered(e) : \A n \in Notifier : task[n] # <<e, k>>}

OpenCount(e) ==
    told[e] + Cardinality(Waits(e)) + Cardinality(Unheld(e))
        <= excuses[e] + Cardinality(Delivered(e))
RecordedCount(e) == told[e] + Cardinality(Tellers(e)) <= excuses[e] + Cardinality(Copies(e))
Balanced(e) == (e \notin inbox => OpenCount(e)) /\ (e \in inbox => RecordedCount(e))
CountInv == \A e \in Event : Balanced(e)

LEMMA CardLe ==
    ASSUME NEW T, IsFiniteSet(T), NEW S \in SUBSET T
    PROVE  Cardinality(S) \in Nat /\ Cardinality(T) \in Nat /\ Cardinality(S) <= Cardinality(T)
BY FS_Subset, FS_CardinalityType

LEMMA CardGrows ==
    ASSUME NEW T, IsFiniteSet(T), NEW S, NEW x, S \subseteq T \cup {x}
    PROVE  Cardinality(S) <= Cardinality(T) + 1
<1>1. /\ IsFiniteSet(T \cup {x}) /\ Cardinality(T) \in Nat
      /\ \/ Cardinality(T \cup {x}) = Cardinality(T)
         \/ Cardinality(T \cup {x}) = Cardinality(T) + 1
  BY FS_AddElement, FS_CardinalityType
<1>2. Cardinality(S) \in Nat /\ Cardinality(S) <= Cardinality(T \cup {x})
  BY <1>1, CardLe
<1> QED BY <1>1, <1>2

LEMMA CardDrop ==
    ASSUME NEW T, IsFiniteSet(T), NEW x \in T, NEW S, S \subseteq T \ {x}
    PROVE  Cardinality(S) + 1 <= Cardinality(T)
<1>1. /\ IsFiniteSet(T \ {x}) /\ Cardinality(T) \in Nat
      /\ Cardinality(T \ {x}) = Cardinality(T) - 1
  BY FS_RemoveElement, FS_CardinalityType
<1>2. Cardinality(S) \in Nat /\ Cardinality(S) <= Cardinality(T \ {x})
  BY <1>1, CardLe
<1> QED BY <1>1, <1>2

Sized(e) ==
    /\ IsFiniteSet(Waits(e)) /\ Cardinality(Waits(e)) \in Nat
    /\ IsFiniteSet(Tellers(e)) /\ Cardinality(Tellers(e)) \in Nat
    /\ IsFiniteSet(Delivered(e)) /\ Cardinality(Delivered(e)) \in Nat
    /\ IsFiniteSet(Unheld(e)) /\ Cardinality(Unheld(e)) \in Nat
    /\ IsFiniteSet(Copies(e)) /\ Cardinality(Copies(e)) \in Nat

\* All that is counted is finite.
LEMMA Counted ==
    ASSUME NEW e \in Event
    PROVE  Sized(e) /\ Sized(e)'
<1>1. /\ Waits(e) \subseteq Notifier /\ Tellers(e) \subseteq Notifier
      /\ Delivered(e) \subseteq 1 .. MaxCopies /\ Copies(e) \subseteq 1 .. MaxCopies
      /\ Unheld(e) \subseteq 1 .. MaxCopies
  BY DEF Waits, Tellers, Delivered, Copies, Unheld
<1>2. /\ Waits(e)' \subseteq Notifier /\ Tellers(e)' \subseteq Notifier
      /\ Delivered(e)' \subseteq 1 .. MaxCopies /\ Copies(e)' \subseteq 1 .. MaxCopies
      /\ Unheld(e)' \subseteq 1 .. MaxCopies
  BY DEF Waits, Tellers, Delivered, Copies, Unheld
<1>3. Sized(e)
  BY <1>1, NoticeConstants, FS_Subset, FS_CardinalityType DEF Sized
<1>4. Sized(e)'
  BY <1>2, NoticeConstants, FS_Subset, FS_CardinalityType DEF Sized
<1> QED BY <1>3, <1>4

\* The counts of an event that a step does not touch, or only excuses.
LEMMA CountStays ==
    ASSUME Typed, Typed', CountInv, NEW e \in Event,
           Waits(e)' \subseteq Waits(e), Unheld(e)' \subseteq Unheld(e),
           e \in inbox => Tellers(e)' \subseteq Tellers(e),
           Delivered(e) \subseteq Delivered(e)', Copies(e) \subseteq Copies(e)',
           told'[e] = told[e], excuses'[e] >= excuses[e], e \in inbox <=> e \in inbox'
    PROVE  Balanced(e)'
<1>1. /\ Cardinality(Waits(e))' <= Cardinality(Waits(e))
      /\ e \in inbox => Cardinality(Tellers(e))' <= Cardinality(Tellers(e))
      /\ Cardinality(Unheld(e))' <= Cardinality(Unheld(e))
  BY Counted, CardLe DEF Sized
<1>2. /\ Cardinality(Delivered(e)) <= Cardinality(Delivered(e))'
      /\ Cardinality(Copies(e)) <= Cardinality(Copies(e))'
  BY Counted, CardLe DEF Sized
<1>3. told[e] \in Nat /\ excuses[e] \in Nat /\ told'[e] \in Nat /\ excuses'[e] \in Nat
  BY DEF Typed, TypeOK, NotifierTypeOK
<1>4. Sized(e) /\ Sized(e)'
  BY Counted
<1>5. CASE e \notin inbox
  BY <1>1, <1>2, <1>3, <1>4, <1>5 DEF CountInv, Balanced, OpenCount, Sized
<1>6. CASE e \in inbox
  BY <1>1, <1>2, <1>3, <1>4, <1>6 DEF CountInv, Balanced, RecordedCount, Sized
<1> QED BY <1>5, <1>6

LEMMA OutboxCounts ==
    ASSUME Typed, CountInv, ByOutbox(OutboxNext)
    PROVE  CountInv'
<1>0. Typed' /\ UNCHANGED notifierVars
  BY OutboxTyped DEF ByOutbox
<1> DEFINE Grows == \A c \in EventStream!Slot :
                      copy'[c] = copy[c] \/ (copy[c] = "free" /\ copy'[c] = "waiting")
<1>1. ASSUME NEW r \in Relay, NEW e \in Event, Publish(r, e) \/ PublishFails(r, e) PROVE Grows
  <2>1. EventStream!Accept(e) \/ UNCHANGED eventVars
    BY <1>1 DEF Publish, PublishFails
  <2> QED BY <2>1, Accepted DEF Typed
<1>2. Grows
  BY <1>1 DEF ByOutbox, OutboxNext, Relaying, Append, Claim, Claimed, ClaimFails, MarkPublished,
     RelayRestart, RelayCrash, Forget, EventStream!AgeWindow, eventVars
<1>3. ASSUME NEW e \in Event PROVE Balanced(e)'
  <2>1. \A k \in 1 .. MaxCopies : <<e, k>> \in EventStream!Slot
    BY DEF EventStream!Slot
  <2>2. Copies(e) \subseteq Copies(e)' /\ Delivered(e)' = Delivered(e)
    BY <1>2, <2>1 DEF Copies, Delivered
  <2>3. Waits(e)' = Waits(e) /\ Tellers(e)' = Tellers(e) /\ Unheld(e)' = Unheld(e)
    BY <1>0, <2>2 DEF Waits, Tellers, Unheld, Subject, notifierVars, taskVars
  <2>4. told' = told /\ excuses' = excuses /\ inbox' = inbox /\ excuses[e] \in Nat
    BY <1>0 DEF notifierVars, noticeVars, Typed, TypeOK, NotifierTypeOK
  <2> QED BY <1>0, <2>2, <2>3, <2>4, CountStays
<1> QED BY <1>3 DEF CountInv

\* The counts of every event but the one whose copy c notifier n handles.
LEMMA Elsewhere ==
    ASSUME Typed, Typed', CountInv, NEW n \in Notifier, NEW c \in EventStream!Slot,
           NEW e \in Event, e # c[1],
           task[n] \in {c, NoTask}, task'[n] \in {c, NoTask},
           \A m \in Notifier \ {n} : task'[m] = task[m] /\ stage'[m] = stage[m],
           \A b \in EventStream!Slot \ {c} : copy'[b] = copy[b],
           told'[e] = told[e], excuses'[e] = excuses[e], e \in inbox <=> e \in inbox'
    PROVE  Balanced(e)'
<1>1. \A k \in 1 .. MaxCopies : <<e, k>> \in EventStream!Slot \ {c} /\ <<e, k>> # NoTask
  BY NoticeConstants DEF EventStream!Slot
<1>2. Delivered(e)' = Delivered(e) /\ Copies(e)' = Copies(e)
  BY <1>1 DEF Delivered, Copies
<1>3. stage'[n] # "idle" => task'[n] = c
  BY NoticeConstants DEF Typed, BusyHasTask
<1>4. Waits(e)' \subseteq Waits(e) /\ Tellers(e)' \subseteq Tellers(e)
  BY <1>3 DEF Waits, Tellers, Subject
<1>5. Unheld(e)' \subseteq Unheld(e)
  <2>1. ASSUME NEW k \in Unheld(e)' PROVE k \in Unheld(e)
    <3>1. k \in Delivered(e) /\ k \in 1 .. MaxCopies
      BY <1>2, <2>1 DEF Unheld, Delivered
    <3>2. ASSUME NEW m \in Notifier PROVE task[m] # <<e, k>>
      BY <1>1, <2>1, <3>1 DEF Unheld
    <3> QED BY <3>1, <3>2 DEF Unheld
  <2> QED BY <2>1
<1>6. excuses[e] \in Nat
  BY DEF Typed, TypeOK, NotifierTypeOK
<1> QED BY <1>2, <1>4, <1>5, <1>6, CountStays

LEMMA TakeCounts ==
    ASSUME Typed, Typed', CountInv, NEW n \in Notifier, NEW c \in EventStream!Slot, Take(n, c)
    PROVE  CountInv'
<1> USE DEF Typed, TypeOK, OutboxTypeOK, EventStream!StreamTypeOK, NotifierTypeOK
<1>1. /\ stage[n] = "idle" /\ copy[c] = "waiting"
      /\ copy' = [copy EXCEPT ![c] = "delivered"]
      /\ task' = [task EXCEPT ![n] = c] /\ stage' = [stage EXCEPT ![n] = "begun"]
      /\ told' = told /\ excuses' = excuses /\ inbox' = inbox
  BY DEF Take, EventStream!Deliver, noticeVars
<1>2. task[n] = NoTask /\ task'[n] = c
  BY <1>1 DEF BusyHasTask
<1>3. ASSUME NEW e \in Event, e # c[1] PROVE Balanced(e)'
  BY <1>1, <1>2, <1>3, Elsewhere
<1>4. ASSUME NEW e \in Event, e = c[1] PROVE Balanced(e)'
  <2>1. PICK k \in 1 .. MaxCopies : c = <<e, k>>
    BY <1>4 DEF EventStream!Slot
  <2>2. k \in Delivered(e)' /\ Delivered(e) \subseteq Delivered(e)' \ {k}
    BY <1>1, <2>1 DEF Delivered, EventStream!Slot
  <2>3. Waits(e)' \subseteq Waits(e) \cup {n} /\ Tellers(e)' \subseteq Tellers(e)
    BY <1>1 DEF Waits, Tellers, Subject
  <2>4. Copies(e) \subseteq Copies(e)'
    BY <1>1, <2>1 DEF Copies, EventStream!Slot
  <2>5. ASSUME NEW j \in Unheld(e)' PROVE j \in Unheld(e)
    <3>1. j \in 1 .. MaxCopies /\ <<e, j>> \in EventStream!Slot /\ copy'[<<e, j>>] = "delivered"
      BY <2>5 DEF Unheld, Delivered, EventStream!Slot
    <3>2. \A m \in Notifier : task'[m] # <<e, j>>
      BY <2>5 DEF Unheld
    <3>3. <<e, j>> # c /\ copy[<<e, j>>] = "delivered"
      BY <1>1, <1>2, <3>1, <3>2
    <3>4. \A m \in Notifier : task[m] # <<e, j>>
      <4>1. NoTask # <<e, j>> /\ task[n] = NoTask
        BY <1>2, <3>1, NoticeConstants
      <4>2. \A m \in Notifier \ {n} : task'[m] = task[m]
        BY <1>1
      <4> QED BY <3>2, <4>1, <4>2
    <3> QED BY <3>1, <3>3, <3>4 DEF Unheld, Delivered
  <2>6. /\ Cardinality(Delivered(e)) + 1 <= Cardinality(Delivered(e))'
        /\ Cardinality(Waits(e))' <= Cardinality(Waits(e)) + 1
        /\ Cardinality(Tellers(e))' <= Cardinality(Tellers(e))
        /\ Cardinality(Unheld(e))' <= Cardinality(Unheld(e))
        /\ Cardinality(Copies(e)) <= Cardinality(Copies(e))'
    BY <2>2, <2>3, <2>4, <2>5, Counted, CardDrop, CardGrows, CardLe DEF Sized
  <2> QED BY <1>1, <2>6, Counted DEF CountInv, Balanced, OpenCount, RecordedCount, Sized
<1> QED BY <1>3, <1>4 DEF CountInv

\* A notifier that goes on with the delivery it handles.
LEMMA SameTask ==
    ASSUME Typed, NEW n \in Notifier, NEW e \in Event, e = Subject(n), NEW s, Goto(n, s), copy' = copy
    PROVE  /\ Unheld(e)' = Unheld(e) /\ Delivered(e)' = Delivered(e) /\ Copies(e)' = Copies(e)
           /\ Waits(e)' = IF s \in {"begun", "telling", "done"} THEN Waits(e) \cup {n} ELSE Waits(e) \ {n}
           /\ Tellers(e)' = IF s = "telling" THEN Tellers(e) \cup {n} ELSE Tellers(e) \ {n}
<1>1. /\ task' = task /\ stage' = [stage EXCEPT ![n] = s]
      /\ stage \in [Notifier -> {"idle", "begun", "telling", "told", "done"}]
  BY DEF Goto, Typed, TypeOK, NotifierTypeOK
<1> QED BY <1>1 DEF Unheld, Delivered, Copies, Waits, Tellers, Subject

LEMMA CheckCounts ==
    ASSUME Typed, Typed', CountInv, NEW n \in Notifier, CheckInbox(n)
    PROVE  CountInv'
<1>1. /\ stage[n] = "begun" /\ copy' = copy /\ task' = task
      /\ told' = told /\ excuses' = excuses /\ inbox' = inbox
      /\ Goto(n, IF Subject(n) \in Mute \cup inbox THEN "done" ELSE "telling")
  BY DEF CheckInbox, eventVars, noticeVars, Goto
<1>2. task[n] \in EventStream!Slot /\ Subject(n) \in Event
  BY <1>1, SubjectIsEvent
<1>3. ASSUME NEW e \in Event, e # Subject(n) PROVE Balanced(e)'
  BY <1>1, <1>2, <1>3, Elsewhere DEF Goto, Subject, Typed, TypeOK, NotifierTypeOK
<1>4. ASSUME NEW e \in Event, e = Subject(n) PROVE Balanced(e)'
  <2>1. n \in Waits(e)
    BY <1>1, <1>4 DEF Waits
  <2>2. Waits(e)' = Waits(e)
    BY <1>1, <1>4, <2>1, SameTask
  <2>3. e \in inbox => Tellers(e)' \subseteq Tellers(e)
    BY <1>1, <1>4, SameTask
  <2>4. excuses[e] \in Nat
    BY DEF Typed, TypeOK, NotifierTypeOK
  <2>5. Unheld(e)' = Unheld(e) /\ Delivered(e)' = Delivered(e) /\ Copies(e)' = Copies(e)
    BY <1>1, <1>4, SameTask
  <2> QED BY <1>1, <2>2, <2>3, <2>4, <2>5, CountStays
<1> QED BY <1>3, <1>4 DEF CountInv

LEMMA TellCounts ==
    ASSUME Typed, Typed', CountInv, NEW n \in Notifier, Tell(n)
    PROVE  CountInv'
<1>1. /\ stage[n] = "telling" /\ copy' = copy /\ task' = task
      /\ excuses' = excuses /\ inbox' = inbox /\ Goto(n, "told")
      /\ told' = [told EXCEPT ![Subject(n)] = IF Subject(n) \in Unreachable THEN @ ELSE @ + 1]
  BY DEF Tell, eventVars, Goto
<1>2. task[n] \in EventStream!Slot /\ Subject(n) \in Event
  BY <1>1, SubjectIsEvent
<1>3. ASSUME NEW e \in Event, e # Subject(n) PROVE Balanced(e)'
  BY <1>1, <1>2, <1>3, Elsewhere DEF Goto, Subject, Typed, TypeOK, NotifierTypeOK
<1>4. ASSUME NEW e \in Event, e = Subject(n) PROVE Balanced(e)'
  <2>1. n \in Waits(e) /\ n \in Tellers(e)
    BY <1>1, <1>4 DEF Waits, Tellers
  <2>2. Waits(e)' = Waits(e) \ {n} /\ Tellers(e)' = Tellers(e) \ {n}
    BY <1>1, <1>4, SameTask
  <2>3. Unheld(e)' = Unheld(e) /\ Delivered(e)' = Delivered(e) /\ Copies(e)' = Copies(e)
    BY <1>1, <1>4, SameTask
  <2>4. /\ Cardinality(Waits(e))' + 1 <= Cardinality(Waits(e))
        /\ Cardinality(Tellers(e))' + 1 <= Cardinality(Tellers(e))
    BY <2>1, <2>2, Counted, CardDrop DEF Sized
  <2>5. told'[e] <= told[e] + 1 /\ told[e] \in Nat /\ told'[e] \in Nat /\ excuses[e] \in Nat
    BY <1>1, <1>4 DEF Typed, TypeOK, NotifierTypeOK
  <2> QED BY <1>1, <2>3, <2>4, <2>5, Counted
          DEF CountInv, Balanced, OpenCount, RecordedCount, Sized
<1> QED BY <1>3, <1>4 DEF CountInv

LEMMA MarkCounts ==
    ASSUME Typed, Typed', CountInv, NEW n \in Notifier, MarkProcessed(n)
    PROVE  CountInv'
<1>1. /\ stage[n] = "told" /\ copy' = copy /\ task' = task /\ told' = told /\ Goto(n, "done")
      /\ \/ inbox' = inbox \cup {Subject(n)} /\ excuses' = excuses
         \/ inbox' = inbox /\ excuses' = [excuses EXCEPT ![Subject(n)] = @ + 1]
  BY DEF MarkProcessed, eventVars, Goto, Excuse
<1>2. task[n] \in EventStream!Slot /\ Subject(n) \in Event
  BY <1>1, SubjectIsEvent
<1>3. ASSUME NEW e \in Event, e # Subject(n) PROVE Balanced(e)'
  <2>1. excuses'[e] = excuses[e] /\ (e \in inbox <=> e \in inbox')
    BY <1>1, <1>3 DEF Typed, TypeOK, NotifierTypeOK
  <2> QED BY <1>1, <1>2, <1>3, <2>1, Elsewhere DEF Goto, Subject, Typed, TypeOK, NotifierTypeOK
<1>4. ASSUME NEW e \in Event, e = Subject(n) PROVE Balanced(e)'
  <2>1. Waits(e)' = Waits(e) \cup {n} /\ Tellers(e)' = Tellers(e) \ {n}
    BY <1>1, <1>4, SameTask
  <2>2. Unheld(e)' = Unheld(e) /\ Delivered(e)' = Delivered(e) /\ Copies(e)' = Copies(e)
    BY <1>1, <1>4, SameTask
  <2>3. /\ Cardinality(Waits(e))' <= Cardinality(Waits(e)) + 1
        /\ Cardinality(Tellers(e))' <= Cardinality(Tellers(e))
    BY <2>1, Counted, CardGrows, CardLe DEF Sized
  <2>4. told[e] \in Nat /\ excuses[e] \in Nat
    BY DEF Typed, TypeOK, NotifierTypeOK
  <2>5. CASE excuses' = [excuses EXCEPT ![Subject(n)] = @ + 1] /\ inbox' = inbox
    <3>1. excuses'[e] = excuses[e] + 1
      BY <1>4, <2>5 DEF Typed, TypeOK, NotifierTypeOK
    <3> QED BY <1>1, <2>2, <2>3, <2>4, <2>5, <3>1, Counted
            DEF CountInv, Balanced, OpenCount, RecordedCount, Sized
  <2>6. CASE inbox' = inbox \cup {Subject(n)} /\ excuses' = excuses
    <3>1. Tellers(e) \subseteq Waits(e) /\ Delivered(e) \subseteq Copies(e)
      BY DEF Tellers, Waits, Delivered, Copies
    <3>2. /\ Cardinality(Tellers(e)) <= Cardinality(Waits(e))
          /\ Cardinality(Delivered(e)) <= Cardinality(Copies(e))
      BY <3>1, Counted, CardLe DEF Sized
    <3> QED BY <1>1, <1>4, <2>2, <2>3, <2>4, <2>6, <3>2, Counted
            DEF CountInv, Balanced, OpenCount, RecordedCount, Sized
  <2> QED BY <1>1, <2>5, <2>6
<1> QED BY <1>3, <1>4 DEF CountInv

\* A notifier that lets go of the delivery it handled.
LEMMA Released ==
    ASSUME Typed, NEW n \in Notifier, NEW e \in Event, NEW k \in 1 .. MaxCopies,
           task[n] = <<e, k>>, Release(n),
           \A b \in EventStream!Slot \ {<<e, k>>} : copy'[b] = copy[b],
           copy[<<e, k>>] # "free" => copy'[<<e, k>>] # "free"
    PROVE  /\ Waits(e)' = Waits(e) \ {n} /\ Tellers(e)' = Tellers(e) \ {n}
           /\ Copies(e) \subseteq Copies(e)'
           /\ Delivered(e) \subseteq Delivered(e)' \cup {k}
           /\ Unheld(e)' \subseteq Unheld(e) \cup {k}
           /\ copy'[<<e, k>>] # "delivered" => Unheld(e)' \subseteq Unheld(e)
<1>1. /\ task' = [task EXCEPT ![n] = NoTask] /\ stage' = [stage EXCEPT ![n] = "idle"]
      /\ stage \in [Notifier -> {"idle", "begun", "telling", "told", "done"}]
      /\ task \in [Notifier -> EventStream!Slot \cup {NoTask}]
  BY DEF Release, Typed, TypeOK, NotifierTypeOK
<1>2. Waits(e)' = Waits(e) \ {n} /\ Tellers(e)' = Tellers(e) \ {n}
  BY <1>1 DEF Waits, Tellers, Subject
<1>3. \A j \in (1 .. MaxCopies) \ {k} :
          /\ <<e, j>> \in EventStream!Slot \ {<<e, k>>} /\ copy'[<<e, j>>] = copy[<<e, j>>]
  BY DEF EventStream!Slot
<1>4. Copies(e) \subseteq Copies(e)' /\ Delivered(e) \subseteq Delivered(e)' \cup {k}
  BY <1>3 DEF Copies, Delivered
<1>5. ASSUME NEW j \in Unheld(e)', j # k PROVE j \in Unheld(e)
  <2>1. /\ j \in 1 .. MaxCopies /\ copy[<<e, j>>] = "delivered"
        /\ \A m \in Notifier : task'[m] # <<e, j>>
    BY <1>3, <1>5 DEF Unheld, Delivered
  <2>2. \A m \in Notifier : task[m] # <<e, j>>
    BY <1>1, <1>5, <2>1
  <2> QED BY <2>1, <2>2 DEF Unheld, Delivered
<1>6. copy'[<<e, k>>] # "delivered" => k \notin Unheld(e)'
  BY DEF Unheld, Delivered
<1> QED BY <1>2, <1>4, <1>5, <1>6

LEMMA NakCounts ==
    ASSUME Typed, Typed', CountInv, NEW n \in Notifier, Nak(n)
    PROVE  CountInv'
<1>1. /\ stage[n] \in {"begun", "telling"} /\ Release(n) /\ inbox' = inbox
      /\ EventStream!Redeliver(task[n])
      /\ \/ told' = told /\ excuses' = excuses
         \/ /\ told' = [told EXCEPT ![Subject(n)] = @ + 1]
            /\ excuses' = [excuses EXCEPT ![Subject(n)] = @ + 1]
  BY DEF Nak, noticeVars, Excuse
<1>2. task[n] \in EventStream!Slot /\ Subject(n) \in Event
  BY <1>1, SubjectIsEvent
<1>3. /\ \A b \in EventStream!Slot \ {task[n]} : copy'[b] = copy[b]
      /\ copy'[task[n]] # "delivered" /\ (copy[task[n]] # "free" => copy'[task[n]] # "free")
  BY <1>1, <1>2 DEF EventStream!Redeliver, Typed, TypeOK, OutboxTypeOK, EventStream!StreamTypeOK
<1>4. ASSUME NEW e \in Event, e # Subject(n) PROVE Balanced(e)'
  <2>1. told'[e] = told[e] /\ excuses'[e] = excuses[e]
    BY <1>1, <1>4 DEF Typed, TypeOK, NotifierTypeOK
  <2>2. /\ task'[n] = NoTask
        /\ \A m \in Notifier \ {n} : task'[m] = task[m] /\ stage'[m] = stage[m]
    BY <1>1 DEF Release, Typed, TypeOK, NotifierTypeOK
  <2> QED BY <1>1, <1>2, <1>3, <1>4, <2>1, <2>2, Elsewhere DEF Subject
<1>5. ASSUME NEW e \in Event, e = Subject(n) PROVE Balanced(e)'
  <2>1. PICK k \in 1 .. MaxCopies : task[n] = <<e, k>>
    BY <1>1, <1>5, SubjectIsEvent
  <2>2. /\ Waits(e)' = Waits(e) \ {n} /\ Tellers(e)' = Tellers(e) \ {n}
        /\ Copies(e) \subseteq Copies(e)' /\ Delivered(e) \subseteq Delivered(e)' \cup {k}
        /\ Unheld(e)' \subseteq Unheld(e)
    BY <1>1, <1>3, <2>1, Released
  <2>3. n \in Waits(e)
    BY <1>1, <1>5 DEF Waits
  <2>4. /\ Cardinality(Waits(e))' + 1 <= Cardinality(Waits(e))
        /\ Cardinality(Tellers(e))' <= Cardinality(Tellers(e))
        /\ Cardinality(Unheld(e))' <= Cardinality(Unheld(e))
        /\ Cardinality(Copies(e)) <= Cardinality(Copies(e))'
        /\ Cardinality(Delivered(e)) <= Cardinality(Delivered(e))' + 1
    BY <2>2, <2>3, Counted, CardDrop, CardLe, CardGrows DEF Sized
  <2>5. /\ told[e] \in Nat /\ excuses[e] \in Nat
        /\ \/ told'[e] = told[e] /\ excuses'[e] = excuses[e]
           \/ told'[e] = told[e] + 1 /\ excuses'[e] = excuses[e] + 1
    BY <1>1, <1>5 DEF Typed, TypeOK, NotifierTypeOK
  <2> QED BY <1>1, <2>4, <2>5, Counted DEF CountInv, Balanced, OpenCount, RecordedCount, Sized
<1> QED BY <1>4, <1>5 DEF CountInv

LEMMA AcknowledgeCounts ==
    ASSUME Typed, Typed', CountInv, NEW n \in Notifier, Acknowledge(n)
    PROVE  CountInv'
<1>1. /\ stage[n] = "done" /\ Release(n)
      /\ inbox' = inbox /\ told' = told /\ excuses' = excuses
      /\ copy' = [copy EXCEPT ![task[n]] = "acked"] \/ copy' = copy
  BY DEF Acknowledge, noticeVars, EventStream!Ack, eventVars
<1>2. task[n] \in EventStream!Slot /\ Subject(n) \in Event
  BY <1>1, SubjectIsEvent
<1>3. /\ \A b \in EventStream!Slot \ {task[n]} : copy'[b] = copy[b]
      /\ copy[task[n]] # "free" => copy'[task[n]] # "free"
      /\ copy' = copy \/ copy'[task[n]] # "delivered"
  BY <1>1, <1>2 DEF Typed, TypeOK, OutboxTypeOK, EventStream!StreamTypeOK
<1>4. ASSUME NEW e \in Event, e # Subject(n) PROVE Balanced(e)'
  <2>1. /\ task'[n] = NoTask
        /\ \A m \in Notifier \ {n} : task'[m] = task[m] /\ stage'[m] = stage[m]
    BY <1>1 DEF Release, Typed, TypeOK, NotifierTypeOK
  <2> QED BY <1>1, <1>2, <1>3, <1>4, <2>1, Elsewhere DEF Subject
<1>5. ASSUME NEW e \in Event, e = Subject(n) PROVE Balanced(e)'
  <2>1. PICK k \in 1 .. MaxCopies : task[n] = <<e, k>>
    BY <1>1, <1>5, SubjectIsEvent
  <2>2. /\ Waits(e)' = Waits(e) \ {n} /\ Tellers(e)' = Tellers(e) \ {n}
        /\ Copies(e) \subseteq Copies(e)' /\ Delivered(e) \subseteq Delivered(e)' \cup {k}
        /\ Unheld(e)' \subseteq Unheld(e) \cup {k}
        /\ copy'[<<e, k>>] # "delivered" => Unheld(e)' \subseteq Unheld(e)
    BY <1>1, <1>3, <2>1, Released
  <2>3. n \in Waits(e) /\ (copy' = copy => Delivered(e)' = Delivered(e))
    BY <1>1, <1>5 DEF Waits, Delivered
  <2>4. /\ Cardinality(Waits(e))' + 1 <= Cardinality(Waits(e))
        /\ Cardinality(Tellers(e))' <= Cardinality(Tellers(e))
        /\ Cardinality(Copies(e)) <= Cardinality(Copies(e))'
    BY <2>2, <2>3, Counted, CardDrop, CardLe DEF Sized
  <2>5. Cardinality(Unheld(e))' + Cardinality(Delivered(e)) <=
            Cardinality(Unheld(e)) + Cardinality(Delivered(e))' + 1
    <3>1. CASE copy' = copy
      <4>1. Cardinality(Unheld(e))' <= Cardinality(Unheld(e)) + 1
        BY <2>2, Counted, CardGrows DEF Sized
      <4> QED BY <3>1, <4>1, <2>3, Counted DEF Sized
    <3>2. CASE copy'[task[n]] # "delivered"
      <4>1. /\ Cardinality(Unheld(e))' <= Cardinality(Unheld(e))
            /\ Cardinality(Delivered(e)) <= Cardinality(Delivered(e))' + 1
        BY <2>1, <2>2, <3>2, Counted, CardLe, CardGrows DEF Sized
      <4> QED BY <4>1, Counted DEF Sized
    <3> QED BY <1>3, <3>1, <3>2
  <2>6. told[e] \in Nat /\ excuses[e] \in Nat
    BY DEF Typed, TypeOK, NotifierTypeOK
  <2> QED BY <1>1, <2>4, <2>5, <2>6, Counted
          DEF CountInv, Balanced, OpenCount, RecordedCount, Sized
<1> QED BY <1>4, <1>5 DEF CountInv

LEMMA CrashCounts ==
    ASSUME Typed, Typed', CountInv, NEW n \in Notifier, NotifierCrash(n)
    PROVE  CountInv'
<1>1. /\ stage[n] # "idle" /\ Release(n) /\ copy' = copy /\ inbox' = inbox /\ told' = told
      /\ excuses' = IF stage[n] = "told" THEN [excuses EXCEPT ![Subject(n)] = @ + 1] ELSE excuses
  BY DEF NotifierCrash, eventVars, Excuse
<1>2. task[n] \in EventStream!Slot /\ Subject(n) \in Event
  BY <1>1, SubjectIsEvent
<1>3. ASSUME NEW e \in Event, e # Subject(n) PROVE Balanced(e)'
  <2>1. excuses'[e] = excuses[e]
    BY <1>1, <1>3 DEF Typed, TypeOK, NotifierTypeOK
  <2>2. /\ task'[n] = NoTask
        /\ \A m \in Notifier \ {n} : task'[m] = task[m] /\ stage'[m] = stage[m]
    BY <1>1 DEF Release, Typed, TypeOK, NotifierTypeOK
  <2> QED BY <1>1, <1>2, <1>3, <2>1, <2>2, Elsewhere DEF Subject
<1>4. ASSUME NEW e \in Event, e = Subject(n) PROVE Balanced(e)'
  <2>1. PICK k \in 1 .. MaxCopies : task[n] = <<e, k>>
    BY <1>1, <1>4, SubjectIsEvent
  <2>2. /\ Waits(e)' = Waits(e) \ {n} /\ Tellers(e)' = Tellers(e) \ {n}
        /\ Unheld(e)' \subseteq Unheld(e) \cup {k}
    BY <1>1, <2>1, Released
  <2>3. Delivered(e)' = Delivered(e) /\ Copies(e)' = Copies(e)
    BY <1>1 DEF Delivered, Copies
  <2>4. /\ Cardinality(Waits(e))' <= Cardinality(Waits(e))
        /\ Cardinality(Tellers(e))' <= Cardinality(Tellers(e))
        /\ Cardinality(Unheld(e))' <= Cardinality(Unheld(e)) + 1
    BY <2>2, Counted, CardGrows, CardLe DEF Sized
  <2>5. told[e] \in Nat /\ excuses[e] \in Nat
    BY DEF Typed, TypeOK, NotifierTypeOK
  <2>6. CASE stage[n] = "told"
    <3>1. excuses'[e] = excuses[e] + 1
      BY <1>1, <1>4, <2>6 DEF Typed, TypeOK, NotifierTypeOK
    <3> QED BY <1>1, <2>3, <2>4, <2>5, <3>1, Counted
            DEF CountInv, Balanced, OpenCount, RecordedCount, Sized
  <2>7. CASE stage[n] # "told"
    <3>1. n \in Waits(e)
      BY <1>1, <1>4, <2>7 DEF Waits, Typed, TypeOK, NotifierTypeOK
    <3>2. Cardinality(Waits(e))' + 1 <= Cardinality(Waits(e))
      BY <2>2, <3>1, Counted, CardDrop DEF Sized
    <3> QED BY <1>1, <2>3, <2>4, <2>5, <2>7, <3>2, Counted
            DEF CountInv, Balanced, OpenCount, RecordedCount, Sized
  <2> QED BY <2>6, <2>7
<1> QED BY <1>3, <1>4 DEF CountInv

LEMMA ExpireCounts ==
    ASSUME Typed, Typed', CountInv, NEW c \in EventStream!Slot, AckWaitExpires(c)
    PROVE  CountInv'
<1> DEFINE Held == \E n \in Notifier : task[n] = c
<1>1. /\ copy[c] = "delivered" /\ task' = task /\ stage' = stage /\ inbox' = inbox /\ told' = told
      /\ excuses' = IF Held THEN [excuses EXCEPT ![c[1]] = @ + 1] ELSE excuses
  BY DEF AckWaitExpires, taskVars, Excuse
<1>2. /\ \A b \in EventStream!Slot \ {c} : copy'[b] = copy[b]
      /\ copy'[c] \notin {"delivered", "free"}
  BY <1>1 DEF AckWaitExpires, EventStream!Redeliver, Typed, TypeOK, OutboxTypeOK, EventStream!StreamTypeOK
<1>3. PICK f \in Event, k \in 1 .. MaxCopies : c = <<f, k>>
  BY DEF EventStream!Slot
<1>4. ASSUME NEW e \in Event
      PROVE  /\ Waits(e)' = Waits(e) /\ Tellers(e)' = Tellers(e)
             /\ Unheld(e)' = Unheld(e) \ (IF e = f THEN {k} ELSE {})
             /\ Delivered(e)' = Delivered(e) \ (IF e = f THEN {k} ELSE {})
             /\ Copies(e)' = Copies(e)
  <2>1. \A j \in 1 .. MaxCopies : <<e, j>> \in EventStream!Slot /\ (<<e, j>> = c <=> e = f /\ j = k)
    BY <1>3 DEF EventStream!Slot
  <2>2. Copies(e)' = Copies(e) /\ Delivered(e)' = Delivered(e) \ (IF e = f THEN {k} ELSE {})
    BY <1>1, <1>2, <2>1 DEF Copies, Delivered
  <2> QED BY <1>1, <2>2 DEF Waits, Tellers, Subject, Unheld
<1>5. ASSUME NEW e \in Event PROVE told[e] \in Nat /\ excuses[e] \in Nat
  BY DEF Typed, TypeOK, NotifierTypeOK
<1>6. ASSUME NEW e \in Event, e # f PROVE Balanced(e)'
  <2>1. excuses'[e] = excuses[e]
    BY <1>1, <1>3, <1>6 DEF Typed, TypeOK, NotifierTypeOK
  <2> QED BY <1>1, <1>4, <1>5, <1>6, <2>1, CountStays
<1>7. Balanced(f)'
  <2>1. Unheld(f)' \subseteq Unheld(f) /\ Delivered(f) \subseteq Delivered(f)' \cup {k}
    BY <1>4
  <2>2. /\ Cardinality(Unheld(f))' <= Cardinality(Unheld(f))
        /\ Cardinality(Delivered(f)) <= Cardinality(Delivered(f))' + 1
    BY <2>1, Counted, CardLe, CardGrows DEF Sized
  <2>3. CASE Held
    <3>1. excuses'[f] = excuses[f] + 1
      BY <1>1, <1>3, <2>3 DEF Typed, TypeOK, NotifierTypeOK
    <3> QED BY <1>1, <1>4, <1>5, <2>2, <3>1, Counted
            DEF CountInv, Balanced, OpenCount, RecordedCount, Sized
  <2>4. CASE ~ Held
    <3>1. k \in Unheld(f)
      BY <1>1, <1>3, <2>4 DEF Unheld, Delivered
    <3>2. Cardinality(Unheld(f))' + 1 <= Cardinality(Unheld(f))
      BY <1>4, <3>1, Counted, CardDrop DEF Sized
    <3> QED BY <1>1, <1>4, <1>5, <2>2, <2>4, <3>2, Counted
            DEF CountInv, Balanced, OpenCount, RecordedCount, Sized
  <2> QED BY <2>3, <2>4
<1> QED BY <1>6, <1>7 DEF CountInv

LEMMA CountInit == Init => CountInv
<1> SUFFICES ASSUME Init, NEW e \in Event PROVE Balanced(e)
  BY DEF CountInv
<1>1. Waits(e) = {} /\ Unheld(e) = {} /\ told[e] = 0 /\ excuses[e] = 0 /\ inbox = {}
  BY DEF Init, OutboxInit, NotifierInit, EventStream!StreamInit, EventStream!Slot, Waits, Unheld,
     Delivered
<1>2. Cardinality(Waits(e)) = 0 /\ Cardinality(Unheld(e)) = 0
  BY <1>1, FS_EmptySet
<1> QED BY <1>1, <1>2, Counted DEF Balanced, OpenCount, Sized

LEMMA CountStep == Typed /\ CountInv /\ [Next]_vars => CountInv'
<1>1. ASSUME Typed, CountInv, UNCHANGED vars PROVE CountInv'
  BY <1>1 DEF vars, outboxVars, eventVars, notifierVars, taskVars, noticeVars, CountInv, Balanced,
     OpenCount, RecordedCount, Waits, Tellers, Unheld, Delivered, Copies, Subject
<1>2. ASSUME Typed, CountInv, ByNotifier(NotifierNext) PROVE CountInv'
  <2>1. Typed'
    BY <1>2, NotifierTyped
  <2> QED BY <1>2, <2>1, TakeCounts, CheckCounts, TellCounts, NakCounts, MarkCounts,
             AcknowledgeCounts, CrashCounts, ExpireCounts DEF ByNotifier, NotifierNext, Notify
<1> QED BY <1>1, <1>2, OutboxCounts DEF Next

\* Beyond one telling for each copy the stream stored, a player is told again
\* only for a telling that went unrecorded or a delivery repeated under way.
THEOREM EveryRepeatIsExcused == Spec => []RepeatsAreExcused
<1>1. Typed /\ CountInv => RepeatsAreExcused
  <2> SUFFICES ASSUME Typed, CountInv, NEW e \in Event
               PROVE  told[e] <= Cardinality(Copies(e)) + excuses[e]
    BY DEF RepeatsAreExcused
  <2>1. Delivered(e) \subseteq Copies(e)
    BY DEF Delivered, Copies
  <2>2. Cardinality(Delivered(e)) <= Cardinality(Copies(e))
    BY <2>1, Counted, CardLe DEF Sized
  <2>3. told[e] \in Nat /\ excuses[e] \in Nat
    BY DEF Typed, TypeOK, NotifierTypeOK
  <2> QED BY <2>2, <2>3, Counted DEF CountInv, Balanced, OpenCount, RecordedCount, Sized
<1> QED BY <1>1, TypedInit, TypedStep, CountInit, CountStep, PTL DEF Spec
=============================================================================
