----------------------- MODULE DurableSchedule_proofs -----------------------
(***************************************************************************)
(* Theorems about the whole pipeline, table to transaction.                *)
(***************************************************************************)
EXTENDS DurableSchedule, Scheduler_proofs

LEMMA ConsumerConstantTypes ==
    /\ MaxRuns \in Nat /\ MaxRuns > 1
    /\ MaxDeliver \in Nat /\ MaxDeliver > 0
    /\ MaxCopies \in Nat
    /\ DuplicateWindow \in Nat
    /\ MaxFaults \in Nat
    /\ NoCopy \notin Slot
BY ConsumerConstants, StreamConstants, BudgetConstants

LEMMA PipelineTyped == Init => TypeOK
BY ConstantTypes, ConsumerConstantTypes
   DEF Init, SchedulerInit, TableInit, StreamInit, ReplicaInit, ConsumerInit, TypeOK,
       TableTypeOK, StreamTypeOK, FaultTypeOK, ReplicaTypeOK, ConsumerTypeOK, Status,
       CopyState

\* What a step of the other side leaves alone.
LEMMA Frames ==
    /\ ByGame(ConsumerNext) => UNCHANGED TableOrReplica
    /\ ByScheduler(SchedulerNext) => UNCHANGED <<workerVars, effectVars>>
BY DEF ByGame, ByScheduler, TableOrReplica

BusyHasTask == \A w \in Worker : step[w] # "idle" => task[w] \in Slot
Typed == TypeOK /\ BusyHasTask

LEMMA SubjectIsAction ==
    ASSUME Typed, NEW w \in Worker, step[w] # "idle"
    PROVE  Subject(w) \in Action
BY DEF Typed, BusyHasTask, Subject, Slot

LEMMA AcceptTyped ==
    ASSUME StreamTypeOK, NEW a \in Action, Accept(a) \/ UNCHANGED streamVars
    PROVE  StreamTypeOK'
<1>1. CASE UNCHANGED streamVars
  BY <1>1 DEF StreamTypeOK, streamVars
<1>2. CASE window[a] > 0 /\ UNCHANGED <<copy, tries, window>>
  BY <1>2 DEF StreamTypeOK
<1>3. CASE ~ (window[a] > 0 /\ UNCHANGED <<copy, tries, window>>) /\ Accept(a)
  <2>1. PICK k \in 1 .. MaxCopies : copy' = [copy EXCEPT ![<<a, k>>] = "waiting"]
    BY <1>3 DEF Accept
  <2>2. copy' \in [Slot -> CopyState]
    BY <2>1 DEF StreamTypeOK, CopyState
  <2>3. tries' = tries /\ window' = [window EXCEPT ![a] = DuplicateWindow]
    BY <1>3 DEF Accept
  <2>4. QED
    BY <2>2, <2>3, ConsumerConstantTypes DEF StreamTypeOK
<1>4. QED
  BY <1>1, <1>2, <1>3

LEMMA RedeliverTyped ==
    ASSUME StreamTypeOK, NEW c, Redeliver(c) PROVE StreamTypeOK'
BY ConsumerConstantTypes DEF StreamTypeOK, Redeliver, CopyState

LEMMA SchedulerStepTyped ==
    ASSUME TypeOK, SchedulerNext PROVE StreamTypeOK' /\ FaultTypeOK'
<1> USE ConsumerConstantTypes DEF TypeOK, FaultTypeOK, Fault, NoFault
<1> DEFINE Good == StreamTypeOK' /\ FaultTypeOK'
<1>1. ASSUME NEW r \in Replica,
             StartTick(r) \/ Reap(r) \/ ReapFails(r) \/ Claim(r) \/ ClaimFails(r)
             \/ Expire(r) \/ Crash(r) \/ Restart(r)
      PROVE Good
  <2>1. UNCHANGED streamVars
    BY <1>1 DEF StartTick, Reap, ReapFails, Claim, ClaimFails, Expire, Crash, Restart
  <2>2. FaultTypeOK'
    BY <1>1 DEF StartTick, Reap, ReapFails, Claim, ClaimFails, Expire, Crash, Restart
  <2>3. QED
    BY <2>1, <2>2 DEF StreamTypeOK, streamVars
<1>2. ASSUME NEW r \in Replica, MarkComplete(r) PROVE Good
  BY <1>2 DEF MarkComplete, StreamTypeOK, streamVars
<1>3. ASSUME NEW r \in Replica, NEW a \in Action,
             FailUnroutable(r, a) \/ Publish(r, a) \/ PublishFails(r, a)
      PROVE Good
  <2>1. Accept(a) \/ UNCHANGED streamVars
    BY <1>3 DEF FailUnroutable, Publish, PublishFails
  <2>2. FaultTypeOK'
    BY <1>3 DEF FailUnroutable, Publish, PublishFails
  <2>3. QED
    BY <2>1, <2>2, AcceptTyped
<1>4. ASSUME NEW a \in Action, TableWriter(a) PROVE Good
  BY <1>4 DEF TableWriter, StreamTypeOK, streamVars
<1>5. ASSUME Tick PROVE Good
  BY <1>5 DEF Tick, AgeWindow, StreamTypeOK
<1>6. QED
  BY <1>1, <1>2, <1>3, <1>4, <1>5 DEF SchedulerNext, TickReplica

LEMMA ConsumerStepTyped ==
    ASSUME Typed, ConsumerNext
    PROVE  StreamTypeOK' /\ FaultTypeOK' /\ ConsumerTypeOK' /\ BusyHasTask'
<1> USE ConsumerConstantTypes DEF Typed, TypeOK, FaultTypeOK, Fault, NoFault, StreamTypeOK,
        ConsumerTypeOK, BusyHasTask, CopyState, Goto, Release, streamVars, effectVars, workerVars
<1> DEFINE Good == StreamTypeOK' /\ FaultTypeOK' /\ ConsumerTypeOK' /\ BusyHasTask'
<1>1. ASSUME NEW w \in Worker, NEW c \in Slot, Take(w, c) PROVE Good
  BY <1>1 DEF Take, Deliver
<1>2. ASSUME NEW w \in Worker, Reserve(w) PROVE Good
  BY <1>2 DEF Reserve
<1>3. ASSUME NEW w \in Worker, Succeed(w) PROVE Good
  BY <1>3, SubjectIsAction DEF Succeed, Commit
<1>4. ASSUME NEW w \in Worker, Refuse(w) PROVE Good
  BY <1>4, SubjectIsAction DEF Refuse
<1>5. ASSUME NEW w \in Worker, Nak(w) PROVE Good
  <2>1. StreamTypeOK' /\ FaultTypeOK'
    BY <1>5, RedeliverTyped DEF Nak
  <2>2. /\ task' = [task EXCEPT ![w] = NoCopy]
        /\ step' = [step EXCEPT ![w] = "idle"]
    BY <1>5 DEF Nak
  <2>3. BusyHasTask'
    BY <2>2
  <2>4. CASE UNCHANGED effectVars
    BY <2>1, <2>2, <2>3, <2>4
  <2>5. CASE Commit(w)
    BY <2>1, <2>2, <2>3, <2>5, SubjectIsAction DEF Commit
  <2>6. QED
    BY <1>5, <2>4, <2>5 DEF Nak
<1>6. ASSUME NEW w \in Worker, MarkProcessed(w) PROVE Good
  BY <1>6, SubjectIsAction DEF MarkProcessed
<1>7. ASSUME NEW w \in Worker, Acknowledge(w) PROVE Good
  BY <1>7 DEF Acknowledge, Ack
<1>8. ASSUME NEW w \in Worker, WorkerCrash(w) PROVE Good
  BY <1>8 DEF WorkerCrash
<1>9. ASSUME NEW c \in Slot, AckWaitExpires(c) PROVE Good
  BY <1>9 DEF AckWaitExpires, Redeliver
<1>10. QED
  BY <1>1, <1>2, <1>3, <1>4, <1>5, <1>6, <1>7, <1>8, <1>9 DEF ConsumerNext, Handle

LEMMA TypedInit == Init => Typed
BY PipelineTyped DEF Init, ConsumerInit, Typed, BusyHasTask

LEMMA TypedStep == Typed /\ [Next]_vars => Typed'
<1> SUFFICES ASSUME Typed, [Next]_vars PROVE Typed'
  OBVIOUS
<1>1. SchedulerNext \/ UNCHANGED TableOrReplica
  BY Frames DEF Next, ByScheduler, vars, schedulerVars, TableOrReplica
<1>2. TableTypeOK' /\ ReplicaTypeOK'
  BY <1>1, RowsTypedStep DEF Typed, TypeOK, RowsTypeOK
<1>3. CASE ByScheduler(SchedulerNext)
  <2>1. ConsumerTypeOK' /\ BusyHasTask'
    BY <1>3 DEF ByScheduler, workerVars, effectVars, Typed, TypeOK, ConsumerTypeOK, BusyHasTask
  <2>2. QED
    BY <1>2, <1>3, <2>1, SchedulerStepTyped DEF ByScheduler, Typed, TypeOK
<1>4. CASE ByGame(ConsumerNext)
  BY <1>2, <1>4, ConsumerStepTyped DEF ByGame, Typed, TypeOK
<1>5. CASE UNCHANGED vars
  BY <1>2, <1>5 DEF vars, schedulerVars, tableVars, streamVars, replicaVars, workerVars, effectVars,
     Typed, TypeOK, StreamTypeOK, FaultTypeOK, ConsumerTypeOK, BusyHasTask
<1>6. QED
  BY <1>3, <1>4, <1>5 DEF Next

(* Every variable of the pipeline keeps its type.                          *)
THEOREM PipelineIsTyped == Spec => []TypeOK
<1>1. Typed => TypeOK
  BY DEF Typed
<1>2. QED
  BY <1>1, TypedInit, TypedStep, PTL DEF Spec

(* The lease argument of Scheduler_proofs holds whatever the game does.     *)
THEOREM PipelineClaimsAreExclusive == Spec => []LiveClaimKept
<1>1. Init => ClaimInv
  BY ClaimInvInit DEF Init, SchedulerInit
<1>2. ClaimInv /\ [Next]_vars => ClaimInv'
  BY ClaimInvStep, Frames DEF Next, ByScheduler, vars, schedulerVars, TableOrReplica
<1>3. ClaimInv => LiveClaimKept
  BY DEF ClaimInv
<1>4. QED
  BY <1>1, <1>2, <1>3, PTL DEF Spec

----------------------------------------------------------------------------
(***************************************************************************)
(* Why nothing is lost.  Once the stream stored a command, a copy of it is *)
(* there for good, and that copy is acked only after the command settled.  *)
(* A row is completed, a row is between publish and Complete, and a        *)
(* deduplication id is remembered, only after the stream stored a copy.    *)
(***************************************************************************)
Stored(a) == \E k \in 1 .. MaxCopies : copy[<<a, k>>] # "free"

CompletedIsStored == \A a \in Action : status[a] = "completed" => Stored(a)
SentIsStored == \A r \in Replica : sent[r] # NoAction => Stored(sent[r])
RememberedIsStored == \A a \in Action : window[a] > 0 => Stored(a)
AckedIsSettled == \A a \in Action, k \in 1 .. MaxCopies :
    copy[<<a, k>>] = "acked" => Settled(a)
DoneIsSettled == \A w \in Worker :
    step[w] \in {"done", "recorded"} => Settled(Subject(w))
KeptInv ==
    /\ Typed
    /\ CompletedIsStored
    /\ SentIsStored
    /\ RememberedIsStored
    /\ AckedIsSettled
    /\ DoneIsSettled
    /\ InboxAfterOutcome

LEMMA KeptInvImplies == KeptInv => CompletedIsCarried
<1> SUFFICES ASSUME KeptInv, NEW a \in Action, status[a] = "completed"
             PROVE  Settled(a) \/ InStream(a) \/ Exhausted(a)
  BY DEF CompletedIsCarried
<1>1. PICK k \in 1 .. MaxCopies : copy[<<a, k>>] # "free"
  BY DEF KeptInv, CompletedIsStored, Stored
<1>2. copy[<<a, k>>] \in CopyState
  BY DEF KeptInv, Typed, TypeOK, StreamTypeOK, Slot
<1>3. QED
  BY <1>1, <1>2 DEF CopyState, KeptInv, AckedIsSettled, InStream, Exhausted

LEMMA KeptInvInit == Init => KeptInv
BY TypedInit DEF Init, SchedulerInit, TableInit, StreamInit, ReplicaInit, ConsumerInit, KeptInv,
   CompletedIsStored, SentIsStored, RememberedIsStored, AckedIsSettled, DoneIsSettled,
   InboxAfterOutcome, Slot

\* An accepted command is stored, and nothing stored is taken back.
LEMMA AcceptStores ==
    ASSUME KeptInv, NEW a \in Action, Accept(a)
    PROVE  /\ Stored(a)'
           /\ \A b \in Action : Stored(b) => Stored(b)'
           /\ \A b \in Action : window'[b] > 0 => Stored(b)'
           /\ \A c \in Slot : copy'[c] = "acked" => copy[c] = "acked"
<1> USE DEF KeptInv, Typed, TypeOK, StreamTypeOK
<1>1. CASE window[a] > 0 /\ UNCHANGED <<copy, tries, window>>
  BY <1>1 DEF RememberedIsStored, Stored
<1>2. CASE ~ (window[a] > 0 /\ UNCHANGED <<copy, tries, window>>)
  <2>1. PICK k \in 1 .. MaxCopies : copy' = [copy EXCEPT ![<<a, k>>] = "waiting"]
    BY <1>2 DEF Accept
  <2>2. window' = [window EXCEPT ![a] = DuplicateWindow]
    BY <1>2 DEF Accept
  <2>3. <<a, k>> \in Slot /\ copy'[<<a, k>>] = "waiting"
    BY <2>1 DEF Slot
  <2>4. Stored(a)'
    BY <2>3 DEF Stored
  <2>5. \A b \in Action, j \in 1 .. MaxCopies :
          copy'[<<b, j>>] = copy[<<b, j>>] \/ (b = a /\ j = k)
    BY <2>1 DEF Slot
  <2>6. \A b \in Action : Stored(b) => Stored(b)'
    BY <2>4, <2>5 DEF Stored
  <2>7. \A b \in Action : window'[b] > 0 => Stored(b)'
    BY <2>2, <2>4, <2>6 DEF RememberedIsStored
  <2>8. \A c \in Slot : copy'[c] = "acked" => copy[c] = "acked"
    BY <2>1
  <2>9. QED
    BY <2>4, <2>6, <2>7, <2>8
<1>3. QED
  BY <1>1, <1>2

LEMMA KeptInvScheduler ==
    ASSUME KeptInv, Typed', ByScheduler(SchedulerNext) PROVE KeptInv'
<1>1. UNCHANGED <<keys, refused, inbox, task, step>>
  BY DEF ByScheduler, workerVars, effectVars
<1>2. DoneIsSettled' /\ InboxAfterOutcome'
  BY <1>1 DEF KeptInv, DoneIsSettled, InboxAfterOutcome, Settled, Subject
<1> USE DEF KeptInv, Typed, TypeOK, TableTypeOK, ReplicaTypeOK
\* Steps that do not publish: the stream keeps its copies.
<1>3. ASSUME UNCHANGED copy,
             \A a \in Action : window'[a] > 0 => window[a] > 0,
             \A a \in Action : status'[a] = "completed" =>
                 status[a] = "completed" \/ \E r \in Replica : sent[r] = a,
             \A r \in Replica : sent'[r] \in {sent[r], NoAction}
      PROVE  KeptInv'
  <2>1. \A a \in Action : Stored(a)' <=> Stored(a)
    BY <1>3 DEF Stored
  <2>2. CompletedIsStored' /\ RememberedIsStored' /\ SentIsStored'
    BY <1>3, <2>1, SchedulerConstants DEF CompletedIsStored, RememberedIsStored, SentIsStored
  <2>3. AckedIsSettled'
    BY <1>1, <1>3 DEF AckedIsSettled, Settled
  <2>4. QED
    BY <1>2, <2>2, <2>3
\* Steps that publish a: it is stored, whatever becomes of the answer.
<1>4. ASSUME NEW a \in Action, Accept(a), UNCHANGED status,
             \A r \in Replica : sent'[r] \in {sent[r], NoAction, a}
      PROVE  KeptInv'
  <2>1. CompletedIsStored' /\ RememberedIsStored' /\ SentIsStored'
    BY <1>4, AcceptStores, SchedulerConstants
       DEF CompletedIsStored, RememberedIsStored, SentIsStored
  <2>2. AckedIsSettled'
    BY <1>1, <1>4, AcceptStores DEF AckedIsSettled, Settled, Slot
  <2>3. QED
    BY <1>2, <2>1, <2>2
<1>5. ASSUME NEW r \in Replica, StartTick(r) \/ ReapFails(r) \/ Expire(r) \/ Crash(r) \/ Restart(r)
      PROVE  KeptInv'
  BY <1>3, <1>5 DEF StartTick, ReapFails, Expire, Crash, Restart, tableVars, streamVars
<1>6. ASSUME NEW r \in Replica, Reap(r) \/ Claim(r) \/ ClaimFails(r) PROVE KeptInv'
  <2>1. UNCHANGED <<copy, window, sent>>
    BY <1>6 DEF Reap, Claim, ClaimFails, streamVars
  <2>2. UNCHANGED status \/ (\E rows : ReclaimStale(rows)) \/ (\E rows : ClaimDue(rows, Skew[r]))
    BY <1>6 DEF Reap, Claim, ClaimFails, tableVars
  <2>3. \A a \in Action : status'[a] = "completed" => status[a] = "completed"
    BY <2>2 DEF ReclaimStale, ClaimDue
  <2>4. QED
    BY <1>3, <2>1, <2>3
<1>7. ASSUME NEW r \in Replica, MarkComplete(r) PROVE KeptInv'
  BY <1>3, <1>7 DEF MarkComplete, Complete, CloseAs, Finish, tableVars, streamVars
<1>8. ASSUME NEW r \in Replica, NEW a \in Action, FailUnroutable(r, a) PROVE KeptInv'
  BY <1>3, <1>8 DEF FailUnroutable, Fail, CloseAs, Finish, tableVars, streamVars
<1>9. ASSUME NEW r \in Replica, NEW a \in Action, Publish(r, a) PROVE KeptInv'
  BY <1>4, <1>9 DEF Publish, tableVars
<1>10. ASSUME NEW r \in Replica, NEW a \in Action, PublishFails(r, a) PROVE KeptInv'
  <2>1. CASE Accept(a)
    BY <1>4, <1>10, <2>1 DEF PublishFails, Finish, tableVars
  <2>2. CASE UNCHANGED streamVars
    BY <1>3, <1>10, <2>2 DEF PublishFails, Finish, tableVars, streamVars
  <2>3. QED
    BY <1>10, <2>1, <2>2 DEF PublishFails
<1>11. ASSUME NEW a \in Action, TableWriter(a) PROVE KeptInv'
  BY <1>3, <1>11 DEF TableWriter, Schedule, RequeueAction, EndNow, CancelActions, streamVars,
     replicaVars
<1>12. ASSUME Tick PROVE KeptInv'
  BY <1>3, <1>12, ConsumerConstantTypes DEF Tick, AgeRows, AgeWindow, StreamTypeOK
<1>13. QED
  BY <1>5, <1>6, <1>7, <1>8, <1>9, <1>10, <1>11, <1>12
     DEF ByScheduler, SchedulerNext, TickReplica

LEMMA KeptInvConsumer ==
    ASSUME KeptInv, Typed', ByGame(ConsumerNext) PROVE KeptInv'
<1>1. UNCHANGED <<status, sent>>
  BY DEF ByGame, tableVars, replicaVars
<1> USE DEF KeptInv, Typed, TypeOK, StreamTypeOK, ConsumerTypeOK, Goto, Release, streamVars,
        effectVars
\* What is enough of a step of the game, said once.
<1>2. ASSUME UNCHANGED window,
             keys \subseteq keys', refused \subseteq refused',
             inbox' \subseteq keys' \cup refused',
             \A c \in Slot : copy'[c] = "free" => copy[c] = "free",
             \A c \in Slot : copy'[c] = "acked" =>
                 copy[c] = "acked" \/ c[1] \in keys \cup refused,
             \A w \in Worker : step'[w] \in {"done", "recorded"} =>
                 task'[w][1] \in keys' \cup refused'
      PROVE  KeptInv'
  <2>1. \A a \in Action : Stored(a) => Stored(a)'
    BY <1>2 DEF Stored, Slot
  <2>2. CompletedIsStored' /\ RememberedIsStored' /\ SentIsStored'
    <3>1. \A r \in Replica : sent[r] \in Action \cup {NoAction}
      BY DEF ReplicaTypeOK
    <3>2. QED
      BY <1>1, <1>2, <2>1, <3>1 DEF CompletedIsStored, RememberedIsStored, SentIsStored
  <2>3. AckedIsSettled'
    BY <1>2 DEF AckedIsSettled, Settled, Slot
  <2>4. DoneIsSettled' /\ InboxAfterOutcome'
    BY <1>2 DEF DoneIsSettled, InboxAfterOutcome, Settled, Subject
  <2>5. QED
    BY <2>2, <2>3, <2>4
<1>3. \A w \in Worker : step[w] \in {"done", "recorded"} => task[w][1] \in keys \cup refused
  BY DEF DoneIsSettled, Settled, Subject
<1>4. inbox \subseteq keys \cup refused
  BY DEF InboxAfterOutcome
<1>5. ASSUME NEW w \in Worker, NEW c \in Slot, Take(w, c) PROVE KeptInv'
  BY <1>2, <1>3, <1>4, <1>5 DEF Take, Deliver
<1>6. ASSUME NEW w \in Worker, Reserve(w) PROVE KeptInv'
  BY <1>2, <1>3, <1>4, <1>6 DEF Reserve, Subject
<1>7. ASSUME NEW w \in Worker, Succeed(w) PROVE KeptInv'
  BY <1>2, <1>3, <1>4, <1>7 DEF Succeed, Commit, Subject
<1>8. ASSUME NEW w \in Worker, Refuse(w) PROVE KeptInv'
  BY <1>2, <1>3, <1>4, <1>8 DEF Refuse, Subject
<1>9. ASSUME NEW w \in Worker, Nak(w) PROVE KeptInv'
  <2>1. keys \subseteq keys' /\ refused' = refused /\ inbox' = inbox
    BY <1>9 DEF Nak, Commit
  <2>2. \A c \in Slot : copy'[c] \in {copy[c], "waiting", "dead"}
    BY <1>9 DEF Nak, Redeliver
  <2>3. UNCHANGED window
    BY <1>9 DEF Nak, Redeliver
  <2>4. /\ task' = [task EXCEPT ![w] = NoCopy]
        /\ step' = [step EXCEPT ![w] = "idle"]
    BY <1>9 DEF Nak
  <2>5. QED
    BY <1>2, <1>3, <1>4, <2>1, <2>2, <2>3, <2>4
<1>10. ASSUME NEW w \in Worker, MarkProcessed(w) PROVE KeptInv'
  BY <1>2, <1>3, <1>4, <1>10 DEF MarkProcessed, Subject
<1>11. ASSUME NEW w \in Worker, Acknowledge(w) PROVE KeptInv'
  <2>1. task[w][1] \in keys \cup refused
    BY <1>3, <1>11 DEF Acknowledge
  <2>2. UNCHANGED <<window, keys, refused, inbox>>
    BY <1>11 DEF Acknowledge, Ack
  <2>3. copy' = [copy EXCEPT ![task[w]] = "acked"] \/ copy' = copy
    BY <1>11 DEF Acknowledge, Ack
  <2>4. /\ task' = [task EXCEPT ![w] = NoCopy]
        /\ step' = [step EXCEPT ![w] = "idle"]
    BY <1>11 DEF Acknowledge
  <2>5. QED
    BY <1>2, <1>3, <1>4, <2>1, <2>2, <2>3, <2>4
<1>12. ASSUME NEW w \in Worker, WorkerCrash(w) PROVE KeptInv'
  BY <1>2, <1>3, <1>4, <1>12 DEF WorkerCrash
<1>13. ASSUME NEW c \in Slot, AckWaitExpires(c) PROVE KeptInv'
  BY <1>2, <1>3, <1>4, <1>13 DEF AckWaitExpires, Redeliver, workerVars
<1>14. QED
  BY <1>5, <1>6, <1>7, <1>8, <1>9, <1>10, <1>11, <1>12, <1>13
     DEF ByGame, ConsumerNext, Handle

LEMMA KeptInvStep == KeptInv /\ [Next]_vars => KeptInv'
<1> SUFFICES ASSUME KeptInv, [Next]_vars PROVE KeptInv'
  OBVIOUS
<1>1. Typed'
  BY TypedStep DEF KeptInv
<1>2. CASE UNCHANGED vars
  BY <1>1, <1>2 DEF KeptInv, vars, schedulerVars, tableVars, streamVars, replicaVars,
     workerVars, effectVars, CompletedIsStored, SentIsStored, RememberedIsStored,
     AckedIsSettled, DoneIsSettled, InboxAfterOutcome, Stored, Settled, Subject
<1>3. QED
  BY <1>1, <1>2, KeptInvScheduler, KeptInvConsumer DEF Next

(* No completed row without its command: settled, on its way, or dead      *)
(* after MaxDeliver attempts (dispatch publishes before it completes, the  *)
(* consumer acknowledges after the handler).                               *)
THEOREM NothingIsLost == Spec => []CompletedIsCarried
BY KeptInvInit, KeptInvStep, KeptInvImplies, PTL DEF Spec

(* No message in the inbox whose command was not settled before it.        *)
THEOREM InboxRecordsOutcomes == Spec => []InboxAfterOutcome
<1>1. KeptInv => InboxAfterOutcome
  BY DEF KeptInv
<1>2. QED
  BY <1>1, KeptInvInit, KeptInvStep, PTL DEF Spec

----------------------------------------------------------------------------
(* The pipeline implements TimedOperation: at most one run of an operation,*)
(* and none before it is due on the fastest clock.                         *)

\* Planned, and due on the fastest clock.
Ripe(a) == status[a] # "absent" /\ remaining[a] <= MaxSkew

HeldIsRipe == \A r \in Replica : \A a \in batch[r] : Ripe(a)
StoredIsRipe == \A c \in Slot : copy[c] # "free" => Ripe(c[1])
TaskIsStored == \A w \in Worker : step[w] # "idle" => copy[task[w]] # "free"
RunsAreKeys == \A a \in Action : runs[a] = IF a \in keys THEN 1 ELSE 0
FreshIsNew == \A w \in Worker : step[w] = "fresh" =>
    /\ Subject(w) \notin keys
    /\ \A v \in Worker : step[v] = "fresh" /\ Subject(v) = Subject(w) => v = w
PromiseInv ==
    Typed /\ HeldIsRipe /\ StoredIsRipe /\ TaskIsStored /\ RunsAreKeys /\ FreshIsNew

LEMMA PromiseInvInit == Init => PromiseInv
BY TypedInit, ConsumerConstantTypes
   DEF Init, SchedulerInit, TableInit, StreamInit, ReplicaInit, ConsumerInit, PromiseInv,
       HeldIsRipe, StoredIsRipe, TaskIsStored, RunsAreKeys, FreshIsNew

\* What is ripe stays ripe, and only rows already written change otherwise.
TableMoves ==
    \/ \E a \in Action : Promise!Plan(a) \/ Promise!BringForward(a)
    \/ Promise!Pass
    \/ UNCHANGED Promise!opVars

LEMMA RipeStaysRipe ==
    ASSUME Typed, Typed', NEW a \in Action, Ripe(a), TableMoves
    PROVE  Ripe(a)'
<1> USE ConstantTypes DEF Typed, TypeOK, TableTypeOK, Ripe
<1>1. ASSUME NEW b \in Action, Promise!Plan(b) PROVE Ripe(a)'
  BY <1>1 DEF Promise!Plan
<1>2. ASSUME NEW b \in Action, Promise!BringForward(b) PROVE Ripe(a)'
  BY <1>2 DEF Promise!BringForward
<1>3. CASE Promise!Pass
  BY <1>3 DEF Promise!Pass
<1>4. CASE UNCHANGED Promise!opVars
  BY <1>4 DEF Promise!opVars
<1>5. QED
  BY <1>1, <1>2, <1>3, <1>4 DEF TableMoves

\* Steps that neither write a new row nor touch a finish time.
LEMMA SameRowsStutter ==
    ASSUME Typed, Typed', UNCHANGED <<remaining, runs>>,
           \A a \in Action : status'[a] = "absent" <=> status[a] = "absent"
    PROVE  UNCHANGED Promise!opVars
BY DEF Promise!opVars, Typed, TypeOK, TableTypeOK

\* The table side of a step of the scheduler.
LEMMA SchedulerMoves ==
    ASSUME Typed, Typed', ByScheduler(SchedulerNext) PROVE TableMoves
<1>0. UNCHANGED runs
  BY DEF ByScheduler, effectVars
<1> USE <1>0 DEF Typed, TypeOK, TableTypeOK, TableMoves, tableVars, streamVars
<1>1. ASSUME NEW r \in Replica,
             StartTick(r) \/ ReapFails(r) \/ Expire(r) \/ Crash(r) \/ Restart(r)
      PROVE  TableMoves
  BY <1>1, SameRowsStutter DEF StartTick, ReapFails, Expire, Crash, Restart
<1>2. ASSUME NEW r \in Replica, Reap(r) PROVE TableMoves
  <2>1. PICK rows \in SUBSET StaleRows(Skew[r]) : ReclaimStale(rows)
    BY <1>2 DEF Reap, Front
  <2>2. QED
    BY <2>1, SameRowsStutter DEF ReclaimStale, StaleRows
<1>3. ASSUME NEW r \in Replica, Claim(r) \/ ClaimFails(r) PROVE TableMoves
  <2>1. UNCHANGED tableVars \/ \E rows \in SUBSET DueRows(Skew[r]) : ClaimDue(rows, Skew[r])
    BY <1>3 DEF Claim, ClaimFails, Front
  <2>2. QED
    BY <2>1, SameRowsStutter DEF ClaimDue, DueRows
<1>4. ASSUME NEW r \in Replica, MarkComplete(r) PROVE TableMoves
  BY <1>4, SameRowsStutter DEF MarkComplete, Complete, CloseAs, Open
<1>5. ASSUME NEW r \in Replica, NEW a \in Action,
             FailUnroutable(r, a) \/ Publish(r, a) \/ PublishFails(r, a)
      PROVE  TableMoves
  BY <1>5, SameRowsStutter DEF FailUnroutable, Publish, PublishFails, Fail, CloseAs, Open
<1>6. ASSUME NEW a \in Action, Schedule(a) PROVE Promise!Plan(a)
  BY <1>6 DEF Schedule, Promise!Plan
<1>7. ASSUME NEW a \in Action, RequeueAction(a) \/ EndNow(a) PROVE Promise!BringForward(a)
  BY <1>7 DEF RequeueAction, EndNow, Promise!BringForward
<1>8. ASSUME NEW a \in Action, CancelActions(a) PROVE TableMoves
  BY <1>8, SameRowsStutter DEF CancelActions, Open
<1>9. ASSUME Tick PROVE TableMoves
  BY <1>9 DEF Tick, AgeRows, Promise!Pass
<1>10. QED
  BY <1>1, <1>2, <1>3, <1>4, <1>5, <1>6, <1>7, <1>8, <1>9
     DEF ByScheduler, SchedulerNext, TickReplica, TableWriter

LEMMA PromiseInvScheduler ==
    ASSUME PromiseInv, Typed', ByScheduler(SchedulerNext) PROVE PromiseInv'
<1>0. /\ UNCHANGED <<task, step, keys, runs>>
      /\ \A a \in Action : Ripe(a) => Ripe(a)'
  BY SchedulerMoves, RipeStaysRipe DEF PromiseInv, ByScheduler, workerVars, effectVars
<1>1. RunsAreKeys' /\ FreshIsNew'
  BY <1>0 DEF PromiseInv, RunsAreKeys, FreshIsNew, Subject
<1> USE DEF PromiseInv, Typed, TypeOK, ReplicaTypeOK
\* Steps that claim nothing new: stored copies stay, and are of ripe rows.
<1>2. ASSUME \A r \in Replica : batch'[r] \subseteq batch[r],
             \A c \in Slot : copy'[c] # "free" => copy[c] # "free" \/ Ripe(c[1]),
             \A c \in Slot : copy[c] # "free" => copy'[c] # "free"
      PROVE  PromiseInv'
  <2>1. HeldIsRipe'
    BY <1>0, <1>2 DEF HeldIsRipe
  <2>2. StoredIsRipe'
    BY <1>0, <1>2 DEF StoredIsRipe, Slot
  <2>3. TaskIsStored'
    BY <1>0, <1>2 DEF TaskIsStored, BusyHasTask
  <2>4. QED
    BY <1>1, <2>1, <2>2, <2>3
<1>3. ASSUME NEW r \in Replica,
             StartTick(r) \/ Reap(r) \/ ReapFails(r) \/ Expire(r) \/ Crash(r) \/ Restart(r)
      PROVE  PromiseInv'
  BY <1>2, <1>3 DEF StartTick, Reap, ReapFails, Expire, Crash, Restart, streamVars
<1>4. ASSUME NEW r \in Replica, Claim(r) PROVE PromiseInv'
  <2>1. PICK rows \in SUBSET DueRows(Skew[r]) :
          /\ ClaimDue(rows, Skew[r])
          /\ batch' = [batch EXCEPT ![r] = rows]
    BY <1>4 DEF Claim, Front
  <2>2. \A a \in rows : Ripe(a)
    BY <2>1, ConstantTypes DEF DueRows, Ripe, TableTypeOK
  <2>3. HeldIsRipe'
    BY <1>0, <2>1, <2>2 DEF HeldIsRipe, DueRows
  <2>4. UNCHANGED copy
    BY <1>4 DEF Claim, streamVars
  <2>5. StoredIsRipe' /\ TaskIsStored'
    BY <1>0, <2>4 DEF StoredIsRipe, TaskIsStored, Slot
  <2>6. QED
    BY <1>1, <2>3, <2>5
<1>5. ASSUME NEW r \in Replica, ClaimFails(r) PROVE PromiseInv'
  BY <1>2, <1>5 DEF ClaimFails, streamVars
<1>6. ASSUME NEW r \in Replica, MarkComplete(r) PROVE PromiseInv'
  BY <1>2, <1>6 DEF MarkComplete, Finish, streamVars
<1>7. ASSUME NEW r \in Replica, NEW a \in Action,
             FailUnroutable(r, a) \/ Publish(r, a) \/ PublishFails(r, a)
      PROVE  PromiseInv'
  <2>1. \A q \in Replica : batch'[q] \subseteq batch[q]
    BY <1>7 DEF FailUnroutable, Publish, PublishFails, Finish
  <2>2. Ripe(a)
    BY <1>7 DEF FailUnroutable, Publish, PublishFails, Dispatching, HeldIsRipe
  <2>3. UNCHANGED copy \/ \E k \in 1 .. MaxCopies : copy' = [copy EXCEPT ![<<a, k>>] = "waiting"]
    BY <1>7 DEF FailUnroutable, Publish, PublishFails, Accept, streamVars
  <2>4. \A c \in Slot : copy'[c] = copy[c] \/ (c[1] = a /\ copy'[c] = "waiting")
    <3>1. CASE UNCHANGED copy
      BY <3>1
    <3>2. CASE ~ UNCHANGED copy
      <4>1. PICK k \in 1 .. MaxCopies : copy' = [copy EXCEPT ![<<a, k>>] = "waiting"]
        BY <2>3, <3>2
      <4>2. copy'[<<a, k>>] = "waiting" /\ <<a, k>> \in Slot
        BY <4>1 DEF StreamTypeOK, Slot
      <4>3. \A c \in Slot : c # <<a, k>> => copy'[c] = copy[c]
        BY <4>1 DEF StreamTypeOK
      <4>4. QED
        BY <4>2, <4>3
    <3>3. QED
      BY <3>1, <3>2
  <2>5. QED
    BY <1>2, <2>1, <2>2, <2>4
<1>8. ASSUME NEW a \in Action, TableWriter(a) PROVE PromiseInv'
  BY <1>2, <1>8 DEF TableWriter, streamVars, replicaVars
<1>9. ASSUME Tick PROVE PromiseInv'
  BY <1>2, <1>9 DEF Tick, AgeWindow
<1>10. QED
  BY <1>3, <1>4, <1>5, <1>6, <1>7, <1>8, <1>9 DEF ByScheduler, SchedulerNext, TickReplica

\* A commit of a worker is a run of its operation, and its first.
LEMMA CommitRuns ==
    ASSUME PromiseInv, Typed', ByGame(ConsumerNext), NEW w \in Worker, Commit(w)
    PROVE  /\ \E a \in Action : Promise!Run(a)
           /\ RunsAreKeys'
           /\ keys' = keys \cup {Subject(w)}
           /\ step[w] = "fresh"
<1>1. step[w] = "fresh" /\ Subject(w) \in Action /\ Subject(w) \notin keys
  BY SubjectIsAction DEF Commit, PromiseInv, FreshIsNew
<1>2. Ripe(Subject(w))
  BY <1>1 DEF PromiseInv, TaskIsStored, StoredIsRipe, Typed, BusyHasTask, Subject
<1>3. runs[Subject(w)] = 0
  BY <1>1 DEF PromiseInv, RunsAreKeys
<1>4. runs' = [runs EXCEPT ![Subject(w)] = 1]
  <2>1. runs' = [runs EXCEPT ![Subject(w)] = IF runs[Subject(w)] < MaxRuns
                                              THEN runs[Subject(w)] + 1
                                              ELSE runs[Subject(w)]]
    BY DEF Commit
  <2>2. (IF runs[Subject(w)] < MaxRuns THEN runs[Subject(w)] + 1 ELSE runs[Subject(w)]) = 1
    BY <1>3, ConsumerConstantTypes
  <2>3. QED
    BY <2>1, <2>2
<1>5. UNCHANGED <<status, remaining>>
  BY DEF ByGame, tableVars
<1>6. Promise!Run(Subject(w))
  BY <1>1, <1>2, <1>3, <1>4, <1>5 DEF Promise!Run, Ripe
<1>7. keys' = keys \cup {Subject(w)}
  BY DEF Commit
<1>8. RunsAreKeys'
  BY <1>1, <1>4, <1>7 DEF PromiseInv, RunsAreKeys, Typed, TypeOK, ConsumerTypeOK
<1>9. QED
  BY <1>1, <1>6, <1>7, <1>8

LEMMA PromiseInvConsumer ==
    ASSUME PromiseInv, Typed', ByGame(ConsumerNext) PROVE PromiseInv'
<1>1. UNCHANGED <<status, remaining, batch>>
  BY DEF ByGame, tableVars, replicaVars
<1> USE DEF PromiseInv, Typed, TypeOK, StreamTypeOK, ConsumerTypeOK, Goto, Release, streamVars,
        effectVars
\* Steps that commit nothing: a worker becomes fresh only by reserving.
<1>2. ASSUME UNCHANGED <<keys, runs>>,
             \A c \in Slot : copy'[c] = "free" <=> copy[c] = "free",
             \A w \in Worker : step'[w] # "idle" =>
                 \/ task'[w] = task[w] /\ step[w] # "idle"
                 \/ task'[w] \in Slot /\ copy[task'[w]] # "free",
             \A w \in Worker : step'[w] = "fresh" =>
                 /\ task'[w] = task[w]
                 /\ \/ step[w] = "fresh"
                    \/ Subject(w) \notin keys /\ ~ KeyHeld(Subject(w)),
             \A v, w \in Worker : v # w =>
                 step'[v] # "fresh" \/ step'[w] # "fresh" \/ step[v] = "fresh" \/ step[w] = "fresh"
      PROVE  PromiseInv'
  <2>1. HeldIsRipe' /\ StoredIsRipe' /\ TaskIsStored'
    BY <1>1, <1>2 DEF HeldIsRipe, StoredIsRipe, TaskIsStored, Ripe, Slot, BusyHasTask
  <2>2. RunsAreKeys'
    BY <1>2 DEF RunsAreKeys
  <2>3. FreshIsNew'
    BY <1>2 DEF FreshIsNew, Subject, KeyHeld
  <2>4. QED
    BY <2>1, <2>2, <2>3
<1>3. ASSUME NEW w \in Worker, Commit(w),
             \/ step' = [step EXCEPT ![w] = "done"] /\ task' = task
             \/ step' = [step EXCEPT ![w] = "idle"],
             \A v \in Worker : v # w => task'[v] = task[v],
             \A c \in Slot : copy'[c] = "free" <=> copy[c] = "free"
      PROVE  PromiseInv'
  <2>1. HeldIsRipe' /\ StoredIsRipe'
    BY <1>1, <1>3 DEF HeldIsRipe, StoredIsRipe, Ripe, Slot
  <2>2. TaskIsStored'
    BY <1>3 DEF TaskIsStored, BusyHasTask, Commit
  <2>3. FreshIsNew'
    BY <1>3, CommitRuns DEF FreshIsNew, Subject
  <2>4. QED
    BY <1>3, <2>1, <2>2, <2>3, CommitRuns
<1>4. ASSUME NEW w \in Worker, NEW c \in Slot, Take(w, c) PROVE PromiseInv'
  BY <1>2, <1>4 DEF Take, Deliver
<1>5. ASSUME NEW w \in Worker, Reserve(w) PROVE PromiseInv'
  BY <1>2, <1>5 DEF Reserve
<1>6. ASSUME NEW w \in Worker, Succeed(w) PROVE PromiseInv'
  BY <1>3, <1>6 DEF Succeed
<1>7. ASSUME NEW w \in Worker, Refuse(w) PROVE PromiseInv'
  BY <1>2, <1>7 DEF Refuse
<1>8. ASSUME NEW w \in Worker, Nak(w) PROVE PromiseInv'
  <2>1. /\ task' = [task EXCEPT ![w] = NoCopy]
        /\ step' = [step EXCEPT ![w] = "idle"]
        /\ \A c \in Slot : copy'[c] = "free" <=> copy[c] = "free"
    BY <1>8 DEF Nak, Redeliver
  <2>2. CASE Commit(w)
    BY <1>3, <2>1, <2>2
  <2>3. CASE UNCHANGED effectVars
    BY <1>2, <2>1, <2>3
  <2>4. QED
    BY <1>8, <2>2, <2>3 DEF Nak
<1>9. ASSUME NEW w \in Worker, MarkProcessed(w) PROVE PromiseInv'
  BY <1>2, <1>9 DEF MarkProcessed
<1>10. ASSUME NEW w \in Worker, Acknowledge(w) PROVE PromiseInv'
  <2>1. task[w] \in Slot /\ copy[task[w]] # "free"
    BY <1>10 DEF Acknowledge, TaskIsStored, BusyHasTask
  <2>2. /\ task' = [task EXCEPT ![w] = NoCopy]
        /\ step' = [step EXCEPT ![w] = "idle"]
        /\ copy' = [copy EXCEPT ![task[w]] = "acked"] \/ copy' = copy
        /\ UNCHANGED <<keys, runs>>
    BY <1>10 DEF Acknowledge, Ack
  <2>3. QED
    BY <1>2, <2>1, <2>2
<1>11. ASSUME NEW w \in Worker, WorkerCrash(w) PROVE PromiseInv'
  BY <1>2, <1>11 DEF WorkerCrash
<1>12. ASSUME NEW c \in Slot, AckWaitExpires(c) PROVE PromiseInv'
  BY <1>2, <1>12 DEF AckWaitExpires, Redeliver, workerVars
<1>13. QED
  BY <1>4, <1>5, <1>6, <1>7, <1>8, <1>9, <1>10, <1>11, <1>12 DEF ByGame, ConsumerNext, Handle

LEMMA PromiseInvStep == PromiseInv /\ [Next]_vars => PromiseInv'
<1> SUFFICES ASSUME PromiseInv, [Next]_vars PROVE PromiseInv'
  OBVIOUS
<1>1. Typed'
  BY TypedStep DEF PromiseInv
<1>2. CASE UNCHANGED vars
  BY <1>1, <1>2 DEF PromiseInv, vars, schedulerVars, tableVars, streamVars, replicaVars,
     workerVars, effectVars, HeldIsRipe, StoredIsRipe, TaskIsStored, RunsAreKeys, FreshIsNew,
     Ripe, Subject
<1>3. QED
  BY <1>1, <1>2, PromiseInvScheduler, PromiseInvConsumer DEF Next

LEMMA EveryStepKeepsThePromise ==
    PromiseInv /\ [Next]_vars => [Promise!OpNext]_(Promise!opVars)
<1> SUFFICES ASSUME PromiseInv, [Next]_vars PROVE [Promise!OpNext]_(Promise!opVars)
  OBVIOUS
<1>1. Typed /\ Typed'
  BY TypedStep DEF PromiseInv
<1>2. CASE ByScheduler(SchedulerNext)
  BY <1>1, <1>2, SchedulerMoves DEF TableMoves, Promise!OpNext
<1>3. CASE ByGame(ConsumerNext)
  <2>1. UNCHANGED <<status, remaining>>
    BY <1>3 DEF ByGame, tableVars
  <2>2. CASE \E w \in Worker : Commit(w)
    BY <1>1, <1>3, <2>2, CommitRuns DEF Promise!OpNext
  <2>3. CASE ~ \E w \in Worker : Commit(w)
    <3>1. UNCHANGED runs
      BY <1>3, <2>3 DEF ByGame, ConsumerNext, Handle, Take, Reserve, Succeed, Refuse, Nak,
         MarkProcessed, Acknowledge, WorkerCrash, AckWaitExpires, effectVars
    <3>2. QED
      BY <1>1, <2>1, <3>1, SameRowsStutter
  <2>4. QED
    BY <2>2, <2>3
<1>4. CASE UNCHANGED vars
  BY <1>1, <1>4, SameRowsStutter DEF vars, schedulerVars, tableVars, effectVars
<1>5. QED
  BY <1>2, <1>3, <1>4 DEF Next

(* For any actions, replicas, workers and bounds: whatever crashes, is     *)
(* lost, delivered twice or reordered, an operation runs at most once, and *)
(* not before it is due on the fastest clock.                              *)
THEOREM PromiseIsKept == Spec => KeepsPromise
<1>1. Init => Promise!OpInit
  BY DEF Init, SchedulerInit, TableInit, ConsumerInit, Promise!OpInit
<1>2. QED
  BY <1>1, PromiseInvInit, PromiseInvStep, EveryStepKeepsThePromise, PTL
     DEF Spec, KeepsPromise, Promise!OpSpec
=============================================================================
