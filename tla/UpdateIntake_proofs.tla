------------------------ MODULE UpdateIntake_proofs ------------------------
(***************************************************************************)
(* Theorems about a bot's lease, for any number of gateways and any TTL    *)
(* that the calls fit into, and about the updates of the bot on top of it, *)
(* for any number of updates and faults.                                   *)
(***************************************************************************)
EXTENDS UpdateIntake, FiniteSetTheorems, WellFoundedInduction, TLAPS

----------------------------------------------------------------------------
(* The lease (BotLease).                                                   *)

LEMMA Numbers ==
    /\ TTL \in Nat /\ TTL > 0 /\ RenewEvery \in Nat /\ RenewEvery > 0
    /\ MaxCall \in Nat /\ MaxFaults \in Nat
    /\ RenewEvery + 2 * MaxCall < TTL
    /\ Nobody \notin Gateway
BY LeaseConstants, CallsEnd

----------------------------------------------------------------------------
(***************************************************************************)
(* What is true of one gateway.  A key that Redis did not lose lasts until *)
(* its keeper has asked for it again, and a keeper that does not know its  *)
(* key is lost is on its way to ask.                                       *)
(***************************************************************************)

\* A poll loop runs beside a keeper that holds, renews or has just ended.
LoopBesideKeeper(g) ==
    /\ g \in polling <=> keeper[g] \in Ticking \cup {"ended"}
    /\ keeper[g] \in Ticking => due[g] > 0

\* The key of a believer is its own and outlasts what comes before the next
\* execution of a renewal.
KeyOutlasts(g) ==
    g \in Believers /\ blind[g] = 0 =>
        /\ holder = g
        /\ ttl > 0
        /\ keeper[g] \in Calling /\ answer[g] = "yes" => ttl + elapsed[g] >= TTL
        /\ keeper[g] = "holding" /\ ~ fired[g] => ttl > due[g] + MaxCall
        /\ keeper[g] = "holding" /\ fired[g] => ttl > MaxCall
        /\ keeper[g] = "renewing" /\ answer[g] = "none" => ttl + elapsed[g] > MaxCall
        /\ keeper[g] = "renewing" => answer[g] # "no"

\* How long a believer may have been blind, by what it has yet to do.
BlindnessEnds(g) ==
    blind[g] > 0 =>
        /\ g \in Believers
        /\ holder # g
        /\ keeper[g] \in Calling /\ answer[g] = "yes" => blind[g] <= elapsed[g] + 1
        /\ keeper[g] = "holding" /\ ~ fired[g] => blind[g] + due[g] <= RenewEvery + MaxCall + 1
        /\ keeper[g] = "holding" /\ fired[g] => blind[g] <= RenewEvery + MaxCall + 1
        /\ keeper[g] = "renewing" /\ answer[g] # "yes"
              => blind[g] <= RenewEvery + MaxCall + 1 + elapsed[g]
        /\ blind[g] <= BlindLimit + 1

GatewayInv(g) == LoopBesideKeeper(g) /\ KeyOutlasts(g) /\ BlindnessEnds(g)

KeyLives == holder = Nobody <=> ttl = 0

LeaseInv == LeaseTypeOK /\ KeyLives /\ \A g \in Gateway : GatewayInv(g)

----------------------------------------------------------------------------
LEMMA LeaseInitially == LeaseInit => LeaseInv
BY Numbers DEF LeaseInit, LeaseInv, LeaseTypeOK, KeyLives, GatewayInv, LoopBesideKeeper,
   KeyOutlasts, BlindnessEnds, Believers, Calling, Ticking

(* One step per action.                                                    *)
LEMMA LeaseStep == LeaseInv /\ [LeaseNext]_leaseVars => LeaseInv'
<1> SUFFICES ASSUME LeaseInv, [LeaseNext]_leaseVars PROVE LeaseInv'
    OBVIOUS
<1> USE Numbers DEF LeaseInv, LeaseTypeOK, KeyLives, Calling, Ticking, Become, GatewayInv,
        LoopBesideKeeper, KeyOutlasts, BlindnessEnds, Believers, BlindLimit,
        keyVars, callVars, timerVars
<1>1. ASSUME NEW g \in Gateway, AcquireExecutes(g) PROVE LeaseInv'
    BY <1>1 DEF AcquireExecutes
<1>2. ASSUME NEW g \in Gateway, RenewExecutes(g) PROVE LeaseInv'
    BY <1>2 DEF RenewExecutes
<1>3. ASSUME NEW g \in Gateway, Acquire(g) PROVE LeaseInv'
    BY <1>3 DEF Acquire, StartCall
<1>4. ASSUME NEW g \in Gateway, Acquired(g) PROVE LeaseInv'
    BY <1>4 DEF Acquired
<1>5. ASSUME NEW g \in Gateway, NotAcquired(g) PROVE LeaseInv'
    BY <1>5 DEF NotAcquired, Retry
<1>6. ASSUME NEW g \in Gateway, AcquireFails(g) PROVE LeaseInv'
    BY <1>6 DEF AcquireFails, Retry, StopPolling, Fault
<1>7. ASSUME NEW g \in Gateway, Renew(g) PROVE LeaseInv'
    BY <1>7 DEF Renew, StartCall
<1>8. ASSUME NEW g \in Gateway, Renewed(g) PROVE LeaseInv'
    BY <1>8 DEF Renewed
<1>9. ASSUME NEW g \in Gateway, Lost(g) PROVE LeaseInv'
    BY <1>9 DEF Lost
<1>10. ASSUME NEW g \in Gateway, RenewFails(g) PROVE LeaseInv'
    BY <1>10 DEF RenewFails, Fault
<1>11. ASSUME NEW g \in Gateway, Ended(g) PROVE LeaseInv'
    BY <1>11 DEF Ended, Retry, StopPolling
<1>12. ASSUME NEW g \in Gateway, Release(g) PROVE LeaseInv'
    BY <1>12 DEF Release, Delete
<1>13. ASSUME NEW g \in Gateway, ReleaseFails(g) PROVE LeaseInv'
    BY <1>13 DEF ReleaseFails, Fault
<1>14. ASSUME NEW g \in Gateway, Shutdown(g) PROVE LeaseInv'
    BY <1>14 DEF Shutdown, StopPolling, Fault
<1>15. ASSUME NEW g \in Gateway, Crash(g) PROVE LeaseInv'
    BY <1>15 DEF Crash, StopPolling, Fault
<1>16. ASSUME NEW g \in Gateway, Restart(g) PROVE LeaseInv'
    BY <1>16 DEF Restart
<1>17. ASSUME KeyIsLost PROVE LeaseInv'
    BY <1>17 DEF KeyIsLost, Fault
<1>18. ASSUME Tick PROVE LeaseInv'
  <2> USE <1>18 DEF Tick, TimeMayPass
  <2>1. LeaseTypeOK' /\ KeyLives'
    OBVIOUS
  <2>2. ASSUME NEW g \in Gateway PROVE GatewayInv(g)'
    <3>1. LoopBesideKeeper(g)'
      OBVIOUS
    <3>2. g \in Believers' => g \in Believers /\ keeper[g] \in Calling \cup {"holding"}
      OBVIOUS
    <3>3. ASSUME keeper[g] = "holding"
          PROVE /\ ~ fired[g]
                /\ due[g] > 1 => ~ fired'[g] /\ due'[g] = due[g] - 1
                /\ due[g] <= 1 => fired'[g] /\ due[g] = 1
      <4>1. ~ fired[g]
        BY <3>3
      <4>2. fired'[g] <=> fired[g] \/ (keeper[g] \in Ticking /\ due[g] <= 1)
        BY Zenon
      <4>3. due[g] \in Nat /\ due[g] > 0
        BY <3>3
      <4>4. due[g] > 1 => due'[g] = due[g] - 1
        OBVIOUS
      <4>5. due[g] > 1 => ~ (due[g] <= 1)
        BY <4>3, SMT
      <4>6. due[g] <= 1 => due[g] = 1
        BY <4>3, SMT
      <4>7. QED
        BY <3>3, <4>1, <4>2, <4>4, <4>5, <4>6, Zenon
    <3>4. KeyOutlasts(g)'
      <4> SUFFICES ASSUME g \in Believers, blind[g] = 0 PROVE KeyOutlasts(g)'
        BY <3>2
      <4>1. CASE keeper[g] = "holding"
        <5>1. CASE due[g] > 1
          BY <3>3, <4>1, <5>1
        <5>2. CASE due[g] <= 1
          BY <3>3, <4>1, <5>2
        <5>3. QED
          BY <5>1, <5>2
      <4>2. CASE keeper[g] \in Calling /\ answer[g] = "yes"
        BY <4>2
      <4>3. CASE keeper[g] = "renewing" /\ answer[g] # "yes"
        BY <4>3
      <4>4. QED
        BY <3>2, <4>1, <4>2, <4>3
    <3>5. BlindnessEnds(g)'
      <4>1. CASE keeper[g] = "holding"
        <5>1. CASE due[g] > 1
          BY <3>3, <4>1, <5>1
        <5>2. CASE due[g] <= 1
          BY <3>3, <4>1, <5>2
        <5>3. QED
          BY <5>1, <5>2
      <4>2. CASE keeper[g] \in Calling /\ answer[g] = "yes"
        BY <4>2
      <4>3. CASE keeper[g] = "renewing" /\ answer[g] # "yes"
        BY <4>3
      <4>4. CASE g \notin Believers
        BY <4>4
      <4>5. QED
        BY <4>1, <4>2, <4>3, <4>4
    <3>6. QED
      BY <3>1, <3>4, <3>5
  <2>3. QED
    BY <2>1, <2>2
<1>19. ASSUME UNCHANGED leaseVars PROVE LeaseInv'
    BY <1>19 DEF leaseVars
<1>20. QED
    BY <1>1, <1>2, <1>3, <1>4, <1>5, <1>6, <1>7, <1>8, <1>9, <1>10,
       <1>11, <1>12, <1>13, <1>14, <1>15, <1>16, <1>17, <1>18, <1>19
    DEF LeaseNext, Serve, Interrupt

(* The invariant of the lease holds of every gateway at all times.         *)
THEOREM LeaseIsInvariant == LeaseSpec => []LeaseInv
BY LeaseInitially, LeaseStep, PTL DEF LeaseSpec

----------------------------------------------------------------------------
(* Every variable of the lease keeps its type.                             *)
THEOREM LeaseIsTyped == LeaseSpec => []LeaseTypeOK
<1>1. LeaseInv => LeaseTypeOK
  BY DEF LeaseInv
<1>2. QED
  BY <1>1, LeaseIsInvariant, PTL

(* Of two gateways that poll and whose keys were not lost, each holds the  *)
(* one key, so they are one (serveBotOnce: "Polling a bot this instance    *)
(* does not hold is the one thing the lease exists to prevent").           *)
THEOREM OnePollerAtMost == LeaseSpec => []AtMostOnePoller
<1>1. LeaseInv => AtMostOnePoller
  <2> SUFFICES ASSUME LeaseInv,
                      NEW g \in polling, NEW h \in polling, blind[g] = 0, blind[h] = 0
               PROVE  g = h
    BY DEF AtMostOnePoller
  <2>1. g \in Gateway /\ h \in Gateway
    BY DEF LeaseInv, LeaseTypeOK
  <2>2. holder = g /\ holder = h
    BY <2>1 DEF LeaseInv, GatewayInv, KeyOutlasts, Believers
  <2>3. QED
    BY <2>2
<1>2. QED
  BY <1>1, LeaseIsInvariant, PTL

(* A keeper whose key Redis lost has found out, and its loop has stopped,  *)
(* within a renewal interval and two calls.                                *)
THEOREM LossesAreNoticed == LeaseSpec => []LossIsNoticed
<1>1. LeaseInv => LossIsNoticed
  <2> SUFFICES ASSUME LeaseInv, NEW g \in polling PROVE blind[g] <= BlindLimit + 1
    BY DEF LossIsNoticed
  <2>1. g \in Gateway /\ blind[g] \in Nat /\ BlindLimit \in Nat
    BY Numbers DEF LeaseInv, LeaseTypeOK, BlindLimit
  <2>2. blind[g] > 0 => blind[g] <= BlindLimit + 1
    BY <2>1 DEF LeaseInv, GatewayInv, BlindnessEnds
  <2>3. QED
    BY <2>1, <2>2
<1>2. QED
  BY <1>1, LeaseIsInvariant, PTL

----------------------------------------------------------------------------
(* The updates.                                                            *)

LEMMA IntakeNumbers == MaxUpdate \in Nat /\ FetchLimit \in Nat
BY IntakeConstants

(* A set of updates that is not empty has a first one.                     *)
LEMMA FirstExists ==
    ASSUME NEW S \in SUBSET Update, S # {}
    PROVE  \E u \in S : \A v \in S : u <= v
<1>1. IsWellFoundedOn(OpToRel(<,Nat), Nat)
  BY NatLessThanWellFounded
<1>2. S \subseteq Nat
  BY IntakeNumbers DEF Update
<1>3. \E u \in S : \A v \in S : ~ (<<v, u>> \in OpToRel(<,Nat))
  BY <1>1, <1>2, WFMin
<1>4. \A u \in S, v \in S : ~ (<<v, u>> \in OpToRel(<,Nat)) => u <= v
  BY <1>2, SMT DEF OpToRel
<1>5. QED
  BY <1>3, <1>4

(* The next update of a batch is its first.                                *)
LEMMA NextIsFirst ==
    ASSUME NEW g \in Gateway, fetched[g] \in SUBSET Update, fetched[g] # {}
    PROVE  /\ NextUpdate(g) \in fetched[g]
           /\ \A v \in fetched[g] : NextUpdate(g) <= v
<1>1. \E u \in fetched[g] : \A v \in fetched[g] : u <= v
  BY FirstExists
<1>2. QED
  BY <1>1 DEF NextUpdate

----------------------------------------------------------------------------
(* Types.  The lease underneath is BotLease's, and its invariant goes with *)
(* it: a fault of the poll loop is none of the lease's.                    *)

LoopTypeOK ==
    /\ sent \in 0 .. MaxUpdate
    /\ confirmed \in 0 .. MaxUpdate
    /\ offset \in [Gateway -> 0 .. MaxUpdate + 1]
    /\ fetched \in [Gateway -> SUBSET Update]
    /\ current \in [Gateway -> 0 .. MaxUpdate]
    /\ seen \in SUBSET Update
    /\ handled \in SUBSET Update
    /\ published \in [Update -> Nat]
    /\ unchecked \in [Update -> Nat]

TypesAndLease == LeaseInv /\ LoopTypeOK

LEMMA TypedInitially == Init => TypesAndLease
BY LeaseInitially, IntakeNumbers
   DEF Init, TypesAndLease, LoopTypeOK, Update

LEMMA LeaseKept == LeaseInv /\ [IntakeNext]_vars => LeaseInv'
<1> SUFFICES ASSUME LeaseInv, [IntakeNext]_vars PROVE LeaseInv'
  OBVIOUS
<1>1. CASE ByLease(LeaseNext)
  BY <1>1, LeaseStep DEF ByLease
<1>2. CASE UNCHANGED leaseVars
  BY <1>2, LeaseStep
<1>3. CASE UNCHANGED <<keyVars, keeper, callVars, timerVars, polling, blind>> /\ Fault
  <2>1. faults' \in 0 .. MaxFaults
    BY <1>3, Numbers DEF Fault, LeaseInv, LeaseTypeOK
  <2>2. QED
    BY <1>3, <2>1 DEF LeaseInv, LeaseTypeOK, KeyLives, GatewayInv, LoopBesideKeeper,
       KeyOutlasts, BlindnessEnds, Believers, keyVars, callVars, timerVars
<1>4. QED
  BY <1>1, <1>2, <1>3 DEF IntakeNext, Poll, Send, GetUpdates, Admit, Suppress, AdmitUnchecked,
     Publish, Ignore, PublishFails, UnchangedLease, vars, leaseVars

(* Where a loop stands in its batch.                                       *)
LEMMA BeginTyped ==
    ASSUME TypesAndLease, NEW g \in Gateway, Begin(g)
    PROVE  /\ NextUpdate(g) \in Update /\ NextUpdate(g) \in fetched[g]
           /\ \A v \in fetched[g] : NextUpdate(g) <= v
           /\ offset' \in [Gateway -> 0 .. MaxUpdate + 1]
           /\ fetched' \in [Gateway -> SUBSET Update]
           /\ current[g] = 0
<1>1. fetched[g] \in SUBSET Update /\ fetched[g] # {}
  BY DEF TypesAndLease, LoopTypeOK, Begin
<1>2. NextUpdate(g) \in fetched[g] /\ \A v \in fetched[g] : NextUpdate(g) <= v
  BY <1>1, NextIsFirst
<1>3. NextUpdate(g) \in 1 .. MaxUpdate
  BY <1>1, <1>2 DEF Update
<1>4. NextUpdate(g) + 1 \in 0 .. MaxUpdate + 1
  BY <1>3, IntakeNumbers
<1>5. offset' \in [Gateway -> 0 .. MaxUpdate + 1]
  BY <1>4 DEF TypesAndLease, LoopTypeOK, Begin
<1>6. fetched' \in [Gateway -> SUBSET Update] /\ current[g] = 0
  BY DEF TypesAndLease, LoopTypeOK, Begin
<1>7. QED
  BY <1>2, <1>3, <1>5, <1>6 DEF Update

LEMMA TypedStep == TypesAndLease /\ [IntakeNext]_vars => TypesAndLease'
<1> SUFFICES ASSUME TypesAndLease, [IntakeNext]_vars PROVE LoopTypeOK'
  BY LeaseKept DEF TypesAndLease
<1>1. LoopTypeOK
  BY DEF TypesAndLease
<1>2. CASE ByLease(LeaseNext)
  BY <1>1, <1>2, IntakeNumbers DEF ByLease, LoopTypeOK, FirstOffset, intakeVars
<1>3. CASE Send
  BY <1>1, <1>3, IntakeNumbers DEF Send, LoopTypeOK, loopVars
<1>4. ASSUME NEW g \in Gateway, GetUpdates(g) PROVE LoopTypeOK'
  <2>1. confirmed' \in 0 .. MaxUpdate
    BY <1>1, <1>4, IntakeNumbers DEF GetUpdates, LoopTypeOK
  <2>2. fetched' \in [Gateway -> SUBSET Update]
    BY <1>1, <1>4 DEF GetUpdates, Answer, LoopTypeOK
  <2>3. QED
    BY <1>1, <1>4, <2>1, <2>2 DEF GetUpdates, LoopTypeOK
<1>5. ASSUME NEW g \in Gateway, Admit(g) \/ Suppress(g) \/ AdmitUnchecked(g) PROVE LoopTypeOK'
  <2>1. Begin(g)
    BY <1>5 DEF Admit, Suppress, AdmitUnchecked
  <2>2. /\ NextUpdate(g) \in Update
        /\ offset' \in [Gateway -> 0 .. MaxUpdate + 1]
        /\ fetched' \in [Gateway -> SUBSET Update]
    BY <2>1, BeginTyped
  <2>3. current' \in [Gateway -> 0 .. MaxUpdate]
    <3>1. NextUpdate(g) \in 0 .. MaxUpdate
      BY <2>2, IntakeNumbers DEF Update
    <3>2. current' = current \/ current' = [current EXCEPT ![g] = NextUpdate(g)]
      BY <1>5 DEF Admit, Suppress, AdmitUnchecked
    <3>3. QED
      BY <1>1, <3>1, <3>2 DEF LoopTypeOK
  <2>4. unchecked' \in [Update -> Nat]
    BY <1>1, <1>5, <2>2 DEF Admit, Suppress, AdmitUnchecked, LoopTypeOK, intakeVars
  <2>5. QED
    BY <1>1, <1>5, <2>2, <2>3, <2>4
    DEF Admit, Suppress, AdmitUnchecked, LoopTypeOK, intakeVars
<1>6. ASSUME NEW g \in Gateway, Publish(g) \/ Ignore(g) \/ PublishFails(g) PROVE LoopTypeOK'
  <2>1. current[g] \in Update
    BY <1>1, <1>6, IntakeNumbers DEF Publish, Ignore, PublishFails, LoopTypeOK, Update
  <2>2. QED
    BY <1>1, <1>6, <2>1, IntakeNumbers DEF Publish, Ignore, PublishFails, Finish, LoopTypeOK
<1>7. CASE UNCHANGED vars
  BY <1>1, <1>7 DEF LoopTypeOK, vars, loopVars, intakeVars
<1>8. QED
  BY <1>2, <1>3, <1>4, <1>5, <1>6, <1>7 DEF IntakeNext, Poll

(* Every variable of the intake keeps its type.                            *)
THEOREM IntakeIsTyped == Spec => []TypeOK
<1>1. TypesAndLease => TypeOK
  BY DEF TypesAndLease, LeaseInv, LoopTypeOK, TypeOK
<1>2. QED
  BY <1>1, TypedInitially, TypedStep, PTL DEF Spec

----------------------------------------------------------------------------
(***************************************************************************)
(* What is confirmed was begun: a loop confirms what lies below its        *)
(* offset, it begins its batch in order, and a batch starts right behind   *)
(* what was confirmed.                                                     *)
(***************************************************************************)
Begun(u) == u \in seen \/ unchecked[u] > 0

BatchesInOrder ==
    \A g \in Gateway :
        /\ \A u \in Update : u < offset[g] => Begun(u)
        /\ \A u \in Update, v \in fetched[g] : u < v /\ u \notin fetched[g] => Begun(u)

BegunInv == TypesAndLease /\ ConfirmedWasBegun /\ BatchesInOrder

LEMMA AnswersHaveNoGap ==
    ASSUME NEW c \in Nat, NEW s \in Nat
    PROVE  \A u \in Update, v \in Answer(c, s) : u < v /\ u \notin Answer(c, s) => u \in 1 .. c
BY IntakeNumbers DEF Answer, Update

LEMMA BegunStays ==
    ASSUME TypesAndLease, [IntakeNext]_vars, NEW u \in Update, Begun(u)
    PROVE  Begun(u)'
<1>1. seen \subseteq seen'
  BY DEF IntakeNext, Poll, ByLease, Send, GetUpdates, Admit, Suppress, AdmitUnchecked,
     Publish, Ignore, PublishFails, Finish, vars, intakeVars
<1>2. CASE unchecked' = unchecked
  BY <1>1, <1>2 DEF Begun
<1>3. ASSUME NEW g \in Gateway, AdmitUnchecked(g) PROVE Begun(u)'
  <2>1. NextUpdate(g) \in Update
    BY <1>3, BeginTyped DEF AdmitUnchecked
  <2>2. QED
    BY <1>1, <1>3, <2>1 DEF AdmitUnchecked, Begun, TypesAndLease, LoopTypeOK
<1>4. QED
  BY <1>2, <1>3 DEF IntakeNext, Poll, ByLease, Send, GetUpdates, Admit, Suppress,
     Publish, Ignore, PublishFails, Finish, vars, intakeVars

LEMMA BegunStep == BegunInv /\ [IntakeNext]_vars => BegunInv'
<1> SUFFICES ASSUME BegunInv, [IntakeNext]_vars PROVE ConfirmedWasBegun' /\ BatchesInOrder'
  BY TypedStep DEF BegunInv
<1>1. LoopTypeOK /\ LoopTypeOK' /\ TypesAndLease
  BY TypedStep DEF BegunInv, TypesAndLease
<1>2. \A u \in Update : Begun(u) => Begun(u)'
  BY <1>1, BegunStays
<1>3. \A u \in 1 .. confirmed : u \in Update /\ Begun(u)
  BY <1>1, IntakeNumbers DEF BegunInv, ConfirmedWasBegun, Begun, LoopTypeOK, Update
<1>4. CASE UNCHANGED <<confirmed, offset, fetched>>
  BY <1>1, <1>2, <1>3, <1>4 DEF BegunInv, ConfirmedWasBegun, BatchesInOrder, Begun
<1>5. CASE ByLease(LeaseNext)
  <2>1. \A g \in Gateway : /\ offset'[g] = offset[g] \/ offset'[g] = 0
                           /\ fetched'[g] = fetched[g] \/ fetched'[g] = {}
    BY <1>5 DEF ByLease, FirstOffset
  <2>2. BatchesInOrder'
    BY <1>1, <1>2, <2>1, IntakeNumbers DEF BegunInv, BatchesInOrder, Update
  <2>3. ConfirmedWasBegun'
    BY <1>5, <1>2, <1>3 DEF ByLease, intakeVars, ConfirmedWasBegun, Begun
  <2>4. QED
    BY <2>2, <2>3
<1>6. ASSUME NEW g \in Gateway, GetUpdates(g) PROVE ConfirmedWasBegun' /\ BatchesInOrder'
  <2>1. \A u \in 1 .. confirmed' : u \in Update /\ Begun(u)
    BY <1>1, <1>3, <1>6, IntakeNumbers
    DEF GetUpdates, BegunInv, BatchesInOrder, LoopTypeOK, Update
  <2>2. \A u \in 1 .. confirmed' : u \in Update /\ Begun(u)'
    BY <1>2, <2>1
  <2>3. \A u \in Update, v \in fetched'[g] : u < v /\ u \notin fetched'[g] => u \in 1 .. confirmed'
    <3>1. PICK c \in Nat : c = confirmed'
      BY <1>1, IntakeNumbers DEF LoopTypeOK
    <3>2. fetched'[g] = Answer(c, sent) \/ fetched'[g] = {}
      BY <1>1, <1>6, <3>1 DEF GetUpdates, LoopTypeOK, Answer
    <3>3. sent \in Nat
      BY <1>1, IntakeNumbers DEF LoopTypeOK
    <3>4. QED
      BY <3>1, <3>2, <3>3, AnswersHaveNoGap
  <2>4. /\ offset' = offset
        /\ \A h \in Gateway : h # g => fetched'[h] = fetched[h]
    BY <1>1, <1>6 DEF GetUpdates, LoopTypeOK
  <2>5. BatchesInOrder'
    BY <1>2, <2>2, <2>3, <2>4 DEF BegunInv, BatchesInOrder
  <2>6. QED
    BY <2>2, <2>5 DEF ConfirmedWasBegun, Begun
<1>7. ASSUME NEW g \in Gateway, Admit(g) \/ Suppress(g) \/ AdmitUnchecked(g)
      PROVE  ConfirmedWasBegun' /\ BatchesInOrder'
  <2>1. Begin(g) /\ confirmed' = confirmed
    BY <1>7 DEF Admit, Suppress, AdmitUnchecked, intakeVars
  <2>2. PICK n \in Update : /\ n = NextUpdate(g)
                           /\ n \in fetched[g] /\ \A v \in fetched[g] : n <= v
    BY <1>1, <2>1, BeginTyped
  <2>3. Begun(n)'
    <3>1. CASE Admit(g) \/ Suppress(g)
      BY <3>1, <2>2 DEF Admit, Suppress, Begun, intakeVars
    <3>2. CASE AdmitUnchecked(g)
      BY <3>2, <2>2, <1>1 DEF AdmitUnchecked, Begun, LoopTypeOK
    <3>3. QED
      BY <1>7, <3>1, <3>2
  <2>4. \A u \in Update : u < n => Begun(u)
    <3>1. \A u \in Update : u < n => u \notin fetched[g]
      BY <1>1, <2>2, IntakeNumbers DEF LoopTypeOK, Update
    <3>2. QED
      BY <2>2, <3>1 DEF BegunInv, BatchesInOrder
  <2>5. /\ offset' = [offset EXCEPT ![g] = n + 1]
        /\ fetched' = [fetched EXCEPT ![g] = @ \ {n}]
    BY <2>1, <2>2 DEF Begin
  <2>6. \A u \in Update : u < offset'[g] => Begun(u)'
    BY <1>1, <1>2, <2>2, <2>3, <2>4, <2>5, IntakeNumbers DEF LoopTypeOK, Update
  <2>7. \A u \in Update, v \in fetched'[g] : u < v /\ u \notin fetched'[g] => Begun(u)'
    BY <1>1, <1>2, <2>3, <2>5 DEF BegunInv, BatchesInOrder, LoopTypeOK
  <2>8. \A h \in Gateway : h # g => offset'[h] = offset[h] /\ fetched'[h] = fetched[h]
    BY <1>1, <2>5 DEF LoopTypeOK
  <2>9. BatchesInOrder'
    BY <1>2, <2>6, <2>7, <2>8 DEF BegunInv, BatchesInOrder
  <2>10. QED
    BY <1>2, <1>3, <2>1, <2>9 DEF ConfirmedWasBegun, Begun
<1>8. QED
  BY <1>4, <1>5, <1>6, <1>7 DEF IntakeNext, Poll, Send, Publish, Ignore, PublishFails, Finish,
     vars, loopVars, intakeVars

(* No update is confirmed, and forgotten by Telegram, that no loop began   *)
(* to handle: poll moves its offset before it handles an update, and never *)
(* past one it has not reached.                                            *)
THEOREM NothingIsSkipped == Spec => []ConfirmedWasBegun
<1>1. Init => BegunInv
  BY TypedInitially, IntakeNumbers
  DEF Init, BegunInv, ConfirmedWasBegun, BatchesInOrder, Update
<1>2. BegunInv => ConfirmedWasBegun
  BY DEF BegunInv
<1>3. QED
  BY <1>1, <1>2, BegunStep, PTL DEF Spec

----------------------------------------------------------------------------
(***************************************************************************)
(* Each update is published at most once for each time it was let through: *)
(* what was published and what is under way add up to no more than the     *)
(* deduplication key and the unanswered questions account for.             *)
(***************************************************************************)
Handling(u) == {g \in Gateway : current[g] = u}
Granted(u) == unchecked[u] + (IF u \in seen THEN 1 ELSE 0)

Accounted(u) ==
    /\ IsFiniteSet(Handling(u))
    /\ published[u] + Cardinality(Handling(u)) <= Granted(u)

AccountInv == TypesAndLease /\ \A u \in Update : Accounted(u)

(* A loop takes up an update, lets go of it, or leaves it alone.           *)
LEMMA TakenUp ==
    ASSUME TypesAndLease, NEW g \in Gateway, current[g] = 0, NEW n \in Update,
           current' = [current EXCEPT ![g] = n]
    PROVE  /\ Handling(n)' = Handling(n) \cup {g} /\ g \notin Handling(n)
           /\ \A u \in Update : u # n => Handling(u)' = Handling(u)
BY IntakeNumbers DEF TypesAndLease, LoopTypeOK, Handling, Update

LEMMA LetGo ==
    ASSUME TypesAndLease, NEW g \in Gateway, NEW n \in Update, current[g] = n,
           current' = [current EXCEPT ![g] = 0]
    PROVE  /\ Handling(n)' = Handling(n) \ {g} /\ g \in Handling(n)
           /\ \A u \in Update : u # n => Handling(u)' = Handling(u)
BY IntakeNumbers DEF TypesAndLease, LoopTypeOK, Handling, Update

LEMMA AccountStep == AccountInv /\ [IntakeNext]_vars => AccountInv'
<1> SUFFICES ASSUME AccountInv, [IntakeNext]_vars, NEW u \in Update PROVE Accounted(u)'
  BY TypedStep DEF AccountInv
<1>1. TypesAndLease /\ LoopTypeOK /\ LoopTypeOK' /\ Accounted(u)
  BY TypedStep DEF AccountInv, TypesAndLease
<1>2. /\ Cardinality(Handling(u)) \in Nat
      /\ published[u] \in Nat /\ unchecked[u] \in Nat /\ published'[u] \in Nat /\ unchecked'[u] \in Nat
  BY <1>1, FS_CardinalityType DEF Accounted, LoopTypeOK
<1>3. CASE UNCHANGED <<current, published, seen, unchecked>>
  BY <1>1, <1>3 DEF Accounted, Handling, Granted
<1>4. CASE ByLease(LeaseNext)
  <2>1. PICK H : H = Handling(u)'
    OBVIOUS
  <2>2. H \subseteq Handling(u)
    BY <2>1, <1>1, <1>4, IntakeNumbers DEF ByLease, Handling, Update, LoopTypeOK
  <2>3. IsFiniteSet(H) /\ Cardinality(H) <= Cardinality(Handling(u)) /\ Cardinality(H) \in Nat
    BY <2>2, <1>1, FS_Subset, FS_CardinalityType DEF Accounted
  <2>4. published' = published /\ Granted(u)' = Granted(u)
    BY <1>4 DEF ByLease, intakeVars, Granted
  <2>5. published[u] + Cardinality(H) <= Granted(u)
    BY <2>3, <1>1, <1>2 DEF Accounted, Granted
  <2>6. QED
    BY <2>1, <2>3, <2>4, <2>5 DEF Accounted
<1>5. ASSUME NEW g \in Gateway, Admit(g) \/ AdmitUnchecked(g) PROVE Accounted(u)'
  <2>1. Begin(g)
    BY <1>5 DEF Admit, AdmitUnchecked
  <2>2. PICK n \in Update : n = NextUpdate(g) /\ current[g] = 0
    BY <1>1, <2>1, BeginTyped
  <2>3. current' = [current EXCEPT ![g] = n] /\ published' = published
    BY <1>5, <2>2 DEF Admit, AdmitUnchecked
  <2>4. /\ Handling(n)' = Handling(n) \cup {g} /\ g \notin Handling(n)
        /\ u # n => Handling(u)' = Handling(u)
    BY <1>1, <2>2, <2>3, TakenUp
  <2>5. Granted(u) \in Nat /\ Granted(u)' \in Nat
    BY <1>2 DEF Granted
  <2>6. CASE u = n
    <3>1. PICK H : H = Handling(u)'
      OBVIOUS
    <3>2. IsFiniteSet(H) /\ Cardinality(H) = Cardinality(Handling(u)) + 1
      BY <1>1, <2>4, <2>6, <3>1, FS_AddElement DEF Accounted
    <3>3. Granted(u)' >= Granted(u) + 1
      <4>1. CASE Admit(g)
        BY <1>2, <2>2, <2>6, <4>1 DEF Admit, Granted
      <4>2. CASE AdmitUnchecked(g)
        BY <1>1, <1>2, <2>2, <2>6, <4>2 DEF AdmitUnchecked, Granted, LoopTypeOK
      <4>3. QED
        BY <1>5, <4>1, <4>2
    <3>4. published[u] + Cardinality(H) <= Granted(u)'
      BY <1>1, <1>2, <2>5, <3>2, <3>3 DEF Accounted
    <3>5. QED
      BY <2>3, <3>1, <3>2, <3>4 DEF Accounted
  <2>7. CASE u # n
    <3>1. Granted(u)' = Granted(u)
      <4>1. u \in seen' <=> u \in seen
        BY <1>5, <2>2, <2>7 DEF Admit, AdmitUnchecked
      <4>2. unchecked'[u] = unchecked[u]
        BY <1>1, <1>5, <2>2, <2>7 DEF Admit, AdmitUnchecked, LoopTypeOK
      <4>3. QED
        BY <4>1, <4>2 DEF Granted
    <3>2. QED
      BY <1>1, <2>3, <2>4, <2>7, <3>1 DEF Accounted
  <2>8. QED
    BY <2>6, <2>7
<1>6. ASSUME NEW g \in Gateway, Publish(g) \/ Ignore(g) \/ PublishFails(g)
      PROVE  Accounted(u)'
  <2>1. PICK n \in Update : n = current[g]
    <3>1. current[g] # 0
      BY <1>6 DEF Publish, Ignore, PublishFails
    <3>2. current[g] \in 0 .. MaxUpdate
      BY <1>1 DEF LoopTypeOK
    <3>3. QED
      BY <3>1, <3>2, IntakeNumbers DEF Update
  <2>2. /\ current' = [current EXCEPT ![g] = 0]
        /\ UNCHANGED <<seen, unchecked>>
        /\ published' = published \/ published' = [published EXCEPT ![n] = @ + 1]
    BY <1>6, <2>1 DEF Publish, Ignore, PublishFails, Finish
  <2>3. /\ Handling(n)' = Handling(n) \ {g} /\ g \in Handling(n)
        /\ u # n => Handling(u)' = Handling(u)
    BY <1>1, <2>1, <2>2, LetGo
  <2>4. Granted(u)' = Granted(u) /\ Granted(u) \in Nat
    BY <1>2, <2>2 DEF Granted
  <2>5. CASE u = n
    <3>1. PICK H : H = Handling(u)'
      OBVIOUS
    <3>2. /\ IsFiniteSet(H)
          /\ Cardinality(H) = Cardinality(Handling(u)) - 1
      BY <1>1, <2>3, <2>5, <3>1, FS_RemoveElement DEF Accounted
    <3>3. published'[u] <= published[u] + 1
      BY <1>1, <1>2, <2>2, <2>5 DEF LoopTypeOK
    <3>4. published'[u] + Cardinality(H) <= Granted(u)
      BY <1>1, <1>2, <2>4, <3>2, <3>3 DEF Accounted
    <3>5. QED
      BY <2>4, <3>1, <3>2, <3>4 DEF Accounted
  <2>6. CASE u # n
    <3>1. published'[u] = published[u]
      BY <1>1, <2>2, <2>6 DEF LoopTypeOK
    <3>2. QED
      BY <1>1, <2>3, <2>4, <2>6, <3>1 DEF Accounted
  <2>7. QED
    BY <2>5, <2>6
<1>7. QED
  BY <1>3, <1>4, <1>5, <1>6 DEF IntakeNext, Poll, Send, GetUpdates, Suppress, vars, loopVars,
     intakeVars

(* Whoever polls and whatever is delivered again, an update becomes one    *)
(* command, and one more for each time Redis could not be asked (Seen:     *)
(* "SET NX makes exactly one of them win inside Redis").                   *)
THEOREM OneCommandEach == Spec => []OneCommandPerUpdate
<1>1. Init => AccountInv
  <2> SUFFICES ASSUME Init, NEW u \in Update PROVE Accounted(u)
    BY TypedInitially DEF AccountInv
  <2>1. Handling(u) = {}
    BY IntakeNumbers DEF Init, Handling, Update
  <2>2. QED
    BY <2>1, FS_EmptySet DEF Init, Accounted, Granted
<1>2. AccountInv => OneCommandPerUpdate
  <2> SUFFICES ASSUME AccountInv, NEW u \in Update PROVE published[u] <= 1 + unchecked[u]
    BY DEF OneCommandPerUpdate
  <2>1. published[u] \in Nat /\ unchecked[u] \in Nat
    BY DEF AccountInv, TypesAndLease, LoopTypeOK
  <2>2. Cardinality(Handling(u)) \in Nat
    BY FS_CardinalityType DEF AccountInv, Accounted
  <2>3. QED
    BY <2>1, <2>2 DEF AccountInv, Accounted, Granted
<1>3. QED
  BY <1>1, <1>2, AccountStep, PTL DEF Spec
=============================================================================
