----------------------- MODULE PlayerActivities_proofs -----------------------
(***************************************************************************)
(* Why two commands that lock the condition row cannot begin activities    *)
(* that exclude each other.  A transaction holds every row it has locked   *)
(* (LocksAreHeld), so what it read after locking the condition row is      *)
(* still so (WhatWasReadHolds): whoever begins an activity locks that row. *)
(* What it read before is another matter: the last part shows that this is *)
(* all that stands between the code and what its comments say.             *)
(***************************************************************************)
EXTENDS PlayerActivities, TLAPS

\* A running command is at one of its statements, the next one at its first.
AtAStatement ==
  \A t \in Txns : /\ op[t] \in Ops => pc[t] \in 1 .. Len(Order[op[t]])
                  /\ op[t] = "none" => pc[t] = 1

\* The statements of its command a transaction has behind it.
Done(t) == {i \in 1 .. 9 : i < pc[t]}

\* The rows a transaction has locked are still its own.
LocksAreHeld ==
  \A t \in Txns : op[t] \in Ops =>
    \A i \in Done(t) : Order[op[t]][i] \in Rows => owner[Order[op[t]][i]] = t

\* What a check found after the condition row was locked is still so, but for
\* a sentence, which a conviction may bring at any time.
WhatWasReadHolds ==
  \A t \in Txns : op[t] \in Ops =>
    \A i, j \in Done(t) :
      j < i /\ Order[op[t]][j] = "condition" /\ Order[op[t]][i] \in DOMAIN Refuses =>
        busy \cap (Refuses[Order[op[t]][i]] \ {"sentence"}) = {}

\* A sentence not found after the criminal profile was locked has not come since.
NoSentenceSince ==
  \A t \in Txns : op[t] \in Ops =>
    \A i, j \in Done(t) :
      j < i /\ Order[op[t]][j] = "profile" /\ Order[op[t]][i] = "detained" =>
        "sentence" \notin busy

\* A traveller has read the city they leave from.
CityIsRead ==
  \A t \in Txns : op[t] = "travel_start" /\ pc[t] > 1 => seen[t] \in Cities

ActivityInv ==
  /\ TypeOK
  /\ AtAStatement
  /\ CityIsRead
  /\ LocksAreHeld
  /\ WhatWasReadHolds
  /\ NoSentenceSince
  /\ NoShiftOnTheRoad
  /\ NoCrimeOnTheRoad

-----------------------------------------------------------------------------
(***************************************************************************)
(* The shape of the commands.                                              *)
(***************************************************************************)

\* At most nine statements; the writes are the last one and only the last.
WellShaped(s) ==
  /\ Len(s) \in 1 .. 9
  /\ \A i \in 1 .. Len(s) : s[i] = "write" <=> i = Len(s)

LEMMA OrderShape ==
  ASSUME NEW o \in Ops
  PROVE  WellShaped(Order[o])
<1>1. WellShaped(StartTravel) /\ WellShaped(Work)
  BY DEF WellShaped, StartTravel, Work
<1>2. WellShaped(Go) /\ WellShaped(Commit)
  BY DEF WellShaped, Go, Commit
<1>3. /\ WellShaped(CompleteTravel) /\ WellShaped(FinishShift) /\ WellShaped(ArriveWalk)
      /\ WellShaped(Resolve) /\ WellShaped(Conclude) /\ WellShaped(Injure)
  BY DEF WellShaped, CompleteTravel, FinishShift, ArriveWalk, Resolve, Conclude, Injure
<1>4. Order[o] \in {StartTravel, Work, Go, Commit, CompleteTravel, FinishShift,
                    ArriveWalk, Resolve, Conclude, Injure}
  BY DEF Ops, Order
<1> QED
  BY <1>1, <1>2, <1>3, <1>4

\* Whoever adds to what the player is busy with, but for a sentence, has the
\* condition row locked by then.
LEMMA WritersLockTheCondition ==
  /\ Len(Order.travel_start) = 9 /\ Order.travel_start[5] = "condition"
  /\ Len(Order.job_work) = 9 /\ Order.job_work[6] = "condition"
  /\ Len(Order.place_go) = 7 /\ Order.place_go[3] = "condition"
  /\ Len(Order.crime_commit) = 8 /\ Order.crime_commit[3] = "condition"
  /\ Len(Order.job_finish_shift) = 4 /\ Order.job_finish_shift[3] = "condition"
  /\ Len(Order.crime_resolve) = 4 /\ Order.crime_resolve[3] = "condition"
  /\ Len(Order.injure) = 2 /\ Order.injure[1] = "condition"
BY DEF Order, StartTravel, Work, Go, Commit, FinishShift, Resolve, Injure

\* Whoever jails a player has their criminal profile locked by then.
LEMMA JailersLockTheProfile ==
  /\ Order.crime_commit[2] = "profile"
  /\ Len(Order.crime_resolve) = 4 /\ Order.crime_resolve[1] = "profile"
  /\ Len(Order.crime_conclude) = 2 /\ Order.crime_conclude[1] = "profile"
BY DEF Order, Commit, Resolve, Conclude

\* What each command that begins an activity reads after the lock.
LEMMA ReadUnderTheLock ==
  /\ Order.travel_start[6] = "work" /\ Order.travel_start[7] = "detained"
  /\ Order.travel_start[8] = "walking"
  /\ Order.job_work[7] = "road"
  /\ Order.crime_commit[4] = "road" /\ Order.crime_commit[5] = "detained"
  /\ Order.crime_commit[6] = "work" /\ Order.crime_commit[7] = "walking"
BY DEF Order, StartTravel, Work, Commit

LEMMA PlayerIsReadFirst == Order.travel_start[1] = "player" /\ "travel_start" \in Ops
BY DEF Ops, Order, StartTravel

LEMMA OneMore ==
  ASSUME NEW n \in 1 .. 9, NEW k \in 1 .. n, k # n
  PROVE  k + 1 \in 1 .. n /\ k + 1 \in 1 .. 9
OBVIOUS

LEMMA FirstOne ==
  ASSUME NEW n \in 1 .. 9
  PROVE  1 \in 1 .. n
OBVIOUS

LEMMA NoneIsNoCommand == "none" \notin Ops
BY DEF Ops, Order

LEMMA Refusals ==
  /\ DOMAIN Refuses = {"road", "work", "detained", "walking"}
  /\ Refuses["road"] = {"journey"} /\ Refuses["work"] = {"shift"}
  /\ Refuses["detained"] = {"sentence", "crime", "stay"} /\ Refuses["walking"] = {"walk"}
BY DEF Refuses

-----------------------------------------------------------------------------
(***************************************************************************)
(* What a transaction that is about to write holds and knows.              *)
(***************************************************************************)

LEMMA AtTheWrites ==
  ASSUME ActivityInv, NEW t \in Txns, NEW o \in Ops, Writes(t, o)
  PROVE  /\ op[t] = o
         /\ pc[t] = Len(Order[o])
         /\ pc[t] \in 1 .. 9
<1>1. op[t] = o /\ Order[o][pc[t]] = "write" /\ pc[t] \in 1 .. Len(Order[o])
  BY DEF ActivityInv, AtAStatement, Writes, At
<1>2. WellShaped(Order[o])
  BY OrderShape
<1> QED
  BY <1>1, <1>2 DEF WellShaped

LEMMA ConditionIsHeld ==
  ASSUME ActivityInv, NEW t \in Txns,
         NEW o \in {"travel_start", "job_work", "place_go", "crime_commit",
                   "job_finish_shift", "crime_resolve", "injure"},
         Writes(t, o)
  PROVE  owner["condition"] = t
<1>1. o \in Ops
  BY DEF Ops, Order
<1>2. op[t] = o /\ pc[t] = Len(Order[o])
  BY <1>1, AtTheWrites
<1>3. \E i \in Done(t) : Order[op[t]][i] = "condition"
  <2>1. CASE o = "travel_start"
    <3>1. pc[t] = 9 /\ Order[op[t]][5] = "condition"
      BY <1>2, <2>1, WritersLockTheCondition
    <3>2. 5 \in Done(t)
      BY <3>1 DEF Done
    <3>3. QED
      BY <3>1, <3>2
  <2>2. CASE o = "job_work"
    <3>1. pc[t] = 9 /\ Order[op[t]][6] = "condition"
      BY <1>2, <2>2, WritersLockTheCondition
    <3>2. 6 \in Done(t)
      BY <3>1 DEF Done
    <3>3. QED
      BY <3>1, <3>2
  <2>3. CASE o = "place_go"
    <3>1. pc[t] = 7 /\ Order[op[t]][3] = "condition"
      BY <1>2, <2>3, WritersLockTheCondition
    <3>2. 3 \in Done(t)
      BY <3>1 DEF Done
    <3>3. QED
      BY <3>1, <3>2
  <2>4. CASE o = "crime_commit"
    <3>1. pc[t] = 8 /\ Order[op[t]][3] = "condition"
      BY <1>2, <2>4, WritersLockTheCondition
    <3>2. 3 \in Done(t)
      BY <3>1 DEF Done
    <3>3. QED
      BY <3>1, <3>2
  <2>5. CASE o = "job_finish_shift"
    <3>1. pc[t] = 4 /\ Order[op[t]][3] = "condition"
      BY <1>2, <2>5, WritersLockTheCondition
    <3>2. 3 \in Done(t)
      BY <3>1 DEF Done
    <3>3. QED
      BY <3>1, <3>2
  <2>6. CASE o = "crime_resolve"
    <3>1. pc[t] = 4 /\ Order[op[t]][3] = "condition"
      BY <1>2, <2>6, WritersLockTheCondition
    <3>2. 3 \in Done(t)
      BY <3>1 DEF Done
    <3>3. QED
      BY <3>1, <3>2
  <2>7. CASE o = "injure"
    <3>1. pc[t] = 2 /\ Order[op[t]][1] = "condition"
      BY <1>2, <2>7, WritersLockTheCondition
    <3>2. 1 \in Done(t)
      BY <3>1 DEF Done
    <3>3. QED
      BY <3>1, <3>2
  <2> QED
    BY <2>1, <2>2, <2>3, <2>4, <2>5, <2>6, <2>7
<1> QED
  BY <1>1, <1>2, <1>3 DEF ActivityInv, LocksAreHeld, Rows

LEMMA ProfileIsHeld ==
  ASSUME ActivityInv, NEW t \in Txns,
         NEW o \in {"crime_commit", "crime_resolve", "crime_conclude"},
         Writes(t, o)
  PROVE  owner["profile"] = t
<1>1. o \in Ops
  BY DEF Ops, Order
<1>2. op[t] = o /\ pc[t] = Len(Order[o])
  BY <1>1, AtTheWrites
<1>3. \E i \in Done(t) : Order[op[t]][i] = "profile"
  <2>1. CASE o = "crime_commit"
    <3>1. pc[t] = 8 /\ Order[op[t]][2] = "profile"
      BY <1>2, <2>1, JailersLockTheProfile, WritersLockTheCondition
    <3>2. 2 \in Done(t)
      BY <3>1 DEF Done
    <3>3. QED
      BY <3>1, <3>2
  <2>2. CASE o = "crime_resolve"
    <3>1. pc[t] = 4 /\ Order[op[t]][1] = "profile"
      BY <1>2, <2>2, JailersLockTheProfile, WritersLockTheCondition
    <3>2. 1 \in Done(t)
      BY <3>1 DEF Done
    <3>3. QED
      BY <3>1, <3>2
  <2>3. CASE o = "crime_conclude"
    <3>1. pc[t] = 2 /\ Order[op[t]][1] = "profile"
      BY <1>2, <2>3, JailersLockTheProfile, WritersLockTheCondition
    <3>2. 1 \in Done(t)
      BY <3>1 DEF Done
    <3>3. QED
      BY <3>1, <3>2
  <2> QED
    BY <2>1, <2>2, <2>3
<1> QED
  BY <1>1, <1>2, <1>3 DEF ActivityInv, LocksAreHeld, Rows

\* A departure about to be written leaves nobody at work, in a crime, in
\* hospital or on a walk.
LEMMA DepartureIsFree ==
  ASSUME ActivityInv, NEW t \in Txns, Writes(t, "travel_start")
  PROVE  busy \cap {"shift", "crime", "stay", "walk"} = {}
<1>1. "travel_start" \in Ops
  BY DEF Ops, Order
<1>2. op[t] = "travel_start" /\ pc[t] = 9
  BY <1>1, AtTheWrites, WritersLockTheCondition
<1>3. 5 \in Done(t) /\ 6 \in Done(t) /\ 7 \in Done(t) /\ 8 \in Done(t)
  BY <1>2 DEF Done
<1>4. WhatWasReadHolds
  BY DEF ActivityInv
<1>5. busy \cap (Refuses["work"] \ {"sentence"}) = {}
  BY <1>1, <1>2, <1>3, <1>4, WritersLockTheCondition, ReadUnderTheLock, Refusals DEF WhatWasReadHolds
<1>6. busy \cap (Refuses["detained"] \ {"sentence"}) = {}
  BY <1>1, <1>2, <1>3, <1>4, WritersLockTheCondition, ReadUnderTheLock, Refusals DEF WhatWasReadHolds
<1>7. busy \cap (Refuses["walking"] \ {"sentence"}) = {}
  BY <1>1, <1>2, <1>3, <1>4, WritersLockTheCondition, ReadUnderTheLock, Refusals DEF WhatWasReadHolds
<1> QED
  BY <1>5, <1>6, <1>7, Refusals

\* A shift about to be written begins for nobody on a journey.
LEMMA ShiftIsInTown ==
  ASSUME ActivityInv, NEW t \in Txns, Writes(t, "job_work")
  PROVE  "journey" \notin busy
<1>1. "job_work" \in Ops
  BY DEF Ops, Order
<1>2. op[t] = "job_work" /\ pc[t] = 9
  BY <1>1, AtTheWrites, WritersLockTheCondition
<1>3. 6 \in Done(t) /\ 7 \in Done(t)
  BY <1>2 DEF Done
<1>4. busy \cap (Refuses["road"] \ {"sentence"}) = {}
  BY <1>1, <1>2, <1>3, WritersLockTheCondition, ReadUnderTheLock, Refusals
     DEF ActivityInv, WhatWasReadHolds
<1> QED
  BY <1>4, Refusals

\* A crime about to be written begins for nobody busy with anything.
LEMMA CrimeIsFree ==
  ASSUME ActivityInv, NEW t \in Txns, Writes(t, "crime_commit")
  PROVE  busy = {}
<1>1. "crime_commit" \in Ops
  BY DEF Ops, Order
<1>2. op[t] = "crime_commit" /\ pc[t] = 8
  BY <1>1, AtTheWrites, WritersLockTheCondition
<1>3. \A i \in 2 .. 7 : i \in Done(t)
  BY <1>2 DEF Done
<1>4. WhatWasReadHolds /\ NoSentenceSince /\ busy \subseteq Activities
  BY DEF ActivityInv, TypeOK
<1>5. busy \cap (Refuses["road"] \ {"sentence"}) = {}
  BY <1>1, <1>2, <1>3, <1>4, WritersLockTheCondition, ReadUnderTheLock, Refusals DEF WhatWasReadHolds
<1>6. busy \cap (Refuses["detained"] \ {"sentence"}) = {}
  BY <1>1, <1>2, <1>3, <1>4, WritersLockTheCondition, ReadUnderTheLock, Refusals DEF WhatWasReadHolds
<1>7. busy \cap (Refuses["work"] \ {"sentence"}) = {}
  BY <1>1, <1>2, <1>3, <1>4, WritersLockTheCondition, ReadUnderTheLock, Refusals DEF WhatWasReadHolds
<1>8. busy \cap (Refuses["walking"] \ {"sentence"}) = {}
  BY <1>1, <1>2, <1>3, <1>4, WritersLockTheCondition, ReadUnderTheLock, Refusals DEF WhatWasReadHolds
<1>9. "sentence" \notin busy
  BY <1>1, <1>2, <1>3, <1>4, JailersLockTheProfile, ReadUnderTheLock DEF NoSentenceSince
<1> QED
  BY <1>4, <1>5, <1>6, <1>7, <1>8, <1>9, Refusals DEF Activities

-----------------------------------------------------------------------------
(***************************************************************************)
(* What the end of a transaction leaves of what the others hold and know.  *)
(***************************************************************************)

LEMMA LeavingKeepsTheLocks ==
  ASSUME ActivityInv, NEW t \in Txns, Leave(t)
  PROVE  AtAStatement' /\ CityIsRead' /\ LocksAreHeld'
<1> USE DEF ActivityInv, TypeOK
<1>1. \A u \in Txns : op'[u] \in Ops =>
        u # t /\ op'[u] = op[u] /\ pc'[u] = pc[u] /\ seen'[u] = seen[u]
  BY DEF Leave, Ops, Order
<1>2. AtAStatement'
  <2>1. op'[t] = "none" /\ pc'[t] = 1
    BY DEF Leave
  <2>2. \A u \in Txns \ {t} : op'[u] = op[u] /\ pc'[u] = pc[u]
    BY DEF Leave
  <2> QED
    BY <2>1, <2>2, NoneIsNoCommand DEF AtAStatement
<1>4. CityIsRead'
  BY <1>1, PlayerIsReadFirst DEF CityIsRead
<1>3. ASSUME NEW u \in Txns, op'[u] \in Ops, NEW i \in 1 .. 9, i < pc'[u],
             Order[op'[u]][i] \in Rows
      PROVE  owner'[Order[op'[u]][i]] = u
  BY <1>1, <1>3 DEF LocksAreHeld, Done, Leave
<1> QED
  BY <1>2, <1>3, <1>4 DEF LocksAreHeld, Done

\* Whoever adds to what the player is busy with holds the condition row, so
\* nobody else has read anything under its lock.
LEMMA LeavingKeepsWhatWasRead ==
  ASSUME ActivityInv, NEW t \in Txns, Leave(t),
         busy' \subseteq busy \cup {"sentence"} \/ owner["condition"] = t
  PROVE  WhatWasReadHolds'
<1> USE DEF ActivityInv, TypeOK
<1>1. \A u \in Txns : op'[u] \in Ops => u # t /\ op'[u] = op[u] /\ pc'[u] = pc[u]
  BY DEF Leave, Ops, Order
<1>2. SUFFICES ASSUME NEW u \in Txns, op'[u] \in Ops,
                      NEW i \in 1 .. 9, NEW j \in 1 .. 9, i < pc'[u], j < pc'[u], j < i,
                      Order[op'[u]][j] = "condition", Order[op'[u]][i] \in DOMAIN Refuses
               PROVE  busy' \cap (Refuses[Order[op'[u]][i]] \ {"sentence"}) = {}
  BY <1>2 DEF WhatWasReadHolds, Done
<1>3. owner["condition"] = u
  BY <1>1, <1>2 DEF LocksAreHeld, Done, Rows
<1>4. busy' \subseteq busy \cup {"sentence"}
  BY <1>1, <1>2, <1>3
<1>5. busy \cap (Refuses[Order[op[u]][i]] \ {"sentence"}) = {}
  BY <1>1, <1>2 DEF WhatWasReadHolds, Done
<1> QED
  BY <1>1, <1>2, <1>4, <1>5

LEMMA LeavingBringsNoSentence ==
  ASSUME ActivityInv, NEW t \in Txns, Leave(t),
         "sentence" \in busy' => "sentence" \in busy \/ owner["profile"] = t
  PROVE  NoSentenceSince'
<1> USE DEF ActivityInv, TypeOK
<1>1. \A u \in Txns : op'[u] \in Ops => u # t /\ op'[u] = op[u] /\ pc'[u] = pc[u]
  BY DEF Leave, Ops, Order
<1>2. SUFFICES ASSUME NEW u \in Txns, op'[u] \in Ops,
                      NEW i \in 1 .. 9, NEW j \in 1 .. 9, i < pc'[u], j < pc'[u], j < i,
                      Order[op'[u]][j] = "profile", Order[op'[u]][i] = "detained"
               PROVE  "sentence" \notin busy'
  BY <1>2 DEF NoSentenceSince, Done
<1>3. owner["profile"] = u
  BY <1>1, <1>2 DEF LocksAreHeld, Done, Rows
<1>4. "sentence" \notin busy
  BY <1>1, <1>2 DEF NoSentenceSince, Done
<1> QED
  BY <1>1, <1>2, <1>3, <1>4

-----------------------------------------------------------------------------
(***************************************************************************)
(* Every step keeps the invariant.                                         *)
(***************************************************************************)

\* A statement that is behind its transaction is one that was passed: a check
\* found nothing, a row was locked.
LEMMA AdvancingKeepsTheRest ==
  ASSUME ActivityInv, NEW t \in Txns, NEW s, At(t, s), s # "write", Advance(t),
         op' = op, busy' = busy,
         \A row \in Rows : owner[row] # NoTxn => owner'[row] = owner[row],
         s \in Rows => owner'[s] = t,
         s \in DOMAIN Refuses => busy \cap Refuses[s] = {},
         s = "player" => seen'[t] \in Cities,
         \A u \in Txns : seen'[u] # seen[u] => u = t /\ s = "player"
  PROVE  /\ pc' \in [Txns -> 1 .. 9]
         /\ AtAStatement' /\ CityIsRead'
         /\ LocksAreHeld' /\ WhatWasReadHolds' /\ NoSentenceSince'
<1> USE DEF ActivityInv, TypeOK
<1>1. op[t] \in Ops /\ Order[op[t]][pc[t]] = s /\ pc[t] \in 1 .. Len(Order[op[t]])
  BY DEF At, AtAStatement
<1>2. pc[t] # Len(Order[op[t]]) /\ Len(Order[op[t]]) \in 1 .. 9
  BY <1>1, OrderShape DEF WellShaped
<1>3. pc'[t] = pc[t] + 1 /\ \A u \in Txns \ {t} : pc'[u] = pc[u]
  BY DEF Advance
<1>4. pc' \in [Txns -> 1 .. 9]
  <2>1. pc \in [Txns -> 1 .. 9] /\ pc' = [pc EXCEPT ![t] = pc[t] + 1]
    BY DEF Advance
  <2>2. pc[t] + 1 \in 1 .. 9
    BY <1>1, <1>2, OneMore
  <2> QED
    BY ONLY <2>1, <2>2
<1>5. AtAStatement'
  <2>1. pc'[t] \in 1 .. Len(Order[op[t]])
    BY <1>1, <1>2, <1>3, OneMore
  <2> QED
    BY <1>1, <1>3, <2>1, NoneIsNoCommand DEF AtAStatement
<1>10. CityIsRead'
  <2>1. SUFFICES ASSUME NEW u \in Txns, op[u] = "travel_start", pc'[u] > 1
                 PROVE  seen'[u] \in Cities
    BY DEF CityIsRead
  <2>2. CASE u = t /\ pc[t] = 1
    BY <1>1, <2>1, <2>2, PlayerIsReadFirst
  <2>3. CASE u = t /\ pc[t] # 1
    <3>1. pc[t] > 1
      BY <1>1, <2>3
    <3>2. seen[t] \in Cities
      BY <2>1, <2>3, <3>1 DEF CityIsRead
    <3> QED
      BY <2>3, <3>2
  <2>4. CASE u # t
    BY <1>3, <2>1, <2>4 DEF CityIsRead
  <2> QED
    BY <2>2, <2>3, <2>4
<1>6. \A u \in Txns, i \in 1 .. 9 : i < pc'[u] => i < pc[u] \/ (u = t /\ i = pc[t])
  BY <1>1, <1>3
<1>7. ASSUME NEW u \in Txns, op[u] \in Ops, NEW i \in 1 .. 9, i < pc'[u],
             Order[op[u]][i] \in Rows
      PROVE  owner'[Order[op[u]][i]] = u
  <2>1. CASE i < pc[u]
    <3>1. owner[Order[op[u]][i]] = u
      BY <1>7, <2>1 DEF LocksAreHeld, Done
    <3> QED
      BY <1>7, <3>1, ActivityConstants DEF ActivityConstants
  <2>2. CASE u = t /\ i = pc[t]
    BY <1>1, <1>7, <2>2
  <2> QED
    BY <1>6, <1>7, <2>1, <2>2
<1>8. ASSUME NEW u \in Txns, op[u] \in Ops, NEW i \in 1 .. 9, NEW j \in 1 .. 9,
             i < pc'[u], j < pc'[u], j < i,
             Order[op[u]][j] = "condition", Order[op[u]][i] \in DOMAIN Refuses
      PROVE  busy \cap (Refuses[Order[op[u]][i]] \ {"sentence"}) = {}
  <2>1. CASE i < pc[u]
    <3>1. j < pc[u]
      BY <1>8, <2>1
    <3> QED
      BY <1>8, <2>1, <3>1 DEF WhatWasReadHolds, Done
  <2>2. CASE u = t /\ i = pc[t]
    BY <1>1, <1>8, <2>2
  <2> QED
    BY <1>6, <1>8, <2>1, <2>2
<1>9. ASSUME NEW u \in Txns, op[u] \in Ops, NEW i \in 1 .. 9, NEW j \in 1 .. 9,
             i < pc'[u], j < pc'[u], j < i,
             Order[op[u]][j] = "profile", Order[op[u]][i] = "detained"
      PROVE  "sentence" \notin busy
  <2>1. CASE i < pc[u]
    <3>1. j < pc[u]
      BY <1>9, <2>1
    <3> QED
      BY <1>9, <2>1, <3>1 DEF NoSentenceSince, Done
  <2>2. CASE u = t /\ i = pc[t]
    BY <1>1, <1>9, <2>2, Refusals
  <2> QED
    BY <1>6, <1>9, <2>1, <2>2
<1> QED
  BY <1>4, <1>5, <1>7, <1>8, <1>9, <1>10 DEF LocksAreHeld, WhatWasReadHolds, NoSentenceSince, Done

LEMMA ActivityInit == Init => ActivityInv
BY ActivityConstants DEF ActivityConstants, Init, ActivityInv, TypeOK, AtAStatement, CityIsRead, LocksAreHeld,
   WhatWasReadHolds, NoSentenceSince, NoShiftOnTheRoad, NoCrimeOnTheRoad, Ops, Order, Activities

\* Typing is what the steps keep by their shape.
LEMMA LeavingIsTyped ==
  ASSUME TypeOK, NEW t \in Txns, Leave(t)
  PROVE  /\ owner' \in [Rows -> Txns \cup {NoTxn}]
         /\ op' \in [Txns -> Ops \cup {"none"}]
         /\ pc' \in [Txns -> 1 .. 9]
         /\ seen' \in [Txns -> Cities \cup {NoCity}]
BY DEF TypeOK, Leave

\* The commits of the commands: everything but the activities and the city is
\* kept by how a transaction ends.
LEMMA CommitKeepsTheRest ==
  ASSUME ActivityInv, NEW t \in Txns, Leave(t),
         busy' \subseteq busy \cup {"sentence"} \/ owner["condition"] = t,
         "sentence" \in busy' => "sentence" \in busy \/ owner["profile"] = t,
         busy' \subseteq Activities,
         city' \in Cities, from' \in Cities, to' \in Cities,
         NoShiftOnTheRoad', NoCrimeOnTheRoad'
  PROVE  ActivityInv'
BY LeavingIsTyped, LeavingKeepsTheLocks, LeavingKeepsWhatWasRead, LeavingBringsNoSentence
   DEF ActivityInv, TypeOK

\* The commits that only end activities.
LEMMA EndingKeepsTheInvariant ==
  ASSUME ActivityInv, NEW t \in Txns, Leave(t), busy' \subseteq busy,
         city' \in Cities, from' = from, to' = to
  PROVE  ActivityInv'
BY CommitKeepsTheRest DEF ActivityInv, TypeOK, NoShiftOnTheRoad, NoCrimeOnTheRoad

\* The commits that end activities and may detain the player.
LEMMA DetainingKeepsTheInvariant ==
  ASSUME ActivityInv, NEW t \in Txns, Leave(t),
         NEW held \in SUBSET {"sentence", "stay"}, NEW ended, busy' = After(ended, held),
         owner["condition"] = t, "sentence" \in held => owner["profile"] = t,
         city' = city, from' = from, to' = to
  PROVE  ActivityInv'
<1>1. busy' \subseteq busy \cup held
  BY DEF After
<1>2. busy' \subseteq Activities /\ NoShiftOnTheRoad' /\ NoCrimeOnTheRoad'
  BY <1>1 DEF ActivityInv, TypeOK, Activities, NoShiftOnTheRoad, NoCrimeOnTheRoad
<1>3. "sentence" \in busy' => "sentence" \in busy \/ owner["profile"] = t
  BY <1>1
<1> QED
  BY <1>2, <1>3, CommitKeepsTheRest DEF ActivityInv, TypeOK

\* The steps inside a transaction.
LEMMA StatementKeepsTheInvariant ==
  ASSUME ActivityInv, NEW t \in Txns,
         \/ ReadPlayer(t) \/ CheckHere(t) \/ CheckActive(t)
         \/ \E check \in DOMAIN Refuses : Check(t, check)
         \/ \E row \in Rows : LockRow(t, row)
  PROVE  ActivityInv'
<1> USE DEF ActivityInv, TypeOK, playerVars, NoShiftOnTheRoad, NoCrimeOnTheRoad
<1>1. CASE ReadPlayer(t)
  BY <1>1, AdvancingKeepsTheRest, Refusals DEF ReadPlayer, Rows
<1>2. CASE CheckHere(t)
  BY <1>2, AdvancingKeepsTheRest, Refusals DEF CheckHere, Rows
<1>3. CASE CheckActive(t)
  BY <1>3, AdvancingKeepsTheRest, Refusals DEF CheckActive, Rows
<1>4. ASSUME NEW check \in DOMAIN Refuses, Check(t, check)
      PROVE  ActivityInv'
  BY <1>4, AdvancingKeepsTheRest, Refusals DEF Check, Rows
<1>5. ASSUME NEW row \in Rows, LockRow(t, row)
      PROVE  ActivityInv'
  BY <1>5, AdvancingKeepsTheRest, Refusals DEF LockRow, Rows
<1> QED
  BY <1>1, <1>2, <1>3, <1>4, <1>5

LEMMA BeginKeepsTheInvariant ==
  ASSUME ActivityInv, NEW t \in Txns, NEW o \in Ops, Begin(t, o)
  PROVE  ActivityInv'
<1> USE DEF ActivityInv, TypeOK
<1>1. /\ op[t] = "none" /\ pc[t] = 1 /\ op'[t] = o
      /\ \A u \in Txns \ {t} : op'[u] = op[u]
      /\ pc' = pc /\ owner' = owner /\ busy' = busy
  BY DEF Begin, AtAStatement, playerVars
<1>2. TypeOK' /\ NoShiftOnTheRoad' /\ NoCrimeOnTheRoad'
  BY DEF Begin, playerVars, NoShiftOnTheRoad, NoCrimeOnTheRoad
<1>3. AtAStatement'
  <2>1. 1 \in 1 .. Len(Order[o])
    BY OrderShape, FirstOne DEF WellShaped
  <2>4. o # "none"
    BY NoneIsNoCommand
  <2>2. \A u \in Txns : pc'[u] = pc[u] /\ (u # t => op'[u] = op[u])
    BY <1>1
  <2> HIDE DEF ActivityInv, TypeOK
  <2>3. AtAStatement
    BY DEF ActivityInv
  <2> QED
    BY <1>1, <2>1, <2>2, <2>3, <2>4 DEF AtAStatement
<1>4. \A i \in 1 .. 9 : ~ (i < pc'[t])
  BY <1>1
<1>6. CityIsRead'
  BY <1>1 DEF Begin, CityIsRead
<1>5. LocksAreHeld' /\ WhatWasReadHolds' /\ NoSentenceSince'
  BY <1>1, <1>4 DEF LocksAreHeld, WhatWasReadHolds, NoSentenceSince, Done
<1> QED
  BY <1>2, <1>3, <1>5, <1>6

LEMMA ActivityNext ==
  ASSUME ActivityInv, Next
  PROVE  ActivityInv'
<1> USE DEF ActivityInv, TypeOK
<1>1. ASSUME NEW t \in Txns, BeginJourney(t)
      PROVE  ActivityInv'
  <2>1. owner["condition"] = t /\ busy \cap {"shift", "crime", "stay", "walk"} = {}
    BY <1>1, ConditionIsHeld, DepartureIsFree DEF BeginJourney
  <2>2. seen[t] \in Cities
    <3>1. op[t] = "travel_start" /\ pc[t] = 9
      BY <1>1, AtTheWrites, WritersLockTheCondition, PlayerIsReadFirst DEF BeginJourney
    <3> QED
      BY <3>1 DEF CityIsRead
  <2> QED
    BY <1>1, <2>1, <2>2, CommitKeepsTheRest
       DEF BeginJourney, Activities, NoShiftOnTheRoad, NoCrimeOnTheRoad
<1>2. ASSUME NEW t \in Txns, BeginShift(t)
      PROVE  ActivityInv'
  <2>1. owner["condition"] = t /\ "journey" \notin busy
    BY <1>2, ConditionIsHeld, ShiftIsInTown DEF BeginShift
  <2> QED
    BY <1>2, <2>1, CommitKeepsTheRest
       DEF BeginShift, Activities, NoShiftOnTheRoad, NoCrimeOnTheRoad
<1>3. ASSUME NEW t \in Txns, BeginWalk(t)
      PROVE  ActivityInv'
  <2>1. owner["condition"] = t
    BY <1>3, ConditionIsHeld DEF BeginWalk
  <2> QED
    BY <1>3, <2>1, CommitKeepsTheRest
       DEF BeginWalk, Activities, NoShiftOnTheRoad, NoCrimeOnTheRoad
<1>4. ASSUME NEW t \in Txns, BeginCrime(t)
      PROVE  ActivityInv'
  <2>1. owner["condition"] = t /\ busy = {}
    BY <1>4, ConditionIsHeld, CrimeIsFree DEF BeginCrime
  <2> QED
    BY <1>4, <2>1, CommitKeepsTheRest
       DEF BeginCrime, Activities, NoShiftOnTheRoad, NoCrimeOnTheRoad
<1>5. ASSUME NEW t \in Txns, SettleInstantCrime(t)
      PROVE  ActivityInv'
  <2>1. owner["condition"] = t /\ owner["profile"] = t
    BY <1>5, ConditionIsHeld, ProfileIsHeld DEF SettleInstantCrime
  <2> QED
    BY <1>5, <2>1, DetainingKeepsTheInvariant DEF SettleInstantCrime
<1>6. ASSUME NEW t \in Txns, EndJourney(t) \/ AbandonShift(t) \/ EndWalk(t) \/ Rollback(t)
      PROVE  ActivityInv'
  BY <1>6, EndingKeepsTheInvariant DEF EndJourney, AbandonShift, EndWalk, Rollback, playerVars
<1>7. ASSUME NEW t \in Txns, EndShift(t)
      PROVE  ActivityInv'
  <2>1. owner["condition"] = t
    BY <1>7, ConditionIsHeld DEF EndShift
  <2> QED
    BY <1>7, <2>1, DetainingKeepsTheInvariant DEF EndShift
<1>8. ASSUME NEW t \in Txns, SettleTimedCrime(t)
      PROVE  ActivityInv'
  <2>1. owner["condition"] = t /\ owner["profile"] = t
    BY <1>8, ConditionIsHeld, ProfileIsHeld DEF SettleTimedCrime
  <2> QED
    BY <1>8, <2>1, DetainingKeepsTheInvariant DEF SettleTimedCrime
<1>9. ASSUME NEW t \in Txns, Convict(t)
      PROVE  ActivityInv'
  <2>1. owner["profile"] = t
    BY <1>9, ProfileIsHeld DEF Convict
  <2> QED
    BY <1>9, <2>1, CommitKeepsTheRest
       DEF Convict, Activities, NoShiftOnTheRoad, NoCrimeOnTheRoad
<1>10. ASSUME NEW t \in Txns, Admit(t)
       PROVE  ActivityInv'
  <2>1. owner["condition"] = t
    BY <1>10, ConditionIsHeld DEF Admit
  <2> QED
    BY <1>10, <2>1, DetainingKeepsTheInvariant DEF Admit
<1>11. CASE TermEnds
  <2>1. busy' \subseteq busy
    BY <1>11 DEF TermEnds
  <2> QED
    BY <1>11, <2>1 DEF TermEnds, txnVars, AtAStatement, CityIsRead, LocksAreHeld, WhatWasReadHolds,
       NoSentenceSince, Done, NoShiftOnTheRoad, NoCrimeOnTheRoad
<1> QED
  BY <1>1, <1>2, <1>3, <1>4, <1>5, <1>6, <1>7, <1>8, <1>9, <1>10, <1>11,
     BeginKeepsTheInvariant, StatementKeepsTheInvariant DEF Next

LEMMA ActivityStutter ==
  ASSUME ActivityInv, UNCHANGED vars
  PROVE  ActivityInv'
BY DEF ActivityInv, TypeOK, AtAStatement, CityIsRead, LocksAreHeld, WhatWasReadHolds,
   NoSentenceSince, NoShiftOnTheRoad, NoCrimeOnTheRoad, Done, vars, playerVars, txnVars

\* Every state a player can reach satisfies the invariant: what the theorems
\* below rest on.
THEOREM ActivityInvariant == Spec => []ActivityInv
<1>1. Init => ActivityInv
  BY ActivityInit
<1>2. ActivityInv /\ [Next]_vars => ActivityInv'
  BY ActivityNext, ActivityStutter
<1> QED
  BY <1>1, <1>2, PTL DEF Spec

-----------------------------------------------------------------------------
(***************************************************************************)
(* The theorems.                                                           *)
(***************************************************************************)

\* Whatever commands of a player interleave, the rows keep their shapes and a
\* command stays among its statements.
THEOREM ActivitiesAreTyped == Spec => []TypeOK
<1>1. ActivityInv => TypeOK
  BY DEF ActivityInv
<1> QED
  BY <1>1, ActivityInvariant, PTL

\* For any number of game replicas, a journey and a shift are never in
\* progress together: travel.start and job.work look for each other's row
\* after they have locked the condition row.
THEOREM NobodyWorksOnTheRoad == Spec => []NoShiftOnTheRoad
<1>1. ActivityInv => NoShiftOnTheRoad
  BY DEF ActivityInv
<1> QED
  BY <1>1, ActivityInvariant, PTL

\* For any number of game replicas, a journey and a timed crime are never in
\* progress together.
THEOREM NoCrimeIsCommittedOnTheRoad == Spec => []NoCrimeOnTheRoad
<1>1. ActivityInv => NoCrimeOnTheRoad
  BY DEF ActivityInv
<1> QED
  BY <1>1, ActivityInvariant, PTL

\* A departure commits only for a player busy with nothing but, at most, a
\* sentence: what travel.start read under the lock is still so when it writes.
THEOREM DeparturesAreFree == Spec => DepartsUnoccupied
<1>1. ASSUME ActivityInv, NEW t \in Txns, BeginJourney(t)
      PROVE  busy \subseteq {"sentence"}
  BY <1>1, DepartureIsFree DEF BeginJourney, ActivityInv, TypeOK, Activities
<1>2. ActivityInv /\ [Next]_vars => [\A t \in Txns : BeginJourney(t) => busy \subseteq {"sentence"}]_vars
  BY <1>1
<1> QED
  BY <1>2, ActivityInvariant, PTL DEF Spec, DepartsUnoccupied

\* A timed crime begins only for a player busy with nothing at all: the
\* condition row and the criminal profile it has locked keep everything else away.
THEOREM CrimesBeginFree == Spec => CrimeBeginsUnoccupied
<1>1. ASSUME ActivityInv, NEW t \in Txns, BeginCrime(t)
      PROVE  busy = {}
  BY <1>1, CrimeIsFree DEF BeginCrime
<1>2. ActivityInv /\ [Next]_vars => [\A t \in Txns : BeginCrime(t) => busy = {}]_vars
  BY <1>1
<1> QED
  BY <1>2, ActivityInvariant, PTL DEF Spec, CrimeBeginsUnoccupied

-----------------------------------------------------------------------------
(***************************************************************************)
(* What is wrong where the code's comments promise more: only that it does *)
(* not ask again once it has the lock.                                     *)
(***************************************************************************)

\* What a command found before it had the condition row locked is still so.
ChecksAreFresh ==
  \A t \in Txns : LockRow(t, "condition") =>
    \A i \in Done(t) :
      Order[op[t]][i] \in DOMAIN Refuses => busy \cap (Refuses[Order[op[t]][i]] \ {"sentence"}) = {}

\* The city a departure read is still the player's.
OriginIsFresh ==
  \A t \in Txns : LockRow(t, "condition") /\ op[t] = "travel_start" => seen[t] = city

WhatWasAskedHolds ==
  \A t \in Txns : op[t] \in Ops =>
    \A i, j \in Done(t) :
      Order[op[t]][j] = "condition" /\ Order[op[t]][i] \in DOMAIN Refuses =>
        busy \cap (Refuses[Order[op[t]][i]] \ {"sentence"}) = {}

OriginHolds ==
  \A t \in Txns : op[t] = "travel_start" /\ pc[t] > 5 => seen[t] = city

\* The ends of transactions, by whether they may change what others have read.
Ending(t) ==
  \/ BeginJourney(t) \/ BeginShift(t) \/ BeginWalk(t) \/ BeginCrime(t)
  \/ SettleInstantCrime(t)
  \/ EndJourney(t) \/ EndShift(t) \/ AbandonShift(t) \/ EndWalk(t)
  \/ SettleTimedCrime(t) \/ Convict(t) \/ Admit(t)
  \/ Rollback(t)

LEMMA ArrivalsLockTheCondition ==
  /\ Len(Order.travel_arrive) = 3 /\ Order.travel_arrive[2] = "condition"
  /\ "travel_arrive" \in Ops
BY DEF Ops, Order, CompleteTravel

LEMMA AskedBeforeTheLock ==
  /\ Order.job_work[4] = "detained" /\ Order.place_go[2] = "road"
  /\ "job_work" \in Ops /\ "place_go" \in Ops
BY DEF Ops, Order, Work, Go

LEMMA EndingFacts ==
  ASSUME ActivityInv, NEW t \in Txns, Ending(t)
  PROVE  /\ Leave(t)
         /\ busy' \subseteq busy \cup {"sentence"} \/ owner["condition"] = t
         /\ city' = city \/ (EndJourney(t) /\ owner["condition"] = t)
<1>1. CASE EndJourney(t)
  <2>1. Writes(t, "travel_arrive")
    BY <1>1 DEF EndJourney
  <2>2. op[t] = "travel_arrive" /\ pc[t] = 3
    BY <2>1, AtTheWrites, ArrivalsLockTheCondition
  <2>3. 2 \in Done(t)
    BY <2>2 DEF Done
  <2>4. owner["condition"] = t
    BY <2>2, <2>3, ArrivalsLockTheCondition DEF ActivityInv, LocksAreHeld, Rows
  <2> QED
    BY <1>1, <2>4 DEF EndJourney
<1>2. CASE AbandonShift(t) \/ EndWalk(t) \/ Rollback(t) \/ Convict(t)
  BY <1>2 DEF AbandonShift, EndWalk, Rollback, Convict, playerVars
<1>3. CASE \/ BeginJourney(t) \/ BeginShift(t) \/ BeginWalk(t) \/ BeginCrime(t)
           \/ SettleInstantCrime(t) \/ EndShift(t) \/ SettleTimedCrime(t) \/ Admit(t)
  <2>1. Leave(t) /\ city' = city
    BY <1>3 DEF BeginJourney, BeginShift, BeginWalk, BeginCrime, SettleInstantCrime, EndShift,
       SettleTimedCrime, Admit
  <2>2. \E o \in {"travel_start", "job_work", "place_go", "crime_commit",
                  "job_finish_shift", "crime_resolve", "injure"} : Writes(t, o)
    BY <1>3 DEF BeginJourney, BeginShift, BeginWalk, BeginCrime, SettleInstantCrime, EndShift,
       SettleTimedCrime, Admit
  <2> QED
    BY <2>1, <2>2, ConditionIsHeld
<1> QED
  BY <1>1, <1>2, <1>3 DEF Ending

\* A statement of a transaction, and what it finds.
Statement(t) ==
  \/ ReadPlayer(t) \/ CheckHere(t) \/ CheckActive(t)
  \/ \E check \in DOMAIN Refuses : Check(t, check)
  \/ \E row \in Rows : LockRow(t, row)

LEMMA StatementFacts ==
  ASSUME ActivityInv, NEW t \in Txns, Statement(t)
  PROVE  /\ UNCHANGED <<playerVars, op>> /\ Advance(t)
         /\ op[t] \in Ops /\ pc[t] \in 1 .. 9 /\ pc'[t] = pc[t] + 1
         /\ \A u \in Txns \ {t} : pc'[u] = pc[u] /\ seen'[u] = seen[u]
         /\ Order[op[t]][pc[t]] \in DOMAIN Refuses => busy \cap Refuses[Order[op[t]][pc[t]]] = {}
         /\ Order[op[t]][pc[t]] = "condition" => LockRow(t, "condition")
         /\ Order[op[t]][pc[t]] # "player" => seen' = seen
<1> USE DEF ActivityInv, TypeOK, playerVars, Advance, At
<1>1. CASE ReadPlayer(t)
  BY <1>1, Refusals DEF ReadPlayer
<1>2. CASE CheckHere(t)
  BY <1>2, Refusals DEF CheckHere
<1>3. CASE CheckActive(t)
  BY <1>3, Refusals DEF CheckActive
<1>4. ASSUME NEW check \in DOMAIN Refuses, Check(t, check)
      PROVE  /\ UNCHANGED <<playerVars, op, seen>> /\ Advance(t)
             /\ op[t] \in Ops /\ Order[op[t]][pc[t]] = check /\ busy \cap Refuses[check] = {}
             /\ check # "condition"
  BY <1>4, Refusals DEF Check
<1>5. ASSUME NEW row \in Rows, LockRow(t, row)
      PROVE  /\ UNCHANGED <<playerVars, op, seen>> /\ Advance(t)
             /\ op[t] \in Ops /\ Order[op[t]][pc[t]] = row /\ row \notin DOMAIN Refuses
  BY <1>5, Refusals DEF LockRow, Rows
<1>6. ASSUME \E check \in DOMAIN Refuses : Check(t, check)
      PROVE  /\ UNCHANGED <<playerVars, op, seen>> /\ Advance(t) /\ op[t] \in Ops
             /\ Order[op[t]][pc[t]] # "condition" /\ busy \cap Refuses[Order[op[t]][pc[t]]] = {}
  BY <1>4, <1>6
<1>7. ASSUME \E row \in Rows : LockRow(t, row)
      PROVE  /\ UNCHANGED <<playerVars, op, seen>> /\ Advance(t) /\ op[t] \in Ops
             /\ Order[op[t]][pc[t]] \notin DOMAIN Refuses
             /\ Order[op[t]][pc[t]] = "condition" => LockRow(t, "condition")
  BY <1>5, <1>7
<1> QED
  BY <1>1, <1>2, <1>3, <1>6, <1>7 DEF Statement

\* Every step is one of these.
LEMMA StepKinds ==
  ASSUME Next
  PROVE  \/ \E t \in Txns : Ending(t) \/ Statement(t) \/ \E o \in Ops : Begin(t, o)
         \/ TermEnds
BY DEF Next, Ending, Statement

LEMMA AskedStep ==
  ActivityInv /\ WhatWasAskedHolds /\ [Next /\ ChecksAreFresh]_vars => WhatWasAskedHolds'
<1> SUFFICES ASSUME ActivityInv, WhatWasAskedHolds, [Next /\ ChecksAreFresh]_vars,
                    NEW u \in Txns, op'[u] \in Ops,
                    NEW i \in 1 .. 9, NEW j \in 1 .. 9, i < pc'[u], j < pc'[u],
                    Order[op'[u]][j] = "condition", Order[op'[u]][i] \in DOMAIN Refuses
             PROVE  busy' \cap (Refuses[Order[op'[u]][i]] \ {"sentence"}) = {}
  BY DEF WhatWasAskedHolds, Done
<1>0. ASSUME op[u] \in Ops, i < pc[u], j < pc[u],
             Order[op[u]][j] = "condition", Order[op[u]][i] \in DOMAIN Refuses
      PROVE  /\ busy \cap (Refuses[Order[op[u]][i]] \ {"sentence"}) = {}
             /\ owner["condition"] = u
  BY <1>0 DEF ActivityInv, LocksAreHeld, WhatWasAskedHolds, Done, Rows
<1>1. ASSUME NEW t \in Txns, Ending(t)
      PROVE  busy' \cap (Refuses[Order[op'[u]][i]] \ {"sentence"}) = {}
  <2>1. u # t /\ op'[u] = op[u] /\ pc'[u] = pc[u]
    BY <1>1, EndingFacts DEF Leave, Ops, Order, ActivityInv, TypeOK
  <2>2. busy \cap (Refuses[Order[op[u]][i]] \ {"sentence"}) = {} /\ owner["condition"] = u
    BY <1>0, <2>1
  <2>3. busy' \subseteq busy \cup {"sentence"}
    BY <1>1, <2>1, <2>2, EndingFacts
  <2> QED
    BY <2>1, <2>2, <2>3
<1>2. ASSUME NEW t \in Txns, Statement(t), ChecksAreFresh
      PROVE  busy' \cap (Refuses[Order[op'[u]][i]] \ {"sentence"}) = {}
  <2>1. busy' = busy /\ op' = op
    BY <1>2, StatementFacts DEF playerVars
  <2>2. CASE i < pc[u] /\ j < pc[u]
    BY <1>0, <2>1, <2>2
  <2>3. u = t => pc'[u] = pc[u] + 1 /\ pc[u] \in 1 .. 9
    BY <1>2, StatementFacts
  <2>4. u # t => pc'[u] = pc[u]
    BY <1>2, StatementFacts
  <2>5. CASE u = t /\ i = pc[u]
    BY <1>2, <2>1, <2>5, StatementFacts
  <2>6. CASE u = t /\ j = pc[u] /\ i # pc[u]
    <3>1. i \in Done(t)
      BY <2>3, <2>6 DEF Done
    <3>2. LockRow(t, "condition")
      BY <1>2, <2>1, <2>6, StatementFacts
    <3> QED
      BY <1>2, <2>1, <2>6, <3>1, <3>2 DEF ChecksAreFresh
  <2> QED
    BY <2>2, <2>3, <2>4, <2>5, <2>6
<1>3. ASSUME NEW t \in Txns, NEW o \in Ops, Begin(t, o)
      PROVE  busy' \cap (Refuses[Order[op'[u]][i]] \ {"sentence"}) = {}
  <2>1. busy' = busy /\ pc' = pc /\ pc[t] = 1 /\ (u # t => op'[u] = op[u])
    BY <1>3 DEF Begin, playerVars, ActivityInv, AtAStatement
  <2>2. u # t
    BY <2>1
  <2> QED
    BY <1>0, <2>1, <2>2
<1>4. CASE TermEnds \/ UNCHANGED vars
  <2>1. busy' \subseteq busy /\ op' = op /\ pc' = pc
    BY <1>4 DEF TermEnds, vars, playerVars, txnVars
  <2> QED
    BY <1>0, <2>1
<1> QED
  BY <1>1, <1>2, <1>3, <1>4, StepKinds

LEMMA OnTopStep ==
  ActivityInv /\ WhatWasAskedHolds /\ NothingOnTop /\ [Next]_vars => NothingOnTop'
<1> SUFFICES ASSUME ActivityInv, WhatWasAskedHolds, NothingOnTop, [Next]_vars
             PROVE  NothingOnTop'
  OBVIOUS
<1> USE DEF NothingOnTop, NoShiftInACrime, NoWalkOnTheRoad
<1>1. CASE \E t \in Txns : BeginJourney(t)
  BY <1>1, DepartureIsFree DEF BeginJourney
<1>2. ASSUME NEW t \in Txns, BeginShift(t) PROVE NothingOnTop'
  <2>1. Writes(t, "job_work")
    BY <1>2 DEF BeginShift
  <2>2. op[t] = "job_work" /\ pc[t] = 9
    BY <2>1, AtTheWrites, AskedBeforeTheLock, WritersLockTheCondition
  <2>3. 4 \in Done(t) /\ 6 \in Done(t)
    BY <2>2 DEF Done
  <2>4. busy \cap (Refuses["detained"] \ {"sentence"}) = {}
    BY <2>2, <2>3, AskedBeforeTheLock, WritersLockTheCondition, Refusals DEF WhatWasAskedHolds
  <2> QED
    BY <1>2, <2>4, Refusals DEF BeginShift
<1>3. ASSUME NEW t \in Txns, BeginWalk(t) PROVE NothingOnTop'
  <2>1. CASE Writes(t, "place_go")
    <3>1. op[t] = "place_go" /\ 2 \in Done(t) /\ 3 \in Done(t)
      BY <2>1, AtTheWrites, AskedBeforeTheLock, WritersLockTheCondition DEF Done
    <3>2. busy \cap (Refuses["road"] \ {"sentence"}) = {}
      BY <3>1, AskedBeforeTheLock, WritersLockTheCondition, Refusals DEF WhatWasAskedHolds
    <3> QED
      BY <1>3, <3>2, Refusals DEF BeginWalk
  <2>2. CASE Writes(t, "job_work")
    BY <1>3, <2>2, ShiftIsInTown DEF BeginWalk
  <2> QED
    BY <1>3, <2>1, <2>2 DEF BeginWalk
<1>4. CASE \E t \in Txns : BeginCrime(t)
  BY <1>4, CrimeIsFree DEF BeginCrime
<1>5. CASE busy' \subseteq busy \cup {"sentence", "stay"}
  BY <1>5
<1>6. ASSUME NEW t \in Txns, Ending(t), ~ BeginJourney(t), ~ BeginShift(t), ~ BeginWalk(t), ~ BeginCrime(t)
      PROVE  busy' \subseteq busy \cup {"sentence", "stay"}
  BY <1>6 DEF Ending, SettleInstantCrime, EndJourney, EndShift, AbandonShift, EndWalk,
     SettleTimedCrime, Convict, Admit, Rollback, After, playerVars
<1>7. ASSUME NEW t \in Txns, Statement(t) \/ \E o \in Ops : Begin(t, o)
      PROVE  busy' = busy
  BY <1>7, StatementFacts DEF Begin, playerVars
<1>8. CASE TermEnds \/ UNCHANGED vars
  BY <1>8 DEF TermEnds, vars, playerVars
<1> QED
  BY <1>1, <1>2, <1>3, <1>4, <1>5, <1>6, <1>7, <1>8, StepKinds

\* What the comments of job.work and place.go say of shifts in a crime and of
\* walks on the road is so wherever what was asked before the condition row was
\* locked is still so after: the order of these statements is all that is wrong.
THEOREM NothingOnTopIfFresh == Spec /\ [][ChecksAreFresh]_vars => []NothingOnTop
<1>1. Init => WhatWasAskedHolds /\ NothingOnTop
  BY DEF Init, WhatWasAskedHolds, Done, NothingOnTop, NoShiftInACrime, NoWalkOnTheRoad, Ops, Order
<1>2. [Next]_vars /\ [ChecksAreFresh]_vars => [Next /\ ChecksAreFresh]_vars
  OBVIOUS
<1> QED
  BY <1>1, <1>2, ActivityInvariant, AskedStep, OnTopStep, PTL DEF Spec

LEMMA OriginStep ==
  ActivityInv /\ OriginHolds /\ JourneyLeftTheirCity /\ [Next /\ OriginIsFresh]_vars
    => OriginHolds' /\ JourneyLeftTheirCity'
<1> SUFFICES ASSUME ActivityInv, OriginHolds, JourneyLeftTheirCity, [Next /\ OriginIsFresh]_vars
             PROVE  OriginHolds' /\ JourneyLeftTheirCity'
  OBVIOUS
<1>0. \A t \in Txns : pc[t] \in 1 .. 9
  BY DEF ActivityInv, TypeOK
<1>1. ASSUME NEW t \in Txns, Ending(t)
      PROVE  OriginHolds' /\ JourneyLeftTheirCity'
  <2>1. \A u \in Txns : op'[u] = "travel_start" =>
          u # t /\ op'[u] = op[u] /\ pc'[u] = pc[u] /\ seen'[u] = seen[u]
    BY <1>1, EndingFacts DEF Leave, ActivityInv, TypeOK
  <2>2. ASSUME NEW u \in Txns, op[u] = "travel_start", pc[u] > 5
        PROVE  owner["condition"] = u
    <3>1. 5 \in Done(u)
      BY <1>0, <2>2 DEF Done
    <3> QED
      BY <2>2, <3>1, WritersLockTheCondition, PlayerIsReadFirst DEF ActivityInv, LocksAreHeld, Rows
  <2>3. OriginHolds'
    <3>1. SUFFICES ASSUME NEW u \in Txns, op'[u] = "travel_start", pc'[u] > 5
                   PROVE  seen'[u] = city'
      BY DEF OriginHolds
    <3>2. u # t /\ owner["condition"] = u /\ seen[u] = city /\ seen'[u] = seen[u]
      BY <2>1, <2>2, <3>1 DEF OriginHolds
    <3> QED
      BY <1>1, <3>2, EndingFacts
  <2>4. CASE BeginJourney(t)
    <3>1. op[t] = "travel_start" /\ pc[t] = 9
      BY <2>4, AtTheWrites, WritersLockTheCondition, PlayerIsReadFirst DEF BeginJourney
    <3>2. seen[t] = city
      BY <3>1 DEF OriginHolds
    <3> QED
      BY <2>3, <2>4, <3>2 DEF BeginJourney, JourneyLeftTheirCity
  <2>5. CASE ~ BeginJourney(t)
    <3>1. from' = from /\ ("journey" \in busy' => "journey" \in busy /\ city' = city)
      BY <1>1, <2>5 DEF Ending, BeginShift, BeginWalk, BeginCrime, SettleInstantCrime, EndJourney,
         EndShift, AbandonShift, EndWalk, SettleTimedCrime, Convict, Admit, Rollback, After, playerVars
    <3> QED
      BY <2>3, <3>1 DEF JourneyLeftTheirCity
  <2> QED
    BY <2>4, <2>5
<1>2. ASSUME NEW t \in Txns, Statement(t), OriginIsFresh
      PROVE  OriginHolds' /\ JourneyLeftTheirCity'
  <2>1. JourneyLeftTheirCity'
    BY <1>2, StatementFacts DEF playerVars, JourneyLeftTheirCity
  <2>2. SUFFICES ASSUME NEW u \in Txns, op'[u] = "travel_start", pc'[u] > 5
                 PROVE  seen'[u] = city'
    BY <2>1 DEF OriginHolds
  <2>3. op[u] = "travel_start" /\ city' = city
    BY <1>2, <2>2, StatementFacts DEF playerVars
  <2>4. CASE u # t
    BY <1>2, <2>2, <2>3, <2>4, StatementFacts DEF OriginHolds
  <2>5. CASE u = t
    <3>1. pc[u] >= 5 /\ pc[u] # 1
      BY <1>2, <2>2, <2>5, StatementFacts
    <3>2. Order[op[t]][pc[t]] # "player"
      BY <2>3, <2>5, <3>1, <1>0 DEF Order, StartTravel
    <3>3. seen' = seen
      BY <1>2, <3>2, StatementFacts
    <3>4. CASE pc[u] > 5
      BY <2>3, <3>3, <3>4 DEF OriginHolds
    <3>5. CASE pc[u] = 5
      <4>1. LockRow(t, "condition")
        BY <1>2, <2>3, <2>5, <3>5, StatementFacts, WritersLockTheCondition
      <4> QED
        BY <1>2, <2>3, <2>5, <3>3, <4>1 DEF OriginIsFresh
    <3> QED
      BY <1>0, <3>1, <3>4, <3>5
  <2> QED
    BY <2>4, <2>5
<1>3. ASSUME NEW t \in Txns, NEW o \in Ops, Begin(t, o)
      PROVE  OriginHolds' /\ JourneyLeftTheirCity'
  <2>1. pc[t] = 1 /\ pc' = pc /\ seen' = seen /\ \A u \in Txns \ {t} : op'[u] = op[u]
    BY <1>3 DEF Begin, ActivityInv, AtAStatement
  <2>2. city' = city /\ busy' = busy /\ from' = from
    BY <1>3 DEF Begin, playerVars
  <2> QED
    BY <2>1, <2>2 DEF OriginHolds, JourneyLeftTheirCity
<1>4. CASE TermEnds \/ UNCHANGED vars
  BY <1>4 DEF TermEnds, vars, playerVars, txnVars, OriginHolds, JourneyLeftTheirCity
<1> QED
  BY <1>1, <1>2, <1>3, <1>4, StepKinds

\* What Travels.Cancel says of a journey's origin is so wherever the city a
\* departure read is still the player's when the condition row is locked.
THEOREM OriginIsTheirsIfFresh == Spec /\ [][OriginIsFresh]_vars => []JourneyLeftTheirCity
<1>1. Init => OriginHolds /\ JourneyLeftTheirCity
  BY DEF Init, OriginHolds, JourneyLeftTheirCity
<1>2. [Next]_vars /\ [OriginIsFresh]_vars => [Next /\ OriginIsFresh]_vars
  OBVIOUS
<1> QED
  BY <1>1, <1>2, ActivityInvariant, OriginStep, PTL DEF Spec
=============================================================================
