-------------------------- MODULE PlayerActivities --------------------------
(***************************************************************************)
(* What one player is busy with, and the commands that begin and end it.   *)
(*                                                                         *)
(* A player may be on a journey between cities, on a shift, walking across *)
(* a city, in the middle of a timed crime, serving a sentence or in        *)
(* hospital.  Every command is one READ COMMITTED transaction: each of its *)
(* statements sees whatever has been committed by the time it runs, its    *)
(* own writes are seen by nobody until it commits, and the rows it locks   *)
(* stay locked until then.  Several game replicas run commands of the same *)
(* player at once (deployments/compose.scale-test.yml), so what keeps two  *)
(* activities apart is only which rows a command locks and what it reads   *)
(* again after locking: Order states that, in the order of the code.       *)
(***************************************************************************)
EXTENDS Naturals, Sequences

CONSTANTS
  Txns,       \* the transactions that may run at once
  Cities,
  Workplace,  \* the city of the player's job
  NoTxn,      \* nobody: the row is not locked
  NoCity      \* the player row has not been read

ASSUME ActivityConstants ==
  /\ Workplace \in Cities
  /\ NoTxn \notin Txns
  /\ NoCity \notin Cities

VARIABLES
  city,     \* players.city_id
  busy,     \* the activities in progress: a row in its active status
  from,     \* from_city_id of the journey in transit, of the last one when none is
  to,       \* to_city_id of it
  owner,    \* the transaction holding each lock
  op,       \* the command a transaction runs
  pc,       \* the step it comes to next
  seen      \* the city on the player row it read

playerVars == <<city, busy, from, to>>
txnVars    == <<owner, op, pc, seen>>
vars       == <<playerVars, txnVars>>

Activities == {"journey", "shift", "walk", "crime", "sentence", "stay"}

\* player_stats, employments and criminal_profiles: the rows these commands lock.
Rows == {"condition", "job", "profile"}

-----------------------------------------------------------------------------
(***************************************************************************)
(* The statements of each command in their order: reading the player row,  *)
(* a check, locking a row, and "write", the writes up to the commit.       *)
(***************************************************************************)

\* Another order of travel.start: the checks are not asked again under the lock.
StartTravel_AsksOnce ==
  <<"player", "road", "work", "detained", "condition", "walking", "write">>

\* Another order of travel.start: the player row is never read.
StartTravel_Nowhere ==
  <<"road", "work", "detained", "condition", "work", "detained", "walking", "write">>

StartTravel ==
  <<"player", "road", "work", "detained", "condition", "work", "detained", "walking", "write">>

\* Another order of job.work: the road is looked at before the lock.
Work_RoadFirst ==
  <<"player", "job", "work", "detained", "walking", "road", "condition", "here", "write">>

Work ==
  <<"player", "job", "work", "detained", "walking", "condition", "road", "here", "write">>

Go ==
  <<"player", "road", "condition", "work", "detained", "walking", "write">>

\* Another order of crime.commit: the road is looked at before the lock.
Commit_RoadFirst ==
  <<"player", "profile", "road", "condition", "detained", "work", "walking", "write">>

\* Another order of crime.commit: the shift is looked at before the lock.
Commit_WorkFirst ==
  <<"player", "profile", "work", "condition", "road", "detained", "walking", "write">>

Commit ==
  <<"player", "profile", "condition", "road", "detained", "work", "walking", "write">>

CompleteTravel == <<"active", "condition", "write">>
FinishShift    == <<"job", "active", "condition", "write">>
ArriveWalk     == <<"active", "write">>
Resolve        == <<"profile", "active", "condition", "write">>
Conclude       == <<"profile", "write">>
Injure         == <<"condition", "write">>

Order ==
  [travel_start |-> StartTravel, job_work |-> Work, place_go |-> Go, crime_commit |-> Commit,
   travel_arrive |-> CompleteTravel, job_finish_shift |-> FinishShift,
   place_arrive |-> ArriveWalk, crime_resolve |-> Resolve,
   crime_conclude |-> Conclude, injure |-> Injure]

Ops == DOMAIN Order

\* The activity a scheduled command ends.
Ends ==
  [travel_arrive |-> "journey", job_finish_shift |-> "shift",
   place_arrive |-> "walk", crime_resolve |-> "crime"]

\* The activities each check refuses: Travels.Active, refuseAtWork,
\* RefuseDetained and refuseWalking.
Refuses ==
  [road     |-> {"journey"},
   work     |-> {"shift"},
   detained |-> {"sentence", "crime", "stay"},
   walking  |-> {"walk"}]

-----------------------------------------------------------------------------
Init ==
  /\ city \in Cities
  /\ busy = {}
  /\ from = city
  /\ to = city
  /\ owner = [r \in Rows |-> NoTxn]
  /\ op = [t \in Txns |-> "none"]
  /\ pc = [t \in Txns |-> 1]
  /\ seen = [t \in Txns |-> NoCity]

At(t, step) == op[t] \in Ops /\ Order[op[t]][pc[t]] = step

Advance(t) == pc' = [pc EXCEPT ![t] = @ + 1]

\* The end of a transaction, by commit or by rollback: its locks are free.
Leave(t) ==
  /\ owner' = [r \in Rows |-> IF owner[r] = t THEN NoTxn ELSE owner[r]]
  /\ op' = [op EXCEPT ![t] = "none"]
  /\ pc' = [pc EXCEPT ![t] = 1]
  /\ seen' = [seen EXCEPT ![t] = NoCity]

\* A command reaches a game replica.  A scheduled end reserves the key of the
\* activity it ends, so two deliveries of it never run side by side.
Begin(t, o) ==
  /\ op[t] = "none"
  /\ o \in DOMAIN Ends => \A u \in Txns : op[u] # o
  /\ op' = [op EXCEPT ![t] = o]
  /\ UNCHANGED <<playerVars, owner, pc, seen>>

ReadPlayer(t) ==
  /\ At(t, "player")
  /\ seen' = [seen EXCEPT ![t] = city]
  /\ Advance(t)
  /\ UNCHANGED <<playerVars, owner, op>>

\* A check that lets the command go on; one that refuses it is a Rollback.
Check(t, check) ==
  /\ At(t, check)
  /\ busy \cap Refuses[check] = {}
  /\ Advance(t)
  /\ UNCHANGED <<playerVars, owner, op, seen>>

\* job.work goes on only for a player standing in the city of the job.
CheckHere(t) ==
  /\ At(t, "here")
  /\ seen[t] = Workplace
  /\ Advance(t)
  /\ UNCHANGED <<playerVars, owner, op, seen>>

\* A scheduled end goes on only while what it ends is still in progress.
CheckActive(t) ==
  /\ At(t, "active")
  /\ Ends[op[t]] \in busy
  /\ Advance(t)
  /\ UNCHANGED <<playerVars, owner, op, seen>>

LockRow(t, row) ==
  /\ At(t, row)
  /\ owner[row] = NoTxn
  /\ owner' = [owner EXCEPT ![row] = t]
  /\ Advance(t)
  /\ UNCHANGED <<playerVars, op, seen>>

-----------------------------------------------------------------------------
(***************************************************************************)
(* The writes.  A second row of the same kind in its active status violates *)
(* a partial unique index and rolls the command back, so an activity is    *)
(* only ever begun while it is not in progress.                            *)
(***************************************************************************)

Writes(t, o) == op[t] = o /\ At(t, "write")

BeginJourney(t) ==
  /\ Writes(t, "travel_start")
  /\ "journey" \notin busy
  /\ \E c \in Cities \ {seen[t]} : to' = c
  /\ from' = seen[t]
  /\ busy' = busy \cup {"journey"}
  /\ Leave(t)
  /\ UNCHANGED city

BeginShift(t) ==
  /\ Writes(t, "job_work")
  /\ "shift" \notin busy
  /\ busy' = busy \cup {"shift"}
  /\ Leave(t)
  /\ UNCHANGED <<city, from, to>>

\* A walk begins from the map, or because the workplace is elsewhere in the
\* city than the player who asked for a shift.
BeginWalk(t) ==
  /\ Writes(t, "place_go") \/ Writes(t, "job_work")
  /\ "walk" \notin busy
  /\ busy' = busy \cup {"walk"}
  /\ Leave(t)
  /\ UNCHANGED <<city, from, to>>

BeginCrime(t) ==
  /\ Writes(t, "crime_commit")
  /\ "crime" \notin busy
  /\ busy' = busy \cup {"crime"}
  /\ Leave(t)
  /\ UNCHANGED <<city, from, to>>

\* What is left of the activities once some of them ended and the player was
\* jailed, or admitted to hospital, or both: an admission cuts a walk short.
After(ended, held) ==
  ((busy \ ended) \cup held) \ (IF "stay" \in held THEN {"walk"} ELSE {})

\* An instant crime is recorded and settled in the transaction that began it.
SettleInstantCrime(t) ==
  /\ Writes(t, "crime_commit")
  /\ "crime" \notin busy
  /\ \E held \in SUBSET {"sentence", "stay"} : busy' = After({}, held)
  /\ Leave(t)
  /\ UNCHANGED <<city, from, to>>

\* Travels.Complete marks the journey arrived and moves the player, together.
EndJourney(t) ==
  /\ Writes(t, "travel_arrive")
  /\ "journey" \in busy
  /\ busy' = busy \ {"journey"}
  /\ city' = to
  /\ Leave(t)
  /\ UNCHANGED <<from, to>>

\* A shift that ends may end in an accident.
EndShift(t) ==
  /\ Writes(t, "job_finish_shift")
  /\ "shift" \in busy
  /\ \E held \in SUBSET {"stay"} : busy' = After({"shift"}, held)
  /\ Leave(t)
  /\ UNCHANGED <<city, from, to>>

\* A shift whose job ended under it is closed unpaid, before the condition row
\* is locked.
AbandonShift(t) ==
  /\ op[t] = "job_finish_shift"
  /\ At(t, "condition")
  /\ "shift" \in busy
  /\ busy' = busy \ {"shift"}
  /\ Leave(t)
  /\ UNCHANGED <<city, from, to>>

EndWalk(t) ==
  /\ Writes(t, "place_arrive")
  /\ "walk" \in busy
  /\ busy' = busy \ {"walk"}
  /\ Leave(t)
  /\ UNCHANGED <<city, from, to>>

SettleTimedCrime(t) ==
  /\ Writes(t, "crime_resolve")
  /\ "crime" \in busy
  /\ \E held \in SUBSET {"sentence", "stay"} : busy' = After({"crime"}, held)
  /\ Leave(t)
  /\ UNCHANGED <<city, from, to>>

\* A solved report jails the suspect wherever they are.
Convict(t) ==
  /\ Writes(t, "crime_conclude")
  /\ busy' = busy \cup {"sentence"}
  /\ Leave(t)
  /\ UNCHANGED <<city, from, to>>

\* A raid, a strike, a failed operation of a faction or the cold sends the
\* player to hospital.
Admit(t) ==
  /\ Writes(t, "injure")
  /\ busy' = After({}, {"stay"})
  /\ Leave(t)
  /\ UNCHANGED <<city, from, to>>

\* A refusal, a violated index, an error or the deadline: nothing is written.
Rollback(t) ==
  /\ op[t] # "none"
  /\ Leave(t)
  /\ UNCHANGED playerVars

\* The term of a sentence, or of a stay, is over: Serving and Admitted compare
\* its end with the clock, whether or not the release has been handled.
TermEnds ==
  /\ \E h \in {"sentence", "stay"} : h \in busy /\ busy' = busy \ {h}
  /\ UNCHANGED <<city, from, to, txnVars>>

Next ==
  \/ \E t \in Txns :
       \/ \E o \in Ops : Begin(t, o)
       \/ ReadPlayer(t) \/ CheckHere(t) \/ CheckActive(t)
       \/ \E check \in DOMAIN Refuses : Check(t, check)
       \/ \E row \in Rows : LockRow(t, row)
       \/ BeginJourney(t) \/ BeginShift(t) \/ BeginWalk(t) \/ BeginCrime(t)
       \/ SettleInstantCrime(t)
       \/ EndJourney(t) \/ EndShift(t) \/ AbandonShift(t) \/ EndWalk(t)
       \/ SettleTimedCrime(t) \/ Convict(t) \/ Admit(t)
       \/ Rollback(t)
  \/ TermEnds

Spec == Init /\ [][Next]_vars

-----------------------------------------------------------------------------
(***************************************************************************)
(* Properties.                                                             *)
(***************************************************************************)

\* The variables keep their shapes.
TypeOK ==
  /\ city \in Cities /\ from \in Cities /\ to \in Cities
  /\ busy \subseteq Activities
  /\ owner \in [Rows -> Txns \cup {NoTxn}]
  /\ op \in [Txns -> Ops \cup {"none"}]
  /\ pc \in [Txns -> 1 .. 9]
  /\ seen \in [Txns -> Cities \cup {NoCity}]

\* A journey and a shift are never in progress together, whichever of
\* travel.start and job.work read first and whichever commits first: both lock
\* the condition row, and each looks for the other's row after it has it.
NoShiftOnTheRoad == ~ ({"journey", "shift"} \subseteq busy)

\* A journey and a timed crime are never in progress together: crime.commit
\* looks at the road after it has locked the condition row, and travel.start
\* asks RefuseDetained a second time under the same lock.
NoCrimeOnTheRoad == ~ ({"journey", "crime"} \subseteq busy)

\* A departure commits only for a player who, at that instant, is not at work,
\* not in the middle of a crime, not in hospital and not on a walk, although
\* each of these was read earlier than the commit.
DepartsUnoccupied ==
  [][\A t \in Txns : BeginJourney(t) => busy \subseteq {"sentence"}]_vars

\* A timed crime begins only for a player who, at that instant, is doing
\* nothing else at all: even a conviction waits for the criminal profile the
\* crime has locked.
CrimeBeginsUnoccupied ==
  [][\A t \in Txns : BeginCrime(t) => busy = {}]_vars

\* What job.work says of a shift: none in the middle of a crime.
NoShiftInACrime == ~ ({"shift", "crime"} \subseteq busy)

\* What place.go says of a walk: none while travelling, for a departure that
\* came first is seen once the condition row is locked.
NoWalkOnTheRoad == ~ ({"journey", "walk"} \subseteq busy)

\* Both: what job.work and place.go look at before their lock is still so.
NothingOnTop == NoShiftInACrime /\ NoWalkOnTheRoad

\* What Travels.Cancel says of a journey in progress: the player's city is
\* still the one the journey left from.
JourneyLeftTheirCity == "journey" \in busy => city = from
=============================================================================
