------------------------------ MODULE StateSync ------------------------------
(***************************************************************************)
(* Client state sync of one player (internal/statesync, cmd/notifier's     *)
(* projector, cmd/clientapi's endpoints): whatever changes the player is   *)
(* followed by projections, from the event stream, after an answer and     *)
(* before a snapshot; their records are pushed as well as they can be; and *)
(* clients keep a copy by the rules of client.go and api/client-api.md 5.6.*)
(*                                                                         *)
(* A task is a reason to project: an event that names the player ("evt"),  *)
(* a settlement's event the player is in the audience of ("fan"), a        *)
(* command's answer seen by the notifier ("poke") or by the client API     *)
(* that ran it ("cmd"), and a snapshot ("ref").                            *)
(***************************************************************************)
EXTENDS UpdateLog

CONSTANTS
    Projector,       \* the notifiers' handlers
    Api,             \* the client API's
    Client,          \* the player's devices
    NoTask,
    ResetThreshold, PullLimit,
    Ways,            \* the tasks a change may be announced by
    MaxChanges, MaxFaults   \* bounds

\* The configuration refuses a threshold above what is kept (config/statesync.go).
ASSUME SyncConstants ==
    /\ Worker = Projector \cup Api
    /\ ResetThreshold \in 1..KeepLast
    /\ PullLimit \in Nat \ {0}
    /\ Ways \subseteq {{"evt"}, {"evt", "poke"}, {"evt", "cmd"}, {"fan"}, {"poke"}, {"cmd"}}
    /\ MaxChanges \in Nat /\ MaxFaults \in Nat

VARIABLES
    changes,   \* how many changes there were
    todo,      \* tasks waiting; an event's stays until it is acknowledged
    promised,  \* the changes whose event has not been given up
    task,      \* what a worker projects for
    stage,     \* how far it is
    recs,      \* what it appended
    pts,       \* a client's cursor, -1: no copy
    copy,      \* its entities
    got,       \* records it received and has not applied
    faults

serverVars == <<todo, promised, task, stage, recs>>
clientVars == <<pts, copy, got>>
world == <<changes, actual>>
vars == <<world, logVars, serverVars, clientVars, faults>>

Task == [how : {"evt", "fan", "poke", "cmd"}, n : Nat \ {0}]
Refresh(c) == [how |-> "ref", n |-> 0, client |-> c]
TypeOK ==
    /\ LogTypeOK
    /\ changes \in 0..MaxChanges
    /\ todo \in SUBSET Task
    /\ promised \in SUBSET Nat
    /\ task \in [Worker -> Task \cup {Refresh(c) : c \in Client} \cup {NoTask}]
    /\ stage \in [Worker -> {"idle", "reading", "sending"}]
    /\ recs \in [Worker -> SUBSET Record]
    /\ pts \in [Client -> Nat \cup {-1}]
    /\ copy \in [Client -> View]
    /\ got \in [Client -> SUBSET Record]
    /\ faults \in 0..MaxFaults

NothingKept == [k \in Key |-> Absent]

Init ==
    /\ LogInit
    /\ changes = 0
    /\ todo = {} /\ promised = {}
    /\ task = [w \in Worker |-> NoTask]
    /\ stage = [w \in Worker |-> "idle"]
    /\ recs = [w \in Worker |-> {}]
    /\ pts = [c \in Client |-> -1]
    /\ copy = [c \in Client |-> NothingKept]
    /\ got = [c \in Client |-> {}]
    /\ faults = 0

Fault == faults < MaxFaults /\ faults' = faults + 1

----------------------------------------------------------------------------
(* The game, and the tasks a committed change leads to.                    *)

\* An entity is written or removed; who is told depends on what wrote it.
Change(k) ==
    /\ changes < MaxChanges /\ changes' = changes + 1
    /\ \E live \in BOOLEAN, way \in Ways :
         /\ live \/ actual[k].live
         /\ way = {"fan"} => k \in SettlementKey
         /\ actual' = [actual EXCEPT ![k] = [n |-> changes', live |-> live]]
         /\ todo' = todo \cup {[how |-> h, n |-> changes'] : h \in way}
         /\ promised' = IF way \cap {"evt", "fan"} = {} THEN promised
                        ELSE promised \cup {changes'}
    /\ UNCHANGED <<logVars, task, stage, recs, clientVars, faults>>

Tasks == todo \cup {Refresh(c) : c \in Client}
Durable(t) == t.how \in {"evt", "fan"}

\* Core NATS keeps no poke, and a full queue drops one.
DropPoke(t) ==
    /\ t \in todo /\ t.how = "poke"
    /\ todo' = todo \ {t}
    /\ UNCHANGED <<world, logVars, promised, task, stage, recs, clientVars, faults>>

\* An event older than MaxEventAge is acknowledged and not projected.
TooOld(t) ==
    /\ t \in todo /\ Durable(t) /\ Fault
    /\ todo' = todo \ {t}
    /\ promised' = promised \ {t.n}
    /\ UNCHANGED <<world, logVars, task, stage, recs, clientVars>>

----------------------------------------------------------------------------
(* A worker: HandleEvent, HandleResponse, ForCommand, State.               *)

Source(t) == <<CASE t.how \in {"poke", "cmd"} -> "req" [] OTHER -> t.how, t.n>>
Scope(t) == IF t.how = "fan" THEN SettlementKey ELSE Key

Goto(w, s) == stage' = [stage EXCEPT ![w] = s]
Release(w) ==
    /\ task' = [task EXCEPT ![w] = NoTask]
    /\ Goto(w, "idle")
    /\ recs' = [recs EXCEPT ![w] = {}]

Takes(w, t) ==
    \/ t \in todo /\ w \in Projector /\ t.how # "cmd"
    \/ t \in todo /\ w \in Api /\ t.how = "cmd"
    \/ t.how = "ref" /\ w \in Api /\ pts[t.client] = -1 /\ \A x \in Worker : task[x] # t

\* A worker has its task once it has the player's lock.  An event whose
\* acknowledgement is late is delivered to another worker too.
Begin(w, t) ==
    /\ stage[w] = "idle" /\ Takes(w, t)
    /\ IF \E x \in Worker : task[x] = t /\ Durable(t) THEN Fault ELSE UNCHANGED faults
    /\ Lock(w)
    /\ task' = [task EXCEPT ![w] = t]
    /\ Goto(w, "reading")
    /\ todo' = IF Durable(t) THEN todo ELSE todo \ {t}
    /\ UNCHANGED <<changes, promised, recs, clientVars>>

ReadEntity(w, k) ==
    /\ stage[w] = "reading" /\ k \in Scope(task[w]) /\ Read(w, k, Scope(task[w]))
    /\ UNCHANGED <<changes, serverVars, clientVars, faults>>

Commit(w) ==
    /\ stage[w] = "reading"
    /\ Project(w, Source(task[w]), Scope(task[w]))
    /\ recs' = [recs EXCEPT ![w] = log' \ log]
    /\ Goto(w, "sending")
    /\ UNCHANGED <<changes, todo, promised, task, clientVars, faults>>

\* What a worker sends once its projection committed: what it appended; if
\* that is nothing, an event's records of before (BySource), or those of the
\* command (ByCause).
Batch(w) ==
    LET t == task[w] IN
    CASE recs[w] # {}    -> recs[w]
      [] t.how = "evt"   -> {r \in log : r.source = Source(t)}
      [] t.how = "cmd"   -> {r \in log : r.source[2] = t.n}
      [] OTHER           -> {}

\* Any client may miss what is published best effort, and what is answered.
Heard(R) ==
    {[c \in Client |-> IF c \in hears THEN got[c] \cup R ELSE got[c]] :
        hears \in SUBSET {c \in Client : R # {}}}

\* The handler ends: the event is acknowledged, or the snapshot of GET /state
\* answered: the held entities and the pts they are current to, in one
\* snapshot of the database.  A client that has a copy keeps it.
Ends(w, received) ==
    LET asks == {c \in Client : task[w] = Refresh(c) /\ pts[c] = -1} IN
    /\ pts' = [c \in Client |-> IF c \in asks THEN maxPTS ELSE pts[c]]
    /\ copy' = [c \in Client |-> IF c \in asks THEN Live(held) ELSE copy[c]]
    /\ got' = [c \in Client |-> {r \in received[c] : r.pts > pts'[c]}]
    /\ Release(w)

Send(w) ==
    /\ stage[w] = "sending"
    /\ \E received \in Heard(Batch(w)) : Ends(w, received)
    /\ todo' = todo \ {task[w]}
    /\ UNCHANGED <<world, logVars, promised, faults>>

\* The wait for a command's records ends, or the lock's: its answer goes
\* without them and they are projected in the background.
InBackground(t) == IF t.how = "cmd" THEN {[t EXCEPT !.how = "poke"]} ELSE {}

TimesOut(t) ==
    /\ t \in todo /\ t.how = "cmd"
    /\ todo' = (todo \ {t}) \cup InBackground(t)
    /\ UNCHANGED <<world, logVars, promised, task, stage, recs, clientVars, faults>>

\* Mutant: an event is acknowledged although its projection failed.
Fail_Acks(w) ==
    /\ stage[w] = "reading" /\ Fault
    /\ Abandon(w)
    /\ todo' = (todo \ {task[w]}) \cup InBackground(task[w])
    /\ Ends(w, got)
    /\ UNCHANGED <<changes, promised>>

\* A projection that fails is retried by its event; a snapshot is answered as
\* held.
Fail(w) ==
    /\ stage[w] = "reading" /\ Fault
    /\ Abandon(w)
    /\ todo' = todo \cup InBackground(task[w])
    /\ Ends(w, got)
    /\ UNCHANGED <<changes, promised>>

Crash(w) ==
    /\ stage[w] # "idle" /\ Fault
    /\ IF holder = w THEN Abandon(w) ELSE UNCHANGED <<actual, logVars>>
    /\ Release(w)
    /\ UNCHANGED <<changes, todo, promised, clientVars>>

Trim ==
    /\ TrimBegins \/ TrimEnds \/ TrimAborts
    /\ UNCHANGED <<changes, serverVars, clientVars, faults>>

----------------------------------------------------------------------------
(* A client and the endpoints it asks.                                     *)

\* An answer is taken as it is read: one that is late on the way leaves the
\* client where it would be had it taken it and done nothing since.

\* Mutant: a reset begins again at 0 with nothing.
Forget_Rewinds(c) ==
    /\ pts' = [pts EXCEPT ![c] = 0]
    /\ copy' = [copy EXCEPT ![c] = NothingKept]

Forget(c) ==
    /\ pts' = [pts EXCEPT ![c] = -1]
    /\ copy' = [copy EXCEPT ![c] = NothingKept]

\* GET /updates?since=: the records after the cursor, at most PullLimit, or a
\* reset.
Behind(c) == maxPTS - pts[c]
After(c) == {r \in log : r.pts > pts[c]}
MustReset(c) ==
    \/ pts[c] > maxPTS
    \/ pts[c] < floor - 1
    \/ Behind(c) > ResetThreshold
    \/ After(c) # {} /\ \A r \in After(c) : r.pts # pts[c] + 1

Limited(R) == {r \in R : Cardinality({q \in R : q.pts <= r.pts}) <= PullLimit}

GetUpdates(c) ==
    /\ pts[c] # -1
    /\ IF MustReset(c)
       THEN Forget(c) /\ UNCHANGED got
       ELSE /\ got' = [got EXCEPT ![c] = @ \cup Limited(After(c))]
            /\ UNCHANGED <<pts, copy>>
    /\ UNCHANGED <<world, logVars, serverVars, faults>>

\* A record on an entity of the copy: a set applies only if it is newer.
Applied(e, r) ==
    CASE r.op = "del"               -> Absent
      [] r.op = "set" /\ e.v >= r.v -> e
      [] OTHER                      -> [v |-> r.v, n |-> r.n]
WithRecord(entities, r) == [entities EXCEPT ![r.key] = Applied(@, r)]

\* Mutant: a record beyond the next is applied.
Apply_Gap(c, r) ==
    /\ pts[c] # -1 /\ r.pts > pts[c]
    /\ pts' = [pts EXCEPT ![c] = r.pts]
    /\ copy' = [copy EXCEPT ![c] = WithRecord(@, r)]
    /\ got' = [got EXCEPT ![c] = {x \in @ : x.pts > r.pts}]
    /\ UNCHANGED <<world, logVars, serverVars, faults>>

\* Only the next pts applies; what is beyond it waits.
Apply(c, r) ==
    /\ pts[c] # -1 /\ r.pts = pts[c] + 1
    /\ pts' = [pts EXCEPT ![c] = r.pts]
    /\ copy' = [copy EXCEPT ![c] = WithRecord(@, r)]
    /\ got' = [got EXCEPT ![c] = {x \in @ : x.pts > r.pts}]
    /\ UNCHANGED <<world, logVars, serverVars, faults>>

\* The page is loaded again, without its copy.
Restart(c) ==
    /\ Fault
    /\ Forget(c)
    /\ got' = [got EXCEPT ![c] = {}]
    /\ UNCHANGED <<world, logVars, serverVars>>

----------------------------------------------------------------------------
Works(w) == Commit(w) \/ Send(w) \/ \E k \in Key : ReadEntity(w, k)
Follows(c) == GetUpdates(c) \/ \E r \in got[c] : Apply(c, r)

Next ==
    \/ \E k \in Key : Change(k)
    \/ \E t \in todo : DropPoke(t) \/ TooOld(t) \/ TimesOut(t)
    \/ \E w \in Worker :
         Works(w) \/ Fail(w) \/ Crash(w) \/ \E t \in Tasks : Begin(w, t)
    \/ Trim
    \/ \E c \in Client : Follows(c) \/ Restart(c)

Spec == Init /\ [][Next]_vars
\* A worker that runs gets on; the lock is granted in the order it was asked
\* for, and an event is delivered until it is acknowledged.  A client pulls
\* again and again (rules 4 and 7), and applies what it has.
Fairness ==
    /\ \A w \in Worker : WF_vars(Works(w))
    /\ SF_vars(\E w \in Projector, t \in {x \in todo : Durable(x)} : Begin(w, t))
    /\ \A c \in Client : SF_vars(\E w \in Api : Begin(w, Refresh(c)))
    /\ \A c \in Client :
         /\ SF_vars(GetUpdates(c))
         /\ SF_vars(\E r \in got[c] : Apply(c, r))

FairSpec == Spec /\ Fairness

----------------------------------------------------------------------------
\* A client's copy is what the server had told as of the client's cursor,
\* whatever was lost, repeated or reordered on the way: applying /updates on
\* top of /state "gives the state exactly" (Apply, Snapshot, Updates).
CopyIsTheView ==
    \A c \in Client :
        IF pts[c] = -1 THEN copy[c] = NothingKept
        ELSE pts[c] + 1 \in DOMAIN views /\ copy[c] = views[pts[c] + 1]

\* The log has every pts ever told but for those below its floor, and its
\* fold is the held versions a snapshot is read from, with the trim running
\* beside the projections (Project, Trim).
LogIsWhole ==
    /\ Numbers = floor..(Len(views) - 1)
    /\ Live(held) = views[Len(views)]

\* A later record of an entity carries a later state of it: what changed is
\* told once and never after what replaced it, for the state is read under
\* the lock (Project's comment).
NeverBackwards ==
    \A q, r \in log : q.key = r.key /\ q.pts < r.pts => q.n < r.n

\* A client no further behind than the threshold is never told to drop its
\* copy, whatever the trim deletes (Updates, Trim, StateSync.validate).
ResetOnlyBehind ==
    \A c \in Client : pts[c] # -1 /\ MustReset(c) => Behind(c) > ResetThreshold

\* A client goes through the told states one by one, or drops its copy and
\* starts at the newest: state sync implements FollowedState.
Followed == INSTANCE FollowedState WITH
    Nothing <- NothingKept, told <- views, shown <- copy,
    at <- [c \in Client |-> pts[c] + 1]
FollowsTheLog == Followed!Spec

\* When the world has come to rest every client has every change an event
\* announced, however projections, publications and pulls fell out.
Matches(e, k) ==
    IF actual[k].live THEN e.v > 0 /\ e.n = actual[k].n ELSE e = Absent
CaughtUp == \A c \in Client, k \in Key : actual[k].n \in promised => Matches(copy[c][k], k)
EventuallyCaughtUp == <>[]CaughtUp
=============================================================================
