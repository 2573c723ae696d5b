------------------------------ MODULE UpdateLog ------------------------------
(***************************************************************************)
(* One player's client state sync log in PostgreSQL                        *)
(* (internal/infrastructure/postgres/statesync.go): the numbered records a *)
(* client was told, the version of every entity it holds, the projection   *)
(* that appends what changed under the player's lock, and the trim, which  *)
(* takes another lock and runs beside it.                                  *)
(*                                                                         *)
(* An entity's content is the number of the change that wrote it last, so  *)
(* equal numbers stand for equal hashes and a larger one is a later state. *)
(***************************************************************************)
EXTENDS Integers, Sequences, FiniteSets

CONSTANTS
    Key,            \* the entities: (kind, id)
    Rank,           \* the order Plan sorts them in: kind, then id
    SettlementKey,  \* those of the kinds settlement and residence
    Worker,         \* processes that project
    NoWorker,
    KeepLast        \* state_sync.retention_records

ASSUME LogConstants ==
    /\ IsFiniteSet(Key)
    /\ SettlementKey \subseteq Key
    /\ Rank \in [Key -> Nat]
    /\ \A j, k \in Key : Rank[j] = Rank[k] => j = k
    /\ NoWorker \notin Worker
    /\ KeepLast \in Nat \ {0}

VARIABLES
    actual,   \* the player's entities as the game's tables have them now
    log,      \* player_updates
    floor,    \* player_update_state.min_pts
    held,     \* entity_versions; v = 0: no row
    holder,   \* who holds the player's advisory lock
    mine,     \* the held versions its projection read
    seen,     \* the entities its projection has read so far
    cut,      \* the trim's keep_from, 0: no trim under way
    views     \* history: the entities told, after each pts

stored == <<log, floor, held, views>>
reading == <<holder, mine, seen>>
logVars == <<stored, reading, cut>>

Unseen == [n |-> -1, live |-> FALSE]
NotHeld == [v |-> 0, n |-> 0, deleted |-> FALSE]
Absent == [v |-> 0, n |-> 0]

Content == [n : Nat, live : BOOLEAN]
Versions == [Key -> [v : Nat, n : Nat, deleted : BOOLEAN]]
View == [Key -> [v : Nat, n : Nat]]
Sources == {"evt", "fan", "req", "ref"} \X Nat
Record == [pts : Nat \ {0}, key : Key, v : Nat \ {0}, op : {"set", "del"},
           n : Nat, source : Sources]

LogTypeOK ==
    /\ actual \in [Key -> Content]
    /\ log \in SUBSET Record
    /\ floor \in Nat \ {0}
    /\ held \in Versions
    /\ holder \in Worker \cup {NoWorker}
    /\ mine \in Versions
    /\ seen \in [Key -> Content \cup {Unseen}]
    /\ cut \in Nat
    /\ views \in Seq(View) /\ views # <<>>

NothingHeld == [k \in Key |-> NotHeld]
NothingSeen == [k \in Key |-> Unseen]

LogInit ==
    /\ actual = [k \in Key |-> [n |-> 0, live |-> FALSE]]
    /\ log = {} /\ floor = 1
    /\ held = NothingHeld
    /\ holder = NoWorker /\ mine = NothingHeld /\ seen = NothingSeen
    /\ cut = 0
    /\ views = <<[k \in Key |-> Absent]>>

----------------------------------------------------------------------------
Highest(S) == CHOOSE m \in S : \A x \in S : x <= m
Least(a, b) == IF a <= b THEN a ELSE b

Numbers == {r.pts : r \in log}
maxPTS == Highest(Numbers \cup {floor - 1})

\* What GET /state reads: the held entities that are not tombstones.
Live(h) ==
    [k \in Key |-> IF h[k].deleted THEN Absent ELSE [v |-> h[k].v, n |-> h[k].n]]

\* Mutant: Plan does not compare the hashes.
IsSet_Always(k) == seen[k].live

\* Plan: what differs between the state read and what is held.
IsSet(k) ==
    /\ seen[k].live
    /\ mine[k].v = 0 \/ mine[k].deleted \/ mine[k].n # seen[k].n

IsDel(k) == ~seen[k].live /\ mine[k].v > 0 /\ ~mine[k].deleted
Plan(scope) == {k \in scope : IsSet(k) \/ IsDel(k)}

\* A source appends an entity once (the cause key); a refresh is never the
\* same source twice.
Appended(source) ==
    IF source[1] = "ref" THEN {} ELSE {r.key : r \in {l \in log : l.source = source}}

\* The changes in Plan's order.
InOrder(K) ==
    {s \in UNION {[1..m -> K] : m \in 0..Cardinality(K)} :
        /\ {s[i] : i \in DOMAIN s} = K
        /\ \A i, j \in DOMAIN s : i < j => Rank[s[i]] < Rank[s[j]]}

\* Mutant: a change keeps the version it was held at.
RecordOf_SameVersion(k, pts, source) ==
    [pts |-> pts, key |-> k, v |-> mine[k].v, op |-> IF seen[k].live THEN "set" ELSE "del",
     n |-> seen[k].n, source |-> source]

RecordOf(k, pts, source) ==
    [pts |-> pts, key |-> k, v |-> mine[k].v + 1, op |-> IF seen[k].live THEN "set" ELSE "del",
     n |-> seen[k].n, source |-> source]

Rows(s, source) == {RecordOf(s[i], maxPTS + i, source) : i \in DOMAIN s}

\* The entity as the client has it once told.
Told(k) == IF seen[k].live THEN [v |-> mine[k].v + 1, n |-> seen[k].n] ELSE Absent
ViewsOf(s) ==
    [i \in DOMAIN s |->
        [k \in Key |-> IF \E j \in 1..i : s[j] = k THEN Told(k) ELSE views[Len(views)][k]]]

----------------------------------------------------------------------------
\* The lock is the transaction's, and the held versions are read under it.
Lock(w) ==
    /\ holder = NoWorker
    /\ holder' = w
    /\ mine' = held /\ seen' = NothingSeen
    /\ UNCHANGED <<stored, cut, actual>>

Unlock == holder' = NoWorker /\ mine' = NothingHeld /\ seen' = NothingSeen

\* Each kind by a statement of its own: READ COMMITTED, so two of them may see
\* two different moments.
Read(w, k, scope) ==
    /\ holder = w
    /\ seen[k] = Unseen
    /\ \A j \in scope : Rank[j] < Rank[k] => seen[j] # Unseen
    /\ seen' = [seen EXCEPT ![k] = actual[k]]
    /\ UNCHANGED <<stored, holder, mine, cut, actual>>

\* The rest of Project: one record per change, numbered on from the highest
\* pts, its entity_versions row with it, and the commit.
AppendAll(w, source, s) ==
    /\ holder = w
    /\ log' = log \cup Rows(s, source)
    /\ held' = [k \in Key |->
         IF \E i \in DOMAIN s : s[i] = k
         THEN [v |-> mine[k].v + 1, n |-> seen[k].n, deleted |-> ~seen[k].live]
         ELSE held[k]]
    /\ views' = views \o ViewsOf(s)
    /\ Unlock
    /\ UNCHANGED <<floor, cut, actual>>

Project(w, source, scope) ==
    /\ \A k \in scope : seen[k] # Unseen
    /\ \E s \in InOrder(Plan(scope) \ Appended(source)) : AppendAll(w, source, s)

\* An error or a crash: the transaction rolls back.
Abandon(w) ==
    /\ holder = w
    /\ Unlock
    /\ UNCHANGED <<stored, cut, actual>>

\* Mutant: the trim goes by age alone.
TrimBegins_AgeOnly ==
    /\ cut = 0 /\ log # {}
    /\ \E young \in Numbers \cup {Highest(Numbers) + 1} : cut' = young /\ young > 1
    /\ UNCHANGED <<stored, reading, actual>>

\* The trim reads what it will keep: from the first record young enough, and
\* at least the last KeepLast, whichever is more.
TrimBegins ==
    /\ cut = 0 /\ log # {}
    /\ LET last == Highest(Numbers) IN
       \E young \in Numbers \cup {last + 1} :
         /\ cut' = Least(young, last - KeepLast + 1)
         /\ cut' > 1
    /\ UNCHANGED <<stored, reading, actual>>

\* Mutant: the floor stays where it was.
TrimEnds_KeepsFloor ==
    /\ cut # 0 /\ cut' = 0
    /\ log' = {r \in log : r.pts >= cut}
    /\ UNCHANGED <<floor, held, views, reading, actual>>

\* It deletes what is below and raises the floor; tombstones older than the
\* cutoff go with them.  Their age is not that of a kept record: any may go.
TrimEnds ==
    /\ cut # 0 /\ cut' = 0
    /\ LET gone == {r \in log : r.pts < cut} IN
       /\ log' = log \ gone
       /\ IF gone = {} THEN UNCHANGED <<floor, held>>
          ELSE /\ floor' = Highest({floor, cut})
               /\ \E old \in SUBSET {k \in Key : held[k].deleted} :
                    held' = [k \in Key |-> IF k \in old THEN NotHeld ELSE held[k]]
    /\ UNCHANGED <<views, reading, actual>>

TrimAborts == cut # 0 /\ cut' = 0 /\ UNCHANGED <<stored, reading, actual>>
=============================================================================
