-------------------------- MODULE StateSync_proofs --------------------------
(***************************************************************************)
(* Proofs about StateSync: what a client holds, what the log holds, when a *)
(* client is told to reset, that a later record tells a later state, and   *)
(* that the whole implements FollowedState.                                *)
(*                                                                         *)
(* LogInv is about the server alone.  Its heart is RecordsFit: a record    *)
(* takes the view before its pts to the view at it, by the very rule a     *)
(* client applies it with.  Everything about clients then follows from     *)
(* where a record and a cursor stand in the sequence of views.             *)
(***************************************************************************)
EXTENDS StateSync, FiniteSetTheorems, SequenceTheorems, TLAPS

WorkerHasTask ==
    \A w \in Worker :
        stage[w] # "idle" => task[w] \in Task \cup {Refresh(c) : c \in Client}

\* The floor and the cut leave the last KeepLast records alone.
KeepsEnough ==
    /\ floor = 1 \/ floor <= Len(views) - KeepLast
    /\ cut = 0 \/ cut <= Len(views) - KeepLast

\* Who has the lock read what is still held, but for tombstones.
MineIsCurrent == holder # NoWorker => Live(mine) = views[Len(views)]

\* A record takes the view before it to the view at it.
Fits(r) ==
    /\ r.pts + 1 \in DOMAIN views
    /\ views[r.pts + 1] = WithRecord(views[r.pts], r)
RecordsFit == \A r \in log : Fits(r)

LogInv ==
    LogTypeOK /\ LogIsWhole /\ KeepsEnough /\ MineIsCurrent /\ RecordsFit

\* The views told are never taken back.
Kept ==
    /\ Len(views') >= Len(views)
    /\ \A i \in 1..Len(views) : views'[i] = views[i]

----------------------------------------------------------------------------
(* The numbering.                                                          *)

\* The highest of a range is its end.
LEMMA HighestOfRange ==
    ASSUME NEW a \in Int, NEW b \in Int, a <= b
    PROVE  Highest(a..b) = b
<1>1. b \in a..b /\ \A x \in a..b : x <= b
  OBVIOUS
<1>2. \A m \in a..b : (\A x \in a..b : x <= m) => m = b
  OBVIOUS
<1> QED BY <1>1, <1>2 DEF Highest

LEMMA HighestOfTwo ==
    ASSUME NEW a \in Int, NEW b \in Int
    PROVE  Highest({a, b}) = IF a <= b THEN b ELSE a
<1> DEFINE h == IF a <= b THEN b ELSE a
<1>1. h \in {a, b} /\ \A x \in {a, b} : x <= h
  OBVIOUS
<1>2. \A m \in {a, b} : (\A x \in {a, b} : x <= m) => m = h
  OBVIOUS
<1> QED BY <1>1, <1>2 DEF Highest

\* What the floor and the cut may be.
LEMMA Floors ==
    ASSUME LogConstants, LogTypeOK, KeepsEnough
    PROVE  /\ Len(views) \in Nat \ {0}
           /\ floor \in 1..Len(views)
           /\ cut \in 0..Len(views)
BY DEF LogConstants, LogTypeOK, KeepsEnough

\* The next record is numbered by how many views there are.
LEMMA MaxPts ==
    ASSUME LogConstants, LogTypeOK, KeepsEnough, LogIsWhole
    PROVE  maxPTS = Len(views) - 1
<1>1. Len(views) \in Nat \ {0} /\ floor \in 1..Len(views)
  BY Floors
<1>2. Numbers \cup {floor - 1} = (floor - 1)..(Len(views) - 1)
  BY <1>1 DEF LogIsWhole
<1>3. Highest((floor - 1)..(Len(views) - 1)) = Len(views) - 1
  BY <1>1, HighestOfRange
<1> QED BY <1>2, <1>3 DEF maxPTS

\* Tombstones tell the same whether they are kept or not.
LEMMA LiveIsView ==
    ASSUME NEW h \in Versions
    PROVE  Live(h) \in View
BY DEF Live, Versions, View, Absent

----------------------------------------------------------------------------
(* The steps that leave the views alone.                                   *)

\* What holds of the log holds while the log and what it is compared with
\* stay.
LEMMA LogStays ==
    ASSUME LogInv, LogTypeOK', UNCHANGED <<log, floor, views>>,
           Live(held') = Live(held),
           cut' = cut \/ cut' = 0,
           holder' # NoWorker => Live(mine') = Live(held) \/ (holder = holder' /\ mine' = mine)
    PROVE  LogInv' /\ Kept
<1>1. Kept
  BY DEF LogInv, LogTypeOK, Kept
<1>2. LogIsWhole'
  BY DEF LogInv, LogIsWhole, Numbers
<1>3. KeepsEnough'
  BY DEF LogInv, KeepsEnough
<1>4. MineIsCurrent'
  BY DEF LogInv, MineIsCurrent, LogIsWhole
<1>5. RecordsFit'
  BY DEF LogInv, RecordsFit, Fits
<1> QED BY <1>1, <1>2, <1>3, <1>4, <1>5 DEF LogInv

LEMMA LockKeeps ==
    ASSUME LogInv, NEW w \in Worker, Lock(w)
    PROVE  LogInv' /\ Kept
<1>1. LogTypeOK'
  BY DEF LogInv, LogTypeOK, Lock, stored, NothingSeen
<1> QED BY <1>1, LogStays DEF Lock, stored

LEMMA ReadKeeps ==
    ASSUME LogInv, NEW w \in Worker, NEW k \in Key, NEW scope, Read(w, k, scope)
    PROVE  LogInv' /\ Kept
<1>1. LogTypeOK'
  BY DEF LogInv, LogTypeOK, Read, stored
<1> QED BY <1>1, LogStays DEF Read, stored

LEMMA UnlockTypes == NothingHeld \in Versions /\ NothingSeen \in [Key -> Content \cup {Unseen}]
BY DEF NothingHeld, NotHeld, Versions, NothingSeen

LEMMA AbandonKeeps ==
    ASSUME LogInv, NEW w \in Worker, Abandon(w)
    PROVE  LogInv' /\ Kept
<1>1. LogTypeOK'
  BY UnlockTypes DEF LogInv, LogTypeOK, Abandon, Unlock, stored
<1> QED BY <1>1, LogStays DEF Abandon, Unlock, stored

LEMMA OutsideKeeps ==
    ASSUME LogInv, UNCHANGED logVars, actual' \in [Key -> Content]
    PROVE  LogInv' /\ Kept
<1>1. LogTypeOK'
  BY DEF LogInv, LogTypeOK, logVars, stored, reading
<1> QED BY <1>1, LogStays DEF logVars, stored, reading

LEMMA TrimAbortsKeeps ==
    ASSUME LogInv, TrimAborts
    PROVE  LogInv' /\ Kept
<1>1. LogTypeOK'
  BY DEF LogInv, LogTypeOK, TrimAborts, stored, reading
<1> QED BY <1>1, LogStays DEF TrimAborts, stored, reading

\* The trim keeps at least the last KeepLast, whatever their age.
LEMMA TrimBeginsKeeps ==
    ASSUME LogConstants, LogInv, TrimBegins
    PROVE  LogInv' /\ Kept
<1>1. Len(views) \in Nat \ {0} /\ floor \in 1..Len(views)
  BY Floors DEF LogInv
<1>2. Numbers = floor..(Len(views) - 1)
  BY DEF LogInv, LogIsWhole
<1>3. Numbers # {}
  BY DEF TrimBegins, Numbers
<1>4. Highest(Numbers) = Len(views) - 1
  BY <1>1, <1>2, <1>3, HighestOfRange
<1>5. PICK young \in Numbers \cup {Len(views)} :
        cut' = Least(young, Len(views) - 1 - KeepLast + 1) /\ cut' > 1
  BY <1>1, <1>4 DEF TrimBegins
<1>6. young \in Int
  BY <1>1, <1>2, <1>5
<1>7. cut' \in Nat /\ cut' <= Len(views) - KeepLast
  BY <1>1, <1>5, <1>6 DEF Least, LogConstants
<1>8. LogTypeOK'
  BY <1>7 DEF LogInv, LogTypeOK, TrimBegins, stored, reading
<1>9. UNCHANGED <<log, floor, held, views, holder, mine>>
  BY DEF TrimBegins, stored, reading
<1>10. Kept /\ LogIsWhole'
  BY <1>9 DEF LogInv, LogTypeOK, Kept, LogIsWhole, Numbers
<1>11. MineIsCurrent'
  BY <1>9 DEF LogInv, MineIsCurrent
<1>12. RecordsFit'
  BY <1>9 DEF LogInv, RecordsFit, Fits
<1>13. KeepsEnough'
  BY <1>7 DEF LogInv, KeepsEnough, TrimBegins, stored, reading
<1> QED BY <1>8, <1>10, <1>11, <1>12, <1>13 DEF LogInv

\* The trim takes what is below its cut, and only tombstones.
LEMMA TrimEndsKeeps ==
    ASSUME LogConstants, LogInv, TrimEnds
    PROVE  LogInv' /\ Kept
<1> DEFINE gone == {r \in log : r.pts < cut}
<1>1. Len(views) \in Nat \ {0} /\ floor \in 1..Len(views) /\ cut \in 1..Len(views)
  BY Floors DEF LogInv, TrimEnds
<1>2. log' = log \ gone /\ cut' = 0 /\ UNCHANGED <<views, holder, mine, seen, actual>>
  BY DEF TrimEnds, reading
<1>3. CASE gone = {}
  <2>1. UNCHANGED <<log, floor, held>>
    BY <1>2, <1>3 DEF TrimEnds
  <2>2. LogTypeOK'
    BY <1>2, <2>1 DEF LogInv, LogTypeOK
  <2> QED BY <1>2, <2>1, <2>2, LogStays
<1>4. CASE gone # {}
  <2>1. floor' = IF floor <= cut THEN cut ELSE floor
    BY <1>1, <1>4, HighestOfTwo DEF TrimEnds
  <2>2. PICK old \in SUBSET {k \in Key : held[k].deleted} :
          held' = [k \in Key |-> IF k \in old THEN NotHeld ELSE held[k]]
    BY <1>4 DEF TrimEnds
  <2>3. held' \in Versions
    BY <2>2 DEF LogInv, LogTypeOK, Versions, NotHeld
  <2>4. Live(held') = Live(held)
    BY <2>2 DEF Live, NotHeld, Absent
  <2>5. LogTypeOK'
    BY <1>1, <1>2, <2>1, <2>3 DEF LogInv, LogTypeOK
  <2>6. Numbers' = {n \in Numbers : n >= cut}
    BY <1>1, <1>2 DEF LogInv, LogTypeOK, Numbers, Record
  <2>7. LogIsWhole'
    BY <1>1, <1>2, <2>1, <2>4, <2>6 DEF LogInv, LogIsWhole
  <2>8. KeepsEnough'
    BY <1>1, <1>2, <2>1 DEF LogInv, KeepsEnough
  <2>9. Kept
    BY <1>1, <1>2 DEF Kept
  <2>10. MineIsCurrent'
    BY <1>2 DEF LogInv, MineIsCurrent
  <2>11. RecordsFit'
    BY <1>2 DEF LogInv, RecordsFit, Fits
  <2> QED BY <2>5, <2>7, <2>8, <2>9, <2>10, <2>11 DEF LogInv
<1> QED BY <1>3, <1>4

----------------------------------------------------------------------------
(* The step that adds views: a projection commits.                         *)

\* Plan's order is a finite sequence of different entities.
LEMMA Ordered ==
    ASSUME LogConstants, NEW K \in SUBSET Key, NEW s \in InOrder(K)
    PROVE  \E m \in Nat :
             /\ s \in [1..m -> K]
             /\ \A i, j \in 1..m : i # j => s[i] # s[j]
<1>1. IsFiniteSet(K)
  BY FS_Subset DEF LogConstants
<1>2. Cardinality(K) \in Nat
  BY <1>1, FS_CardinalityType
<1>3. PICK m \in 0..Cardinality(K) : s \in [1..m -> K]
  BY DEF InOrder
<1>4. m \in Nat
  BY <1>2
<1>5. ASSUME NEW i \in 1..m, NEW j \in 1..m, i # j
      PROVE  s[i] # s[j]
  <2>1. DOMAIN s = 1..m /\ s[i] \in Key /\ s[j] \in Key
    BY <1>3, <1>5
  <2>2. i < j => Rank[s[i]] < Rank[s[j]]
    BY <2>1, <1>5 DEF InOrder
  <2>3. j < i => Rank[s[j]] < Rank[s[i]]
    BY <2>1, <1>5 DEF InOrder
  <2>4. Rank[s[i]] \in Nat /\ Rank[s[j]] \in Nat
    BY <2>1 DEF LogConstants
  <2> QED BY <1>4, <1>5, <2>2, <2>3, <2>4
<1> QED BY <1>3, <1>4, <1>5

\* The view once the first i of the changes s are told.
ViewAt(s, i) ==
    [k \in Key |-> IF \E j \in 1..i : s[j] = k THEN Told(k) ELSE views[Len(views)][k]]

\* A sequence of changes whose states were read makes a view of each.
LEMMA TheViews ==
    ASSUME LogTypeOK, NEW m \in Nat, NEW s \in [1..m -> Key],
           \A i \in 1..m : seen[s[i]] # Unseen
    PROVE  /\ ViewsOf(s) \in Seq(View) /\ Len(ViewsOf(s)) = m
           /\ \A i \in 1..m : ViewsOf(s)[i] = ViewAt(s, i)
<1> DEFINE vs == [i \in 1..m |-> ViewAt(s, i)]
<1>1. ViewsOf(s) = vs
  BY DEF ViewsOf, ViewAt
<1>2. views[Len(views)] \in View
  BY DEF LogTypeOK
<1>3. ASSUME NEW i \in 1..m
      PROVE  ViewAt(s, i) \in View
  <2>1. ASSUME NEW k \in Key, NEW j \in 1..i, s[j] = k
        PROVE  Told(k) \in [v : Nat, n : Nat]
    <3>1. seen[k] \in Content /\ mine[k].v \in Nat
      BY <2>1 DEF LogTypeOK, Versions
    <3> QED BY <3>1 DEF Content, Told, Absent
  <2>2. ASSUME NEW k \in Key
        PROVE  views[Len(views)][k] \in [v : Nat, n : Nat]
    BY <1>2 DEF View
  <2> QED BY <2>1, <2>2 DEF View, ViewAt
<1>4. vs \in [1..m -> View] /\ \A i \in 1..m : vs[i] = ViewAt(s, i)
  BY <1>3
<1> HIDE DEF vs
<1>5. vs \in Seq(View) /\ Len(vs) = m
  BY <1>4
<1> QED BY <1>1, <1>4, <1>5

\* A committed projection numbers its records on, and each takes the view
\* before it to its own.
LEMMA ProjectKeeps ==
    ASSUME LogConstants, LogInv, NEW w \in Worker, NEW scope \in SUBSET Key,
           NEW source \in Sources, Project(w, source, scope)
    PROVE  LogInv' /\ Kept
<1> DEFINE L == Len(views)
<1>1. L \in Nat \ {0} /\ floor \in 1..L /\ maxPTS = L - 1
  BY Floors, MaxPts DEF LogInv
<1>2. PICK s \in InOrder(Plan(scope) \ Appended(source)) : AppendAll(w, source, s)
  BY DEF Project
<1>3. Plan(scope) \ Appended(source) \in SUBSET Key /\ \A k \in Plan(scope) : seen[k] # Unseen
  BY DEF Plan, Project
<1>4. PICK m \in Nat : /\ s \in [1..m -> Plan(scope) \ Appended(source)]
                       /\ \A i, j \in 1..m : i # j => s[i] # s[j]
  BY <1>2, <1>3, Ordered
<1>5. s \in [1..m -> Key] /\ DOMAIN s = 1..m /\ \A i \in 1..m : seen[s[i]] # Unseen
  BY <1>3, <1>4
<1> DEFINE vs == ViewsOf(s)
           row(i) == RecordOf(s[i], L - 1 + i, source)
<1>6. /\ vs \in Seq(View) /\ Len(vs) = m
      /\ \A i \in 1..m : vs[i] = ViewAt(s, i)
  <2>1. LogTypeOK
    BY DEF LogInv
  <2> QED BY <1>5, <2>1, TheViews
<1>7. /\ views' = views \o vs
      /\ log' = log \cup {row(i) : i \in 1..m}
      /\ held' = [k \in Key |->
           IF \E i \in 1..m : s[i] = k
           THEN [v |-> mine[k].v + 1, n |-> seen[k].n, deleted |-> ~seen[k].live]
           ELSE held[k]]
      /\ holder = w /\ UNCHANGED <<floor, cut, actual>> /\ Unlock
  BY <1>1, <1>2, <1>5 DEF AppendAll, Rows
<1>8. views \in Seq(View)
  BY DEF LogInv, LogTypeOK
<1> HIDE DEF vs
<1>9. /\ views' \in Seq(View) /\ Len(views') = L + m
      /\ \A i \in 1..L : views'[i] = views[i]
      /\ \A i \in 1..m : views'[L + i] = vs[i]
  <2>1. views \o vs \in Seq(View) /\ Len(views \o vs) = L + m
        /\ \A i \in 1..(L + m) :
             (views \o vs)[i] = IF i <= L THEN views[i] ELSE vs[i - L]
    <3>1. Len(vs) = m /\ vs \in Seq(View)
      BY <1>6
    <3>2. \A a, b \in Seq(View) :
             /\ a \o b \in Seq(View)
             /\ Len(a \o b) = Len(a) + Len(b)
             /\ \A i \in 1..Len(a) + Len(b) :
                  (a \o b)[i] = IF i <= Len(a) THEN a[i] ELSE b[i - Len(a)]
      BY ConcatProperties
    <3> HIDE DEF L
    <3>3. /\ views \o vs \in Seq(View)
          /\ Len(views \o vs) = Len(views) + Len(vs)
          /\ \A i \in 1..Len(views) + Len(vs) :
               (views \o vs)[i] = IF i <= Len(views) THEN views[i] ELSE vs[i - Len(views)]
      BY <1>8, <3>1, <3>2, Zenon
    <3> QED BY <3>1, <3>3 DEF L
  <2> DEFINE cat == views \o vs
  <2>2. views' = cat
    BY <1>7
  <2> HIDE DEF cat
  <2>3. \A i \in 1..m : L + i \in 1..(L + m) /\ ~(L + i <= L) /\ (L + i) - L = i
    BY <1>1
  <2>4. \A i \in 1..m : views'[L + i] = vs[i]
    BY <2>1, <2>2, <2>3 DEF cat
  <2>5. \A i \in 1..L : views'[i] = views[i]
    BY <1>1, <2>1, <2>2 DEF cat
  <2> QED BY <2>1, <2>2, <2>4, <2>5 DEF cat
<1>10. Kept
  BY <1>1, <1>9 DEF Kept
<1>11. \A i \in 1..m : row(i) \in Record
  <2> SUFFICES ASSUME NEW i \in 1..m PROVE row(i) \in Record
    OBVIOUS
  <2>1. seen[s[i]] \in Content /\ mine[s[i]].v \in Nat /\ s[i] \in Key
    BY <1>5 DEF LogInv, LogTypeOK, Versions
  <2>2. L - 1 + i \in Nat \ {0}
    BY <1>1
  <2> QED BY <2>1, <2>2 DEF RecordOf, Record, Content
<1>12. held' \in Versions
  <2>1. ASSUME NEW k \in Key, NEW i \in 1..m, s[i] = k
        PROVE  mine[k].v + 1 \in Nat /\ seen[k].n \in Nat
    BY <1>5, <2>1 DEF LogInv, LogTypeOK, Versions, Content
  <2>2. \A k \in Key : held[k] \in [v : Nat, n : Nat, deleted : BOOLEAN]
    BY DEF LogInv, LogTypeOK, Versions
  <2> QED BY <1>7, <2>1, <2>2 DEF Versions
<1>13. LogTypeOK'
  <2>1. log' \in SUBSET Record
    BY <1>7, <1>11 DEF LogInv, LogTypeOK
  <2>2. views' # <<>>
    BY <1>1, <1>9
  <2> QED BY <1>7, <1>9, <1>12, <2>1, <2>2, UnlockTypes DEF LogInv, LogTypeOK, Unlock
<1>14. Numbers' = floor'..(Len(views') - 1)
  <2>1. Numbers' = Numbers \cup {L - 1 + i : i \in 1..m}
    <3>1. \A i \in 1..m : row(i).pts = L - 1 + i
      BY DEF RecordOf
    <3> HIDE DEF row
    <3>2. log' = log \cup {row(i) : i \in 1..m}
      BY <1>7
    <3>3. \A n : (\E r \in log' : r.pts = n)
                <=> (\E r \in log : r.pts = n) \/ \E i \in 1..m : L - 1 + i = n
      BY <3>1, <3>2
    <3>4. \A n : n \in Numbers' <=> \E r \in log' : r.pts = n
      BY DEF Numbers
    <3>5. \A n : n \in Numbers <=> \E r \in log : r.pts = n
      BY DEF Numbers
    <3>6. \A n : n \in {L - 1 + i : i \in 1..m} <=> \E i \in 1..m : L - 1 + i = n
      OBVIOUS
    <3>7. \A n : n \in Numbers' <=> n \in Numbers \cup {L - 1 + i : i \in 1..m}
      BY <3>3, <3>4, <3>5, <3>6
    <3> QED BY <3>7
  <2>2. {L - 1 + i : i \in 1..m} = L..(L + m - 1)
    <3>1. \A n \in L..(L + m - 1) : n - L + 1 \in 1..m /\ L - 1 + (n - L + 1) = n
      BY <1>1
    <3>2. \A i \in 1..m : L - 1 + i \in L..(L + m - 1)
      BY <1>1
    <3>3. \A n \in L..(L + m - 1) : \E i \in 1..m : L - 1 + i = n
      BY <3>1
    <3> HIDE DEF L
    <3> QED BY <3>2, <3>3
  <2>3. Numbers = floor..(L - 1)
    BY DEF LogInv, LogIsWhole
  <2>4. Numbers' = floor..(L + m - 1)
    BY <1>1, <2>1, <2>2, <2>3
  <2>5. Len(views') - 1 = L + m - 1 /\ floor' = floor
    BY <1>1, <1>7, <1>9
  <2> QED BY <2>4, <2>5
<1>15. Live(held') = views'[Len(views')]
  <2>0. Live(held) = views[L]
    BY DEF LogInv, LogIsWhole
  <2>1. CASE m = 0
    <3>1. held' = held
      BY <1>7, <2>1 DEF LogInv, LogTypeOK, Versions
    <3> QED BY <1>1, <1>9, <2>0, <2>1, <3>1
  <2>2. CASE m # 0
    <3>1. views'[L + m] = ViewAt(s, m)
      <4>1. m \in 1..m
        BY <2>2
      <4> QED BY <1>6, <1>9, <4>1
    <3>2. ASSUME NEW k \in Key
          PROVE  Live(held')[k] = views'[L + m][k]
      <4>1. Live(held)[k] = views[L][k]
        BY <2>0
      <4>2. CASE \E j \in 1..m : s[j] = k
        <5>1. held'[k] = [v |-> mine[k].v + 1, n |-> seen[k].n, deleted |-> ~seen[k].live]
          BY <1>7, <4>2
        <5>2. views'[L + m][k] = Told(k)
          BY <3>1, <4>2 DEF ViewAt
        <5>3. Live(held')[k] = IF held'[k].deleted THEN Absent
                               ELSE [v |-> held'[k].v, n |-> held'[k].n]
          BY DEF Live
        <5>4. held'[k].deleted = ~seen[k].live /\ held'[k].v = mine[k].v + 1
              /\ held'[k].n = seen[k].n
          BY <5>1
        <5> QED BY <5>2, <5>3, <5>4 DEF Told
      <4>3. CASE ~ \E j \in 1..m : s[j] = k
        <5>1. held'[k] = held[k]
          BY <1>7, <4>3
        <5>2. views'[L + m][k] = views[L][k]
          BY <3>1, <4>3 DEF ViewAt
        <5> QED BY <4>1, <5>1, <5>2 DEF Live
      <4> QED BY <4>2, <4>3
    <3>3. Live(held') = [k \in Key |-> Live(held')[k]]
      BY DEF Live
    <3>4. views'[L + m] = [k \in Key |-> views'[L + m][k]]
      BY <3>1 DEF ViewAt
    <3> QED BY <1>9, <3>2, <3>3, <3>4
  <2> QED BY <2>1, <2>2
<1>16. LogIsWhole'
  BY <1>14, <1>15 DEF LogIsWhole
<1>17. KeepsEnough' /\ MineIsCurrent'
  BY <1>1, <1>7, <1>9 DEF LogConstants, LogInv, LogTypeOK, KeepsEnough, MineIsCurrent, Unlock
<1>18. ASSUME NEW r \in log
       PROVE  Fits(r)'
  <2>1. r.pts \in Nat \ {0} /\ r.pts + 1 \in 1..L
    <3>1. r \in Record /\ Fits(r)
      BY DEF LogInv, LogTypeOK, RecordsFit
    <3> QED BY <1>1, <1>8, <3>1 DEF Record, Fits
  <2>2. views'[r.pts + 1] = views[r.pts + 1] /\ views'[r.pts] = views[r.pts]
    <3>1. r.pts \in 1..L
      BY <1>1, <2>1
    <3>2. \A j \in 1..L : views'[j] = views[j]
      BY <1>9
    <3> HIDE DEF L
    <3> QED BY <2>1, <3>1, <3>2
  <2>3. r.pts + 1 \in DOMAIN views'
    <3>1. r.pts + 1 \in 1..(L + m)
      BY <1>1, <2>1
    <3>2. DOMAIN views' = 1..(L + m)
      BY <1>9
    <3> QED BY <3>1, <3>2
  <2> QED BY <2>2, <2>3 DEF LogInv, RecordsFit, Fits
<1>19. ASSUME NEW i \in 1..m, NEW r, r = row(i)
       PROVE  Fits(r)'
  <2> DEFINE k == s[i]
             before == views'[L - 1 + i]
  <2>1. r.pts = L - 1 + i /\ r.key = k /\ r.v = mine[k].v + 1
        /\ r.n = seen[k].n /\ r.op = IF seen[k].live THEN "set" ELSE "del"
    BY <1>19 DEF RecordOf
  <2>2. views'[L + i] = [j \in Key |-> IF \E h \in 1..i : s[h] = j THEN Told(j)
                                       ELSE views[L][j]]
    BY <1>6, <1>9 DEF ViewAt
  <2>3. before = [j \in Key |-> IF \E h \in 1..(i - 1) : s[h] = j THEN Told(j)
                                ELSE views[L][j]]
    <3>1. CASE i = 1
      <4>1. before = views[L] /\ views[L] \in View
        BY <1>1, <1>8, <1>9, <3>1
      <4> QED BY <3>1, <4>1 DEF View
    <3>2. CASE i # 1
      <4>1. i - 1 \in 1..m /\ L - 1 + i = L + (i - 1)
        BY <1>1, <3>2
      <4>2. before = ViewAt(s, i - 1)
        BY <1>6, <1>9, <4>1
      <4> QED BY <4>2 DEF ViewAt
    <3> QED BY <3>1, <3>2
  <2>4. k \in Key /\ \A h \in 1..(i - 1) : s[h] # k
    BY <1>4, <1>5
  <2>5. before[k] = Live(mine)[k]
    <3>1. Live(mine) = views[L]
      BY <1>7 DEF LogInv, MineIsCurrent, LogConstants
    <3> QED BY <2>3, <2>4, <3>1
  <2>6. mine[k].v \in Nat
    BY <2>4 DEF LogInv, LogTypeOK, Versions
  <2>7. Told(k) = Applied(before[k], r)
    BY <2>1, <2>4, <2>5, <2>6 DEF Applied, Told, Live, Absent
  <2>8. ASSUME NEW j \in Key
        PROVE  views'[L + i][j] = IF j = k THEN Applied(before[k], r) ELSE before[j]
    <3>1. CASE j = k
      BY <2>2, <2>7, <3>1
    <3>2. CASE j # k
      <4>1. (\E h \in 1..i : s[h] = j) <=> (\E h \in 1..(i - 1) : s[h] = j)
        BY <3>2
      <4> QED BY <2>2, <2>3, <3>2, <4>1
    <3> QED BY <3>1, <3>2
  <2>9. views'[L + i] = [before EXCEPT ![k] = Applied(before[k], r)]
    <3>1. views'[L + i] = [j \in Key |-> views'[L + i][j]]
      BY <2>2
    <3>2. before = [j \in Key |-> before[j]]
      BY <2>3
    <3> HIDE DEF before, k
    <3> QED BY <2>8, <3>1, <3>2
  <2>10. (L - 1 + i) + 1 = L + i /\ L + i \in DOMAIN views'
    BY <1>1, <1>9
  <2> QED BY <2>1, <2>9, <2>10 DEF Fits, WithRecord
<1>20. RecordsFit'
  <2>1. ASSUME NEW r \in log'
        PROVE  Fits(r)'
    <3>1. CASE r \in log
      BY <1>18, <3>1
    <3>2. CASE r \notin log
      <4>1. PICK i \in 1..m : r = row(i)
        BY <1>7, <3>2
      <4> QED BY <1>19, <4>1
    <3> QED BY <3>1, <3>2
  <2> QED BY <2>1 DEF RecordsFit
<1> QED BY <1>10, <1>13, <1>16, <1>17, <1>20 DEF LogInv

----------------------------------------------------------------------------
(* Every step keeps what LogInv says of the server.                        *)

\* What workers and clients carry about fits as well.
CarriedFits ==
    /\ \A w \in Worker : \A r \in recs[w] : Fits(r)
    /\ \A c \in Client : \A r \in got[c] : Fits(r)

SyncInv == TypeOK /\ WorkerHasTask /\ LogInv /\ CarriedFits /\ CopyIsTheView

LEMMA FitsOn ==
    ASSUME LogTypeOK, LogTypeOK', Kept, NEW r \in Record, Fits(r)
    PROVE  Fits(r)'
<1>1. r.pts \in Nat \ {0} /\ r.pts + 1 \in 1..Len(views)
  BY DEF LogTypeOK, Record, Fits
<1>2. views'[r.pts + 1] = views[r.pts + 1] /\ views'[r.pts] = views[r.pts]
  BY <1>1 DEF Kept
<1>3. r.pts + 1 \in DOMAIN views'
  BY <1>1 DEF Kept, LogTypeOK
<1> QED BY <1>2, <1>3 DEF Fits

\* The task of a worker that is at work.
LEMMA Working ==
    ASSUME TypeOK, WorkerHasTask, NEW w \in Worker, stage[w] # "idle"
    PROVE  /\ Source(task[w]) \in Sources
           /\ Scope(task[w]) \in SUBSET Key
           /\ InBackground(task[w]) \in SUBSET Task
<1>1. task[w] \in Task \cup {Refresh(c) : c \in Client}
  BY DEF WorkerHasTask
<1>2. CASE task[w] \in Task
  BY <1>2, LogConstants DEF Task, Source, Sources, Scope, InBackground, LogConstants
<1>3. CASE task[w] \in {Refresh(c) : c \in Client}
  BY <1>3, LogConstants DEF Refresh, Source, Sources, Scope, InBackground, LogConstants
<1> QED BY <1>1, <1>2, <1>3

LEMMA LogStep ==
    ASSUME SyncInv, [Next]_vars
    PROVE  LogInv' /\ Kept
<1> USE LogConstants
<1>0. LogInv /\ LogTypeOK /\ TypeOK /\ WorkerHasTask
  BY DEF SyncInv, LogInv
<1>1. ASSUME UNCHANGED <<actual, logVars>>
      PROVE  LogInv' /\ Kept
  BY <1>0, <1>1, OutsideKeeps DEF LogTypeOK
<1>2. ASSUME NEW k \in Key, Change(k)
      PROVE  LogInv' /\ Kept
  <2>1. actual' \in [Key -> Content] /\ UNCHANGED logVars
    BY <1>0, <1>2 DEF Change, LogTypeOK, Content, TypeOK
  <2> QED BY <1>0, <2>1, OutsideKeeps
<1>3. ASSUME NEW t \in todo, DropPoke(t) \/ TooOld(t) \/ TimesOut(t)
      PROVE  LogInv' /\ Kept
  BY <1>1, <1>3 DEF DropPoke, TooOld, TimesOut, world
<1>4. ASSUME NEW w \in Worker, NEW t \in Tasks, Begin(w, t)
      PROVE  LogInv' /\ Kept
  BY <1>0, <1>4, LockKeeps DEF Begin
<1>5. ASSUME NEW w \in Worker, NEW k \in Key, ReadEntity(w, k)
      PROVE  LogInv' /\ Kept
  BY <1>0, <1>5, ReadKeeps DEF ReadEntity
<1>6. ASSUME NEW w \in Worker, Commit(w)
      PROVE  LogInv' /\ Kept
  <2>1. stage[w] # "idle" /\ Project(w, Source(task[w]), Scope(task[w]))
    BY <1>6 DEF Commit
  <2>2. Source(task[w]) \in Sources /\ Scope(task[w]) \in SUBSET Key
    BY <1>0, <2>1, Working
  <2> QED BY <1>0, <2>1, <2>2, ProjectKeeps
<1>7. ASSUME NEW w \in Worker, Send(w)
      PROVE  LogInv' /\ Kept
  BY <1>1, <1>7 DEF Send, world
<1>8. ASSUME NEW w \in Worker, Fail(w)
      PROVE  LogInv' /\ Kept
  BY <1>0, <1>8, AbandonKeeps DEF Fail
<1>9. ASSUME NEW w \in Worker, Crash(w)
      PROVE  LogInv' /\ Kept
  BY <1>0, <1>1, <1>9, AbandonKeeps DEF Crash
<1>10. CASE Trim
  BY <1>0, <1>10, TrimBeginsKeeps, TrimEndsKeeps, TrimAbortsKeeps DEF Trim
<1>11. ASSUME NEW c \in Client, Follows(c) \/ Restart(c)
       PROVE  LogInv' /\ Kept
  BY <1>1, <1>11 DEF Follows, GetUpdates, Apply, Restart, world
<1>12. CASE UNCHANGED vars
  BY <1>1, <1>12 DEF vars, world
<1> QED BY <1>2, <1>3, <1>4, <1>5, <1>6, <1>7, <1>8, <1>9, <1>10, <1>11, <1>12 DEF Next, Works

----------------------------------------------------------------------------
(* What clients hold.                                                      *)

\* A step of the server: no client notices.
LEMMA ServerStep ==
    ASSUME SyncInv, LogInv', Kept, TypeOK', UNCHANGED clientVars,
           \A w \in Worker : recs'[w] \subseteq recs[w] \cup log'
    PROVE  CarriedFits' /\ CopyIsTheView'
<1>1. LogTypeOK /\ LogTypeOK' /\ TypeOK
  BY DEF SyncInv, LogInv
<1>2. ASSUME NEW w \in Worker, NEW r \in recs'[w]
      PROVE  Fits(r)'
  <2>1. CASE r \in log'
    BY <2>1 DEF LogInv, RecordsFit
  <2>2. CASE r \in recs[w]
    <3>1. r \in Record /\ Fits(r)
      BY <1>1, <2>2 DEF TypeOK, SyncInv, CarriedFits
    <3> QED BY <1>1, <3>1, FitsOn
  <2> QED BY <1>2, <2>1, <2>2
<1>3. ASSUME NEW c \in Client, NEW r \in got'[c]
      PROVE  Fits(r)'
  <2>1. r \in got[c]
    BY <1>3 DEF clientVars
  <2>2. r \in Record /\ Fits(r)
    BY <1>1, <2>1 DEF TypeOK, SyncInv, CarriedFits
  <2> QED BY <1>1, <2>2, FitsOn
<1>4. ASSUME NEW c \in Client, pts[c] # -1
      PROVE  pts[c] + 1 \in DOMAIN views' /\ copy[c] = views'[pts[c] + 1]
  <2>1. pts[c] + 1 \in 1..Len(views) /\ copy[c] = views[pts[c] + 1]
    BY <1>1, <1>4 DEF SyncInv, CopyIsTheView, LogTypeOK
  <2> QED BY <1>1, <2>1 DEF Kept, LogTypeOK
<1>5. CopyIsTheView'
  <2>1. \A c \in Client : pts[c] = -1 => copy[c] = NothingKept
    BY DEF SyncInv, CopyIsTheView
  <2> QED BY <1>4, <2>1 DEF CopyIsTheView, clientVars, NothingKept
<1> QED BY <1>2, <1>3, <1>5 DEF CarriedFits

\* A handler that ends leaves what clients hold, but for a snapshot, which is
\* the newest view.
LEMMA EndsKeeps ==
    ASSUME SyncInv, UNCHANGED <<log, floor, held, views>>, NEW w \in Worker,
           NEW received \in [Client -> SUBSET Record],
           \A c \in Client : \A r \in received[c] : Fits(r),
           Ends(w, received)
    PROVE  /\ CarriedFits' /\ CopyIsTheView'
           /\ task' \in [Worker -> Task \cup {Refresh(c) : c \in Client} \cup {NoTask}]
           /\ stage' \in [Worker -> {"idle", "reading", "sending"}]
           /\ WorkerHasTask'
           /\ recs' \in [Worker -> SUBSET Record]
           /\ pts' \in [Client -> Nat \cup {-1}]
           /\ copy' \in [Client -> View]
           /\ got' \in [Client -> SUBSET Record]
<1> DEFINE asks == {c \in Client : task[w] = Refresh(c) /\ pts[c] = -1}
<1>1. LogInv /\ LogTypeOK /\ TypeOK /\ CarriedFits /\ CopyIsTheView /\ WorkerHasTask
  BY DEF SyncInv, LogInv
<1>2. maxPTS = Len(views) - 1 /\ Len(views) \in Nat \ {0}
  BY <1>1, LogConstants, MaxPts, Floors DEF LogInv
<1>3. Live(held) = views[Len(views)] /\ Live(held) \in View
  BY <1>1, LiveIsView DEF LogInv, LogIsWhole, LogTypeOK
<1>4. /\ pts' = [c \in Client |-> IF c \in asks THEN maxPTS ELSE pts[c]]
      /\ copy' = [c \in Client |-> IF c \in asks THEN Live(held) ELSE copy[c]]
      /\ got' = [c \in Client |-> {r \in received[c] : r.pts > pts'[c]}]
      /\ Release(w)
  BY DEF Ends
<1>5. CopyIsTheView'
  <2>1. ASSUME NEW c \in asks
        PROVE  pts'[c] # -1 /\ pts'[c] + 1 \in DOMAIN views /\ copy'[c] = views[pts'[c] + 1]
    BY <1>1, <1>2, <1>3, <1>4 DEF LogTypeOK
  <2>2. ASSUME NEW c \in Client, c \notin asks
        PROVE  pts'[c] = pts[c] /\ copy'[c] = copy[c]
    BY <1>4, <2>2
  <2> QED BY <1>1, <2>1, <2>2 DEF CopyIsTheView, NothingKept
<1>6. /\ task' \in [Worker -> Task \cup {Refresh(c) : c \in Client} \cup {NoTask}]
      /\ stage' \in [Worker -> {"idle", "reading", "sending"}]
      /\ WorkerHasTask'
      /\ recs' \in [Worker -> SUBSET Record]
  BY <1>1, <1>4 DEF Release, Goto, TypeOK, WorkerHasTask, Refresh
<1>7. pts' \in [Client -> Nat \cup {-1}] /\ copy' \in [Client -> View]
  BY <1>1, <1>2, <1>3, <1>4 DEF TypeOK
<1>8. got' \in [Client -> SUBSET Record]
  BY <1>4
<1>9. CarriedFits'
  <2>1. \A x \in Worker : recs'[x] \subseteq recs[x]
    BY <1>1, <1>4 DEF Release, TypeOK
  <2>2. \A c \in Client : got'[c] \subseteq received[c]
    BY <1>4
  <2> QED BY <1>1, <2>1, <2>2 DEF CarriedFits, Fits
<1> QED BY <1>5, <1>6, <1>7, <1>8, <1>9

\* Who hears of a batch has its records besides those it had.
LEMMA HeardFits ==
    ASSUME TypeOK, CarriedFits, NEW R \in SUBSET Record, \A r \in R : Fits(r),
           NEW received \in Heard(R)
    PROVE  /\ received \in [Client -> SUBSET Record]
           /\ \A c \in Client : \A r \in received[c] : Fits(r)
<1>1. PICK hears \in SUBSET Client :
        received = [c \in Client |-> IF c \in hears THEN got[c] \cup R ELSE got[c]]
  BY DEF Heard
<1> QED BY <1>1 DEF TypeOK, CarriedFits

\* Every record a worker sends was appended.
LEMMA BatchFits ==
    ASSUME SyncInv, NEW w \in Worker
    PROVE  Batch(w) \in SUBSET Record /\ \A r \in Batch(w) : Fits(r)
<1>1. recs[w] \in SUBSET Record /\ \A r \in recs[w] : Fits(r)
  BY DEF SyncInv, TypeOK, CarriedFits
<1>2. log \in SUBSET Record /\ \A r \in log : Fits(r)
  BY DEF SyncInv, LogInv, LogTypeOK, RecordsFit
<1>3. Batch(w) \in SUBSET (recs[w] \cup log)
  BY DEF Batch
<1> QED BY <1>1, <1>2, <1>3

\* A client that applies the record after its cursor comes to the next view.
LEMMA ApplyKeeps ==
    ASSUME SyncInv, NEW c \in Client, NEW r \in got[c], Apply(c, r)
    PROVE  /\ CarriedFits' /\ CopyIsTheView'
           /\ pts' \in [Client -> Nat \cup {-1}]
           /\ copy' \in [Client -> View]
           /\ got' \in [Client -> SUBSET Record]
           /\ pts[c] + 1 \in 1..(Len(views) - 1)
           /\ copy'[c] = views[pts[c] + 2]
<1>1. TypeOK /\ LogTypeOK /\ CopyIsTheView /\ CarriedFits
  BY DEF SyncInv, LogInv
<1>2. r \in Record /\ Fits(r)
  BY <1>1 DEF TypeOK, CarriedFits
<1>3. pts[c] \in Nat /\ r.pts = pts[c] + 1
  BY <1>1 DEF Apply, TypeOK
<1>4. pts[c] + 2 \in 1..Len(views) /\ Len(views) \in Nat
  BY <1>1, <1>2, <1>3 DEF Fits, LogTypeOK
<1>5. copy[c] = views[r.pts]
  BY <1>1, <1>3 DEF CopyIsTheView
<1>6. copy'[c] = views[pts[c] + 2] /\ pts'[c] = pts[c] + 1
  <2>1. r.pts + 1 = pts[c] + 2
    BY <1>3
  <2>2. copy'[c] = WithRecord(copy[c], r)
    BY <1>1 DEF Apply, TypeOK
  <2>3. pts'[c] = pts[c] + 1
    BY <1>1, <1>3 DEF Apply, TypeOK
  <2> QED BY <1>2, <1>5, <2>1, <2>2, <2>3 DEF Fits
<1>7. \A d \in Client : d # c => pts'[d] = pts[d] /\ copy'[d] = copy[d]
  BY <1>1 DEF Apply, TypeOK
<1>8. views' = views
  BY DEF Apply, logVars, stored
<1>9. CopyIsTheView'
  <2>1. ASSUME NEW d \in Client
        PROVE  IF pts'[d] = -1 THEN copy'[d] = NothingKept
               ELSE pts'[d] + 1 \in DOMAIN views /\ copy'[d] = views[pts'[d] + 1]
    <3>1. CASE d = c
      BY <1>1, <1>3, <1>4, <1>6, <3>1 DEF LogTypeOK
    <3>2. CASE d # c
      BY <1>1, <1>7, <3>2 DEF CopyIsTheView
    <3> QED BY <3>1, <3>2
  <2> QED BY <1>8, <2>1 DEF CopyIsTheView, NothingKept
<1>10. views[pts[c] + 2] \in View
  BY <1>1, <1>4 DEF LogTypeOK
<1>11. pts' \in [Client -> Nat \cup {-1}] /\ copy' \in [Client -> View]
  <2>1. DOMAIN pts' = Client /\ DOMAIN copy' = Client
        /\ pts' = [d \in Client |-> pts'[d]] /\ copy' = [d \in Client |-> copy'[d]]
    BY <1>1 DEF Apply, TypeOK
  <2>2. \A d \in Client : pts'[d] \in Nat \cup {-1} /\ copy'[d] \in View
    BY <1>1, <1>3, <1>6, <1>7, <1>10 DEF TypeOK
  <2> QED BY <2>1, <2>2
<1>12. got' \in [Client -> SUBSET Record] /\ \A d \in Client : got'[d] \subseteq got[d]
  BY <1>1 DEF Apply, TypeOK
<1>13. CarriedFits'
  BY <1>1, <1>8, <1>12 DEF Apply, serverVars, CarriedFits, Fits
<1>14. pts[c] + 1 \in 1..(Len(views) - 1)
  BY <1>3, <1>4
<1> QED BY <1>6, <1>9, <1>11, <1>12, <1>13, <1>14

\* A client that drops its copy has none.
LEMMA ForgetKeeps ==
    ASSUME SyncInv, NEW c \in Client, Forget(c), UNCHANGED <<views, recs>>,
           got' \in [Client -> SUBSET Record], \A d \in Client : got'[d] \subseteq got[d]
    PROVE  /\ CarriedFits' /\ CopyIsTheView'
           /\ pts' \in [Client -> Nat \cup {-1}]
           /\ copy' \in [Client -> View]
<1>1. TypeOK /\ LogTypeOK /\ CopyIsTheView /\ CarriedFits
  BY DEF SyncInv, LogInv
<1>2. NothingKept \in View
  BY DEF NothingKept, View, Absent
<1>3. pts' \in [Client -> Nat \cup {-1}] /\ copy' \in [Client -> View]
  BY <1>1, <1>2 DEF Forget, TypeOK
<1>4. /\ pts'[c] = -1 /\ copy'[c] = NothingKept
      /\ \A d \in Client : d # c => pts'[d] = pts[d] /\ copy'[d] = copy[d]
  BY <1>1 DEF Forget, TypeOK
<1>5. CopyIsTheView'
  BY <1>1, <1>4 DEF CopyIsTheView, NothingKept
<1>6. CarriedFits'
  BY <1>1 DEF CarriedFits, Fits
<1> QED BY <1>3, <1>5, <1>6

----------------------------------------------------------------------------
(* The invariant.                                                          *)

LEMMA SyncInit == Init => SyncInv
<1> SUFFICES ASSUME Init PROVE SyncInv
  OBVIOUS
<1> USE LogConstants, SyncConstants DEF LogConstants, SyncConstants
<1>1. LogInit
  BY DEF Init
<1>2. views = <<NothingKept>> /\ NothingKept \in View
  BY <1>1 DEF LogInit, NothingKept, View, Absent
<1>3. views \in Seq(View) /\ Len(views) = 1 /\ views[1] = NothingKept
  BY <1>2
<1>4. LogTypeOK
  BY <1>1, <1>2, <1>3, UnlockTypes DEF LogInit, LogTypeOK, Content
<1>5. Numbers = {} /\ Live(held) = NothingKept
  BY <1>1 DEF LogInit, Numbers, Live, NothingKept, NothingHeld, NotHeld, Absent
<1>6. floor..(Len(views) - 1) = {}
  BY <1>1, <1>3 DEF LogInit
<1>7. LogInv
  BY <1>1, <1>3, <1>4, <1>5, <1>6
  DEF LogInv, LogIsWhole, KeepsEnough, MineIsCurrent, RecordsFit, LogInit
<1>8. TypeOK
  BY <1>2, <1>4 DEF Init, TypeOK
<1>9. WorkerHasTask /\ CarriedFits /\ CopyIsTheView
  BY DEF Init, WorkerHasTask, CarriedFits, CopyIsTheView
<1> QED BY <1>7, <1>8, <1>9 DEF SyncInv

LEMMA SyncStep ==
    ASSUME SyncInv, [Next]_vars
    PROVE  SyncInv'
<1> USE LogConstants, SyncConstants DEF SyncConstants
<1>1. TypeOK /\ LogTypeOK /\ CarriedFits /\ WorkerHasTask
  BY DEF SyncInv, LogInv
<1>2. LogInv' /\ Kept /\ LogTypeOK'
  BY LogStep DEF LogInv
<1>3. ASSUME TypeOK', WorkerHasTask', UNCHANGED clientVars,
             \A w \in Worker : recs'[w] \subseteq recs[w] \cup log'
      PROVE  SyncInv'
  BY <1>2, <1>3, ServerStep DEF SyncInv
<1>4. ASSUME NEW k \in Key, Change(k)
      PROVE  SyncInv'
  <2>1. changes' \in 0..MaxChanges /\ changes' \in Nat \ {0}
    BY <1>1, <1>4 DEF Change, TypeOK
  <2>2. PICK way \in Ways : /\ todo' = todo \cup {[how |-> h, n |-> changes'] : h \in way}
                            /\ promised' \subseteq promised \cup {changes'}
    BY <1>4 DEF Change
  <2>3. way \subseteq {"evt", "fan", "poke", "cmd"}
    BY <2>2
  <2>4. todo' \in SUBSET Task /\ promised' \in SUBSET Nat
    BY <1>1, <2>1, <2>2, <2>3 DEF TypeOK, Task
  <2>5. TypeOK' /\ WorkerHasTask' /\ UNCHANGED <<clientVars, recs>>
    BY <1>1, <1>2, <1>4, <2>1, <2>4 DEF Change, clientVars, TypeOK, WorkerHasTask
  <2> QED BY <1>3, <2>5
<1>5. ASSUME NEW t \in todo, DropPoke(t) \/ TooOld(t) \/ TimesOut(t)
      PROVE  SyncInv'
  <2>1. InBackground(t) \in SUBSET Task
    BY <1>1 DEF InBackground, Task, TypeOK
  <2>2. todo' \in SUBSET Task /\ promised' \in SUBSET Nat /\ faults' \in 0..MaxFaults
        /\ UNCHANGED <<world, task, stage, recs, clientVars>>
    <3>1. todo \in SUBSET Task /\ promised \in SUBSET Nat /\ faults \in 0..MaxFaults
      BY <1>1 DEF TypeOK
    <3>2. CASE DropPoke(t)
      BY <3>1, <3>2 DEF DropPoke
    <3>3. CASE TooOld(t)
      <4>1. faults' \in 0..MaxFaults
        BY <3>1, <3>3 DEF TooOld, Fault
      <4>2. promised' \in SUBSET Nat
        BY <3>1, <3>3 DEF TooOld
      <4> QED BY <3>1, <3>3, <4>1, <4>2 DEF TooOld
    <3>4. CASE TimesOut(t)
      BY <2>1, <3>1, <3>4 DEF TimesOut
    <3> QED BY <1>5, <3>2, <3>3, <3>4
  <2>3. TypeOK' /\ WorkerHasTask'
    BY <1>1, <1>2, <2>2 DEF clientVars, world, TypeOK, WorkerHasTask
  <2> QED BY <1>3, <2>2, <2>3
<1>6. ASSUME NEW w \in Worker, NEW t \in Tasks, Begin(w, t)
      PROVE  SyncInv'
  <2>1. t \in Task \cup {Refresh(c) : c \in Client}
    BY <1>1 DEF Tasks, TypeOK
  <2>2. faults' \in 0..MaxFaults
    BY <1>1, <1>6 DEF Begin, Fault, TypeOK
  <2>3. todo' \in SUBSET Task
    BY <1>1, <1>6 DEF Begin, TypeOK
  <2>4. task' \in [Worker -> Task \cup {Refresh(c) : c \in Client} \cup {NoTask}]
        /\ stage' \in [Worker -> {"idle", "reading", "sending"}] /\ WorkerHasTask'
    BY <1>1, <1>6, <2>1 DEF Begin, Goto, TypeOK, WorkerHasTask, Refresh
  <2>5. UNCHANGED <<changes, promised, recs, clientVars>>
    BY <1>6 DEF Begin
  <2>6. TypeOK'
    BY <1>1, <1>2, <2>2, <2>3, <2>4, <2>5 DEF TypeOK, clientVars
  <2> QED BY <1>3, <2>4, <2>5, <2>6
<1>7. ASSUME NEW w \in Worker, NEW k \in Key, ReadEntity(w, k)
      PROVE  SyncInv'
  <2>1. UNCHANGED <<changes, serverVars, clientVars, faults>>
    BY <1>7 DEF ReadEntity
  <2>2. TypeOK' /\ WorkerHasTask'
    BY <1>1, <1>2, <2>1 DEF serverVars, clientVars, TypeOK, WorkerHasTask
  <2> QED BY <1>3, <2>1, <2>2 DEF serverVars
<1>8. ASSUME NEW w \in Worker, Commit(w)
      PROVE  SyncInv'
  <2>1. recs' = [recs EXCEPT ![w] = log' \ log] /\ stage' = [stage EXCEPT ![w] = "sending"]
        /\ stage[w] = "reading" /\ UNCHANGED <<changes, todo, promised, task, clientVars, faults>>
    BY <1>8 DEF Commit, Goto
  <2>2. recs' \in [Worker -> SUBSET Record]
    BY <1>1, <1>2, <2>1 DEF TypeOK, LogTypeOK
  <2>3. stage' \in [Worker -> {"idle", "reading", "sending"}] /\ WorkerHasTask'
    BY <1>1, <2>1 DEF TypeOK, WorkerHasTask, Refresh
  <2>4. TypeOK'
    BY <1>1, <1>2, <2>1, <2>2, <2>3 DEF TypeOK, clientVars
  <2>5. \A x \in Worker : recs'[x] \subseteq recs[x] \cup log'
    BY <1>1, <2>1 DEF TypeOK
  <2> QED BY <1>3, <2>1, <2>3, <2>4, <2>5
<1>9. ASSUME NEW w \in Worker, Crash(w)
      PROVE  SyncInv'
  <2>1. faults' \in 0..MaxFaults /\ UNCHANGED <<changes, todo, promised, clientVars>>
    BY <1>1, <1>9 DEF Crash, Fault, TypeOK
  <2>2. /\ task' \in [Worker -> Task \cup {Refresh(c) : c \in Client} \cup {NoTask}]
        /\ stage' \in [Worker -> {"idle", "reading", "sending"}]
        /\ recs' \in [Worker -> SUBSET Record]
        /\ WorkerHasTask'
        /\ \A x \in Worker : recs'[x] \subseteq recs[x] \cup log'
    BY <1>1, <1>9 DEF Crash, Release, Goto, TypeOK, WorkerHasTask, Refresh
  <2>3. TypeOK'
    BY <1>1, <1>2, <2>1, <2>2 DEF TypeOK, clientVars
  <2> QED BY <1>3, <2>1, <2>2, <2>3
<1>10. CASE Trim
  <2>1. UNCHANGED <<changes, serverVars, clientVars, faults>>
    BY <1>10 DEF Trim
  <2>2. TypeOK' /\ WorkerHasTask'
    BY <1>1, <1>2, <2>1 DEF serverVars, clientVars, TypeOK, WorkerHasTask
  <2> QED BY <1>3, <2>1, <2>2 DEF serverVars
<1>11. ASSUME NEW w \in Worker, Send(w)
       PROVE  SyncInv'
  <2>1. PICK received \in Heard(Batch(w)) : Ends(w, received)
    BY <1>11 DEF Send
  <2>2. /\ received \in [Client -> SUBSET Record]
        /\ \A c \in Client : \A r \in received[c] : Fits(r)
    BY <1>1, <2>1, BatchFits, HeardFits
  <2>3. UNCHANGED <<log, floor, held, views>> /\ UNCHANGED <<changes, promised, faults>>
        /\ todo' \in SUBSET Task
    BY <1>1, <1>11 DEF Send, world, logVars, stored, TypeOK
  <2>4. /\ CarriedFits' /\ CopyIsTheView'
        /\ task' \in [Worker -> Task \cup {Refresh(c) : c \in Client} \cup {NoTask}]
        /\ stage' \in [Worker -> {"idle", "reading", "sending"}]
        /\ WorkerHasTask'
        /\ recs' \in [Worker -> SUBSET Record]
        /\ pts' \in [Client -> Nat \cup {-1}]
        /\ copy' \in [Client -> View]
        /\ got' \in [Client -> SUBSET Record]
    BY <2>1, <2>2, <2>3, EndsKeeps
  <2>5. TypeOK'
    BY <1>1, <1>2, <2>3, <2>4 DEF TypeOK
  <2> QED BY <1>2, <2>4, <2>5 DEF SyncInv
<1>12. ASSUME NEW w \in Worker, Fail(w)
       PROVE  SyncInv'
  <2>1. Ends(w, got) /\ stage[w] = "reading"
    BY <1>12 DEF Fail
  <2>2. /\ got \in [Client -> SUBSET Record]
        /\ \A c \in Client : \A r \in got[c] : Fits(r)
    BY <1>1 DEF TypeOK, CarriedFits
  <2>3. UNCHANGED <<log, floor, held, views>> /\ UNCHANGED <<changes, promised>>
    BY <1>12 DEF Fail, Abandon, stored
  <2>4. todo' \in SUBSET Task /\ faults' \in 0..MaxFaults
    BY <1>1, <1>12, <2>1, Working DEF Fail, Fault, TypeOK
  <2>5. /\ CarriedFits' /\ CopyIsTheView'
        /\ task' \in [Worker -> Task \cup {Refresh(c) : c \in Client} \cup {NoTask}]
        /\ stage' \in [Worker -> {"idle", "reading", "sending"}]
        /\ WorkerHasTask'
        /\ recs' \in [Worker -> SUBSET Record]
        /\ pts' \in [Client -> Nat \cup {-1}]
        /\ copy' \in [Client -> View]
        /\ got' \in [Client -> SUBSET Record]
    BY <2>1, <2>2, <2>3, EndsKeeps
  <2>6. TypeOK'
    BY <1>1, <1>2, <2>3, <2>4, <2>5 DEF TypeOK
  <2> QED BY <1>2, <2>5, <2>6 DEF SyncInv
<1>13. ASSUME UNCHANGED <<world, logVars, serverVars>>, faults' \in 0..MaxFaults,
              CarriedFits', CopyIsTheView',
              pts' \in [Client -> Nat \cup {-1}], copy' \in [Client -> View],
              got' \in [Client -> SUBSET Record]
       PROVE  SyncInv'
  <2>1. TypeOK' /\ WorkerHasTask'
    BY <1>1, <1>2, <1>13 DEF world, serverVars, TypeOK, WorkerHasTask
  <2> QED BY <1>2, <1>13, <2>1 DEF SyncInv
<1>14. ASSUME NEW c \in Client, NEW r \in got[c], Apply(c, r)
       PROVE  SyncInv'
  <2>1. UNCHANGED <<world, logVars, serverVars>> /\ faults' \in 0..MaxFaults
    BY <1>1, <1>14 DEF Apply, TypeOK
  <2> QED BY <1>13, <1>14, <2>1, ApplyKeeps
<1>15. ASSUME NEW c \in Client, GetUpdates(c)
       PROVE  SyncInv'
  <2>1. UNCHANGED <<world, logVars, serverVars>> /\ faults' \in 0..MaxFaults
    BY <1>1, <1>15 DEF GetUpdates, TypeOK
  <2>2. UNCHANGED <<views, recs>>
    BY <2>1 DEF logVars, stored, serverVars
  <2>3. CASE MustReset(c)
    <3>1. Forget(c) /\ got' = got
      BY <1>15, <2>3 DEF GetUpdates
    <3> QED BY <1>1, <1>13, <2>1, <2>2, <3>1, ForgetKeeps DEF TypeOK
  <2>4. CASE ~MustReset(c)
    <3>1. got' = [got EXCEPT ![c] = @ \cup Limited(After(c))] /\ UNCHANGED <<pts, copy>>
      BY <1>15, <2>4 DEF GetUpdates
    <3>2. Limited(After(c)) \in SUBSET log
      BY DEF Limited, After
    <3>3. got' \in [Client -> SUBSET Record]
      BY <1>1, <3>1, <3>2 DEF TypeOK, LogTypeOK
    <3>4. \A d \in Client : got'[d] \subseteq got[d] \cup log
      BY <1>1, <3>1, <3>2 DEF TypeOK
    <3>5. \A r \in log : Fits(r)
      BY DEF SyncInv, LogInv, RecordsFit
    <3>6. CarriedFits'
      BY <1>1, <2>2, <3>4, <3>5 DEF CarriedFits, Fits
    <3>7. CopyIsTheView'
      BY <2>2, <3>1 DEF SyncInv, CopyIsTheView, NothingKept
    <3> QED BY <1>1, <1>13, <2>1, <3>1, <3>3, <3>6, <3>7 DEF TypeOK
  <2> QED BY <2>3, <2>4
<1>16. ASSUME NEW c \in Client, Restart(c)
       PROVE  SyncInv'
  <2>1. UNCHANGED <<world, logVars, serverVars>> /\ faults' \in 0..MaxFaults /\ Forget(c)
    BY <1>1, <1>16 DEF Restart, Fault, TypeOK
  <2>2. UNCHANGED <<views, recs>>
    BY <2>1 DEF logVars, stored, serverVars
  <2>3. got' \in [Client -> SUBSET Record] /\ \A d \in Client : got'[d] \subseteq got[d]
    BY <1>1, <1>16 DEF Restart, TypeOK
  <2> QED BY <1>13, <2>1, <2>2, <2>3, ForgetKeeps
<1>17. CASE UNCHANGED vars
  <2>1. TypeOK' /\ WorkerHasTask' /\ UNCHANGED <<recs, clientVars>>
    BY <1>1, <1>2, <1>17 DEF vars, world, serverVars, clientVars, TypeOK, WorkerHasTask
  <2> QED BY <1>3, <2>1
<1> QED BY <1>4, <1>5, <1>6, <1>7, <1>8, <1>9, <1>10, <1>11, <1>12, <1>14, <1>15, <1>16, <1>17
    DEF Next, Works, Follows

\* Every reachable state satisfies the invariant (client.go Apply, Project,
\* Trim, Snapshot and Updates together).
THEOREM SyncInvariant == Spec => []SyncInv
<1>1. SyncInv /\ [Next]_vars => SyncInv'
  BY SyncStep
<1> QED BY <1>1, SyncInit, PTL DEF Spec

----------------------------------------------------------------------------
(* What follows.                                                           *)

\* Every variable has its type.
THEOREM TypeCorrectness == Spec => []TypeOK
<1>1. SyncInv => TypeOK
  BY DEF SyncInv
<1> QED BY <1>1, SyncInvariant, PTL

\* A client's copy is always what the server had told as of its cursor.
THEOREM CopyIsAlwaysTheView == Spec => []CopyIsTheView
<1>1. SyncInv => CopyIsTheView
  BY DEF SyncInv
<1> QED BY <1>1, SyncInvariant, PTL

\* The log is whole above its floor and its fold is the held versions.
THEOREM LogIsAlwaysWhole == Spec => []LogIsWhole
<1>1. SyncInv => LogIsWhole
  BY DEF SyncInv, LogInv
<1> QED BY <1>1, SyncInvariant, PTL

\* A client within the threshold is never told to reset: what it lacks is
\* among the records the trim keeps, since the threshold is at most KeepLast.
THEOREM NeverResetWithinThreshold == Spec => []ResetOnlyBehind
<1>1. ASSUME SyncInv, NEW c \in Client, pts[c] # -1, MustReset(c)
      PROVE  Behind(c) > ResetThreshold
  <2> USE LogConstants, SyncConstants DEF LogConstants, SyncConstants
  <2>1. LogInv /\ LogTypeOK /\ CopyIsTheView /\ TypeOK /\ KeepsEnough
    BY <1>1 DEF SyncInv, LogInv
  <2>2. maxPTS = Len(views) - 1 /\ Len(views) \in Nat \ {0} /\ floor \in 1..Len(views)
    BY <2>1, MaxPts, Floors DEF LogInv
  <2>3. pts[c] \in 0..(Len(views) - 1)
    BY <1>1, <2>1, <2>2 DEF CopyIsTheView, TypeOK, LogTypeOK
  <2>4. CASE pts[c] < floor - 1
    <3>1. floor <= Len(views) - KeepLast
      BY <2>1, <2>2, <2>3, <2>4 DEF KeepsEnough
    <3> QED BY <2>2, <2>3, <2>4, <3>1 DEF Behind
  <2>5. CASE pts[c] >= floor - 1 /\ After(c) # {}
    <3>1. PICK r \in log : r.pts > pts[c]
      BY <2>5 DEF After
    <3>2. r.pts \in floor..(Len(views) - 1)
      BY <2>1 DEF LogInv, LogIsWhole, Numbers
    <3>3. pts[c] + 1 \in floor..(Len(views) - 1)
      BY <2>2, <2>3, <2>5, <3>1, <3>2
    <3>4. pts[c] + 1 \in Numbers
      BY <2>1, <3>3 DEF LogInv, LogIsWhole
    <3>5. PICK q \in log : q.pts = pts[c] + 1
      BY <3>4 DEF Numbers
    <3>6. q \in After(c)
      BY <2>3, <3>5 DEF After
    <3>7. Behind(c) > ResetThreshold
      BY <1>1, <2>2, <2>3, <2>5, <3>5, <3>6 DEF MustReset
    <3> QED BY <3>7
  <2>6. CASE pts[c] >= floor - 1 /\ After(c) = {}
    BY <1>1, <2>2, <2>3, <2>6 DEF MustReset
  <2> QED BY <2>2, <2>3, <2>4, <2>5, <2>6
<1>2. SyncInv => ResetOnlyBehind
  BY <1>1 DEF ResetOnlyBehind
<1> QED BY <1>2, SyncInvariant, PTL

----------------------------------------------------------------------------
(* Clients follow the views one by one.                                    *)

LEMMA EndsFollows ==
    ASSUME SyncInv, NEW w \in Worker, NEW received, Ends(w, received), UNCHANGED views
    PROVE  [Followed!Next]_(Followed!vars)
<1> DEFINE asks == {c \in Client : task[w] = Refresh(c) /\ pts[c] = -1}
           at == [c \in Client |-> pts[c] + 1]
<1>1. /\ pts' = [c \in Client |-> IF c \in asks THEN maxPTS ELSE pts[c]]
      /\ copy' = [c \in Client |-> IF c \in asks THEN Live(held) ELSE copy[c]]
  BY DEF Ends
<1>2. TypeOK /\ LogInv /\ LogTypeOK
  BY DEF SyncInv, LogInv
<1>3. maxPTS = Len(views) - 1 /\ Live(held) = views[Len(views)] /\ Len(views) \in Nat
  BY <1>2, LogConstants, MaxPts, Floors DEF LogInv, LogIsWhole
<1>4. CASE asks = {}
  <2>1. pts' = pts /\ copy' = copy
    BY <1>1, <1>2, <1>4 DEF TypeOK
  <2> QED BY <2>1 DEF Followed!vars
<1>5. ASSUME NEW c \in asks
      PROVE  Followed!Start(c)
  <2>1. asks = {c}
    BY <1>5 DEF Refresh
  <2>2. at[c] = 0
    BY <1>5
  <2>3. at' = [at EXCEPT ![c] = Len(views)]
    <3>1. \A d \in Client : pts'[d] + 1 = IF d = c THEN Len(views) ELSE pts[d] + 1
      BY <1>1, <1>3, <2>1
    <3> QED BY <3>1
  <2>4. copy' = [copy EXCEPT ![c] = views[Len(views)]]
    BY <1>1, <1>2, <1>3, <2>1 DEF TypeOK
  <2> QED BY <2>2, <2>3, <2>4 DEF Followed!Start, Followed!Shows
<1> QED BY <1>4, <1>5 DEF Followed!Next

LEMMA ForgetFollows ==
    ASSUME TypeOK, NEW c \in Client, Forget(c), UNCHANGED views
    PROVE  Followed!Lose(c)
<1>1. [d \in Client |-> pts'[d] + 1] = [[d \in Client |-> pts[d] + 1] EXCEPT ![c] = 0]
  <2>1. \A d \in Client : pts'[d] + 1 = IF d = c THEN 0 ELSE pts[d] + 1
    BY DEF Forget, TypeOK
  <2> QED BY <2>1
<1> QED BY <1>1 DEF Forget, Followed!Lose

LEMMA FollowsStep ==
    ASSUME SyncInv, [Next]_vars
    PROVE  [Followed!Next]_(Followed!vars)
<1>1. TypeOK /\ Kept /\ LogTypeOK
  BY LogStep DEF SyncInv, LogInv
<1>2. ASSUME UNCHANGED clientVars
      PROVE  [Followed!Next]_(Followed!vars)
  <2>1. Followed!Tell
    BY <1>1, <1>2 DEF Kept, clientVars, Followed!Tell
  <2> QED BY <2>1 DEF Followed!Next
<1>3. ASSUME NEW k \in Key, Change(k)
      PROVE  UNCHANGED clientVars
  BY <1>3 DEF Change
<1>4. ASSUME NEW t \in todo, DropPoke(t) \/ TooOld(t) \/ TimesOut(t)
      PROVE  UNCHANGED clientVars
  BY <1>4 DEF DropPoke, TooOld, TimesOut
<1>5. ASSUME NEW w \in Worker, NEW t \in Tasks, Begin(w, t)
      PROVE  UNCHANGED clientVars
  BY <1>5 DEF Begin
<1>6. ASSUME NEW w \in Worker,
             Commit(w) \/ Crash(w) \/ \E k \in Key : ReadEntity(w, k)
      PROVE  UNCHANGED clientVars
  BY <1>6 DEF Commit, Crash, ReadEntity
<1>7. ASSUME Trim
      PROVE  UNCHANGED clientVars
  BY <1>7 DEF Trim
<1>8. ASSUME NEW w \in Worker, Send(w)
      PROVE  [Followed!Next]_(Followed!vars)
  BY <1>8, EndsFollows DEF Send, logVars, stored
<1>9. ASSUME NEW w \in Worker, Fail(w)
      PROVE  [Followed!Next]_(Followed!vars)
  BY <1>9, EndsFollows DEF Fail, Abandon, stored
<1>10. ASSUME NEW c \in Client, GetUpdates(c)
       PROVE  [Followed!Next]_(Followed!vars)
  <2>1. UNCHANGED views
    BY <1>10 DEF GetUpdates, logVars, stored
  <2>2. CASE Forget(c)
    BY <1>1, <2>1, <2>2, ForgetFollows DEF Followed!Next
  <2>3. CASE UNCHANGED <<pts, copy>>
    BY <2>1, <2>3 DEF Followed!vars
  <2> QED BY <1>10, <2>2, <2>3 DEF GetUpdates
<1>11. ASSUME NEW c \in Client, NEW r \in got[c], Apply(c, r)
       PROVE  Followed!Follow(c)
  <2> DEFINE at == [d \in Client |-> pts[d] + 1]
  <2>1. pts[c] + 1 \in 1..(Len(views) - 1) /\ copy'[c] = views[pts[c] + 2]
    BY <1>11, ApplyKeeps
  <2>2. pts' = [pts EXCEPT ![c] = pts[c] + 1] /\ UNCHANGED views
    BY <1>11 DEF Apply, logVars, stored
  <2>3. at' = [at EXCEPT ![c] = at[c] + 1] /\ at[c] = pts[c] + 1
    BY <1>1, <2>1, <2>2 DEF TypeOK
  <2>4. copy' = [copy EXCEPT ![c] = copy'[c]]
    BY <1>1, <1>11 DEF Apply, TypeOK
  <2>5. (pts[c] + 1) + 1 = pts[c] + 2
    BY <1>1 DEF TypeOK
  <2> QED BY <2>1, <2>2, <2>3, <2>4, <2>5 DEF Followed!Follow, Followed!Shows
<1>12. ASSUME NEW c \in Client, Restart(c)
       PROVE  Followed!Lose(c)
  BY <1>1, <1>12, ForgetFollows DEF Restart, logVars, stored
<1>13. CASE UNCHANGED vars
  BY <1>2, <1>13 DEF vars
<1> QED BY <1>2, <1>3, <1>4, <1>5, <1>6, <1>7, <1>8, <1>9, <1>10, <1>11, <1>12, <1>13
    DEF Next, Works, Follows, Followed!Next

\* State sync implements its promise: no client skips or repeats a told state.
THEOREM FollowsTheLogAlways == Spec => FollowsTheLog
<1>1. Init => Followed!Init
  <2> SUFFICES ASSUME Init PROVE Followed!Init
    OBVIOUS
  <2>1. views = <<NothingKept>>
    BY DEF Init, LogInit, NothingKept
  <2> QED BY <2>1 DEF Init, Followed!Init
<1>2. SyncInv /\ [Next]_vars => [Followed!Next]_(Followed!vars)
  BY FollowsStep
<1> QED BY <1>1, <1>2, SyncInvariant, PTL DEF Spec, FollowsTheLog, Followed!Spec

----------------------------------------------------------------------------
(* A later record tells a later state.                                     *)

\* x is a state the entity came to after the one told as (n, gone), or it is
\* that state.
Later(x, n, gone) == n <= x.n /\ (n = x.n => (gone <=> ~x.live))

\* All that was told of k, by the records kept and the version held, was
\* told of x or of a state before it; what is held is the last that was told.
\* A version that is no longer held was a tombstone: no record sets x itself.
ToldUpTo(h, k, x) ==
    /\ h.v > 0 => Later(x, h.n, h.deleted)
    /\ \A r \in log : r.key = k =>
         /\ Later(x, r.n, r.op = "del")
         /\ h.v > 0 => r.n <= h.n /\ (r.n = h.n => (r.op = "del" <=> h.deleted))
         /\ h.v = 0 /\ r.op = "set" => r.n < x.n

\* The order in which states are told, between a read and its commit too.
OrderInv ==
    /\ NeverBackwards
    /\ \A k \in Key : actual[k].n <= changes /\ ToldUpTo(held[k], k, actual[k])
    /\ holder # NoWorker =>
         \A k \in Key :
           /\ ToldUpTo(mine[k], k, actual[k])
           /\ seen[k] # Unseen =>
                /\ ToldUpTo(mine[k], k, seen[k])
                /\ Later(actual[k], seen[k].n, ~seen[k].live)

\* A smaller log was told no more.
LEMMA ToldLess ==
    ASSUME log' \subseteq log, NEW h, NEW k, NEW x, ToldUpTo(h, k, x)
    PROVE  ToldUpTo(h, k, x)'
BY DEF ToldUpTo

\* A record is of the state read, which is after all that was told of its
\* entity: otherwise Plan would find no difference.
LEMMA PlannedIsLater ==
    ASSUME LogTypeOK, NEW k \in Key, seen[k] # Unseen, ToldUpTo(mine[k], k, seen[k]),
           IsSet(k) \/ IsDel(k), NEW r \in log, r.key = k
    PROVE  r.n < seen[k].n
<1>1. /\ seen[k].n \in Nat /\ seen[k].live \in BOOLEAN
      /\ mine[k].v \in Nat /\ mine[k].n \in Nat /\ mine[k].deleted \in BOOLEAN
      /\ r.n \in Nat /\ r.op \in {"set", "del"}
  BY DEF LogTypeOK, Content, Versions, Record
<1>2. r.n <= seen[k].n /\ (r.n = seen[k].n => (r.op = "del" <=> ~seen[k].live))
  BY DEF ToldUpTo, Later
<1>3. CASE mine[k].v = 0
  <2>1. seen[k].live
    BY <1>1, <1>3 DEF IsSet, IsDel
  <2>2. r.op = "set" => r.n < seen[k].n
    BY <1>3 DEF ToldUpTo
  <2> QED BY <1>1, <1>2, <2>1, <2>2
<1>4. CASE mine[k].v > 0
  <2>1. /\ mine[k].n <= seen[k].n
        /\ mine[k].n = seen[k].n => (mine[k].deleted <=> ~seen[k].live)
        /\ r.n <= mine[k].n
    BY <1>4 DEF ToldUpTo, Later
  <2>2. mine[k].n # seen[k].n
    BY <1>1, <1>4, <2>1 DEF IsSet, IsDel
  <2> QED BY <1>1, <2>1, <2>2
<1> QED BY <1>1, <1>3, <1>4

\* What a commit appends is later than what was appended, and is held.
LEMMA ProjectOrders ==
    ASSUME LogConstants, LogInv, LogTypeOK', OrderInv, NEW w \in Worker,
           NEW scope \in SUBSET Key, NEW source \in Sources, Project(w, source, scope),
           changes' = changes
    PROVE  OrderInv'
<1> DEFINE L == Len(views)
           row(k, i) == RecordOf(k, L - 1 + i, source)
<1>1. L \in Nat \ {0} /\ floor \in 1..L /\ maxPTS = L - 1 /\ LogTypeOK
  BY Floors, MaxPts DEF LogInv
<1>2. PICK s \in InOrder(Plan(scope) \ Appended(source)) : AppendAll(w, source, s)
  BY DEF Project
<1>3. Plan(scope) \ Appended(source) \in SUBSET Key
      /\ \A k \in Plan(scope) : seen[k] # Unseen /\ (IsSet(k) \/ IsDel(k))
  BY DEF Plan, Project
<1>4. PICK m \in Nat : /\ s \in [1..m -> Plan(scope) \ Appended(source)]
                       /\ \A i, j \in 1..m : i # j => s[i] # s[j]
  BY <1>2, <1>3, Ordered
<1>5. \A i \in 1..m : s[i] \in Key /\ seen[s[i]] # Unseen /\ (IsSet(s[i]) \/ IsDel(s[i]))
  BY <1>3, <1>4
<1>6. DOMAIN s = 1..m
  BY <1>4
<1>7. /\ log' = log \cup {row(s[i], i) : i \in 1..m}
      /\ held' = [k \in Key |->
           IF \E i \in 1..m : s[i] = k
           THEN [v |-> mine[k].v + 1, n |-> seen[k].n, deleted |-> ~seen[k].live]
           ELSE held[k]]
      /\ holder = w /\ holder' = NoWorker /\ actual' = actual
  BY <1>1, <1>2, <1>6 DEF AppendAll, Rows, Unlock
<1>8. holder # NoWorker
  BY <1>7 DEF LogConstants
\* A new record tells the state read of its entity.
<1>9. ASSUME NEW r \in log', r \notin log
      PROVE  \E i \in 1..m : r.key = s[i] /\ r.pts = L - 1 + i /\ r.n = seen[s[i]].n
                              /\ (r.op = "del" <=> ~seen[s[i]].live)
  <2>1. PICK i \in 1..m : r = row(s[i], i)
    BY <1>7, <1>9
  <2> QED BY <2>1 DEF RecordOf
<1>10. \A i \in 1..m : ToldUpTo(mine[s[i]], s[i], seen[s[i]])
                        /\ Later(actual[s[i]], seen[s[i]].n, ~seen[s[i]].live)
  BY <1>5, <1>8 DEF OrderInv
<1>11. ASSUME NEW i \in 1..m, NEW r \in log, r.key = s[i]
       PROVE  r.n < seen[s[i]].n
  BY <1>1, <1>5, <1>10, <1>11, PlannedIsLater
<1>12. NeverBackwards'
  <2> SUFFICES ASSUME NEW q \in log', NEW r \in log', q.key = r.key, q.pts < r.pts
               PROVE  q.n < r.n
    BY DEF NeverBackwards
  <2>1. CASE q \in log /\ r \in log
    BY <2>1 DEF OrderInv, NeverBackwards
  <2>2. CASE q \in log /\ r \notin log
    BY <1>9, <1>11, <2>2
  <2>3. CASE q \notin log /\ r \in log
    <3>1. r.pts \in floor..(L - 1)
      BY <2>3 DEF LogInv, LogIsWhole, Numbers
    <3>2. PICK i \in 1..m : q.pts = L - 1 + i
      BY <1>9, <2>3
    <3> QED BY <1>1, <3>1, <3>2
  <2>4. CASE q \notin log /\ r \notin log
    <3>1. PICK i \in 1..m : q.key = s[i] /\ q.pts = L - 1 + i
      BY <1>9, <2>4
    <3>2. PICK j \in 1..m : r.key = s[j] /\ r.pts = L - 1 + j
      BY <1>9, <2>4
    <3>3. i = j
      BY <1>4, <3>1, <3>2
    <3> QED BY <1>1, <3>1, <3>2, <3>3
  <2> QED BY <2>1, <2>2, <2>3, <2>4
<1>13. ASSUME NEW k \in Key
       PROVE  actual'[k].n <= changes' /\ ToldUpTo(held[k], k, actual[k])'
  <2>1. actual[k].n <= changes /\ ToldUpTo(held[k], k, actual[k])
    BY DEF OrderInv
  <2>2. CASE ~ \E i \in 1..m : s[i] = k
    <3>1. held'[k] = held[k]
      BY <1>7, <2>2
    <3>2. \A r \in log' : r.key = k => r \in log
      BY <1>9, <2>2
    <3> QED BY <1>7, <2>1, <3>1, <3>2 DEF ToldUpTo
  <2>3. ASSUME NEW i \in 1..m, s[i] = k
        PROVE  ToldUpTo(held[k], k, actual[k])'
    <3>1. held'[k].v = mine[k].v + 1 /\ held'[k].n = seen[k].n
          /\ (held'[k].deleted <=> ~seen[k].live)
      BY <1>7, <2>3
    <3>2. mine[k].v \in Nat /\ seen[k].n \in Nat /\ actual[k].n \in Nat /\ seen[k] \in Content
      BY <1>1, <1>5, <2>3 DEF LogTypeOK, Versions, Content
    <3>3. Later(actual[k], seen[k].n, ~seen[k].live)
      BY <1>10, <2>3
    <3>4. ASSUME NEW r \in log', r.key = k
          PROVE  /\ Later(actual[k], r.n, r.op = "del")
                 /\ r.n <= seen[k].n
                 /\ r.n = seen[k].n => (r.op = "del" <=> ~seen[k].live)
      <4>1. CASE r \in log
        <5>1. r.n < seen[k].n /\ r.n \in Nat
          BY <1>1, <1>11, <2>3, <3>4, <4>1 DEF LogTypeOK, Record
        <5>2. Later(actual[k], r.n, r.op = "del")
          BY <2>1, <3>4, <4>1 DEF ToldUpTo
        <5> QED BY <3>2, <5>1, <5>2
      <4>2. CASE r \notin log
        <5>1. PICK j \in 1..m : r.key = s[j] /\ r.n = seen[s[j]].n
                                /\ (r.op = "del" <=> ~seen[s[j]].live)
          BY <1>9, <4>2
        <5>2. s[j] = k
          BY <3>4, <5>1
        <5> QED BY <3>2, <3>3, <5>1, <5>2 DEF Later
      <4> QED BY <4>1, <4>2
    <3>5. held'[k].v > 0 /\ held'[k].v # 0
      BY <3>1, <3>2
    <3>6. Later(actual[k], held'[k].n, held'[k].deleted)
      BY <3>1, <3>3 DEF Later
    <3> QED BY <1>7, <3>1, <3>4, <3>5, <3>6 DEF ToldUpTo
  <2> QED BY <1>7, <2>1, <2>2, <2>3
<1>14. holder' = NoWorker
  BY <1>7
<1> QED BY <1>12, <1>13, <1>14 DEF OrderInv

\* While nothing is told and nothing is read, no order changes.
LEMMA OrderStays ==
    ASSUME OrderInv, log' \subseteq log, UNCHANGED <<held, actual, changes>>,
           holder' = NoWorker \/ UNCHANGED <<holder, mine, seen>>
    PROVE  OrderInv'
<1>1. NeverBackwards'
  BY DEF OrderInv, NeverBackwards
<1>2. \A k \in Key : actual'[k].n <= changes' /\ ToldUpTo(held[k], k, actual[k])'
  BY DEF OrderInv, ToldUpTo
<1>3. CASE holder' = NoWorker
  BY <1>1, <1>2, <1>3 DEF OrderInv
<1>4. CASE UNCHANGED <<holder, mine, seen>>
  <2>1. ASSUME holder' # NoWorker, NEW k \in Key
        PROVE  /\ ToldUpTo(mine[k], k, actual[k])'
               /\ seen'[k] # Unseen =>
                    /\ ToldUpTo(mine[k], k, seen[k])'
                    /\ Later(actual[k], seen[k].n, ~seen[k].live)'
    BY <1>4, <2>1 DEF OrderInv, ToldUpTo, Later
  <2> QED BY <1>1, <1>2, <2>1 DEF OrderInv
<1> QED BY <1>3, <1>4

\* The trim forgets tombstones only: what it leaves set was before them.
LEMMA TrimEndsOrders ==
    ASSUME LogTypeOK, OrderInv, TrimEnds, changes' = changes
    PROVE  OrderInv'
<1>1. log' \subseteq log /\ UNCHANGED <<holder, mine, seen, actual>>
  BY DEF TrimEnds, reading
<1>2. CASE UNCHANGED held
  BY <1>1, <1>2, OrderStays
<1>3. CASE held' # held
  <2>1. PICK old \in SUBSET {k \in Key : held[k].deleted} :
          held' = [k \in Key |-> IF k \in old THEN NotHeld ELSE held[k]]
    BY <1>3 DEF TrimEnds
  <2>2. ASSUME NEW k \in Key
        PROVE  actual'[k].n <= changes' /\ ToldUpTo(held[k], k, actual[k])'
    <3>1. actual[k].n <= changes /\ ToldUpTo(held[k], k, actual[k])
      BY DEF OrderInv
    <3>2. CASE k \notin old
      BY <1>1, <2>1, <3>1, <3>2 DEF ToldUpTo
    <3>3. CASE k \in old
      <4>1. held[k].deleted /\ held'[k].v = 0
        BY <2>1, <3>3 DEF NotHeld
      <4>2. ASSUME NEW r \in log, r.key = k
            PROVE  Later(actual[k], r.n, r.op = "del") /\ (r.op = "set" => r.n < actual[k].n)
        <5>1. held[k].v \in Nat /\ held[k].n \in Nat /\ actual[k].n \in Nat /\ r.n \in Nat
          BY DEF LogTypeOK, Versions, Content, Record
        <5>2. Later(actual[k], r.n, r.op = "del")
          BY <3>1, <4>2 DEF ToldUpTo
        <5>3. CASE held[k].v = 0
          BY <3>1, <4>2, <5>2, <5>3 DEF ToldUpTo
        <5>4. CASE held[k].v > 0
          <6>1. r.n <= held[k].n /\ (r.n = held[k].n => r.op = "del") /\ held[k].n <= actual[k].n
            BY <3>1, <4>1, <4>2, <5>4 DEF ToldUpTo, Later
          <6> QED BY <5>1, <5>2, <6>1
        <5> QED BY <5>1, <5>3, <5>4
      <4> QED BY <1>1, <3>1, <4>1, <4>2 DEF ToldUpTo
    <3> QED BY <3>2, <3>3
  <2>3. NeverBackwards'
    BY <1>1 DEF OrderInv, NeverBackwards
  <2>4. ASSUME holder' # NoWorker, NEW k \in Key
        PROVE  /\ ToldUpTo(mine[k], k, actual[k])'
               /\ seen'[k] # Unseen =>
                    /\ ToldUpTo(mine[k], k, seen[k])'
                    /\ Later(actual[k], seen[k].n, ~seen[k].live)'
    BY <1>1, <2>4 DEF OrderInv, ToldUpTo, Later
  <2> QED BY <2>2, <2>3, <2>4 DEF OrderInv
<1> QED BY <1>2, <1>3

LEMMA LockOrders ==
    ASSUME OrderInv, NEW w \in Worker, Lock(w), changes' = changes
    PROVE  OrderInv'
<1>1. UNCHANGED <<log, held, actual>> /\ mine' = held /\ \A k \in Key : seen'[k] = Unseen
  BY DEF Lock, stored, NothingSeen
<1>2. NeverBackwards'
  BY <1>1 DEF OrderInv, NeverBackwards
<1> QED BY <1>1, <1>2 DEF OrderInv, ToldUpTo

\* What is read is the entity as it is.
LEMMA ReadOrders ==
    ASSUME LogTypeOK, OrderInv, NEW w \in Worker, NEW j \in Key, NEW scope, Read(w, j, scope),
           changes' = changes, LogConstants
    PROVE  OrderInv'
<1>1. UNCHANGED <<log, held, actual, holder, mine>> /\ seen' = [seen EXCEPT ![j] = actual[j]]
  BY DEF Read, stored
<1>2. holder # NoWorker
  BY DEF Read, LogConstants
<1>3. NeverBackwards' /\ \A k \in Key : actual'[k].n <= changes' /\ ToldUpTo(held[k], k, actual[k])'
  BY <1>1 DEF OrderInv, NeverBackwards, ToldUpTo
<1>4. ASSUME NEW k \in Key
      PROVE  /\ ToldUpTo(mine[k], k, actual[k])'
             /\ seen'[k] # Unseen =>
                  /\ ToldUpTo(mine[k], k, seen[k])'
                  /\ Later(actual[k], seen[k].n, ~seen[k].live)'
  <2>1. ToldUpTo(mine[k], k, actual[k])
    BY <1>2 DEF OrderInv
  <2>2. CASE k = j
    <3>1. seen'[k] = actual[k] /\ actual[k].n \in Nat
      BY <1>1, <2>2 DEF LogTypeOK, Content
    <3> QED BY <1>1, <2>1, <3>1 DEF ToldUpTo, Later
  <2>3. CASE k # j
    <3>1. seen'[k] = seen[k]
      BY <1>1, <2>3 DEF LogTypeOK
    <3> QED BY <1>1, <1>2, <2>1, <3>1 DEF OrderInv, ToldUpTo, Later
  <2> QED BY <2>2, <2>3
<1> QED BY <1>3, <1>4 DEF OrderInv

\* A change is later than every state there was.
LEMMA ChangeOrders ==
    ASSUME TypeOK, LogTypeOK, LogTypeOK', OrderInv, NEW j \in Key, Change(j)
    PROVE  OrderInv'
<1>1. UNCHANGED <<log, held, holder, mine, seen>> /\ changes' = changes + 1 /\ changes \in Int
  BY DEF Change, logVars, stored, reading, TypeOK
<1>2. /\ actual'[j].n = changes'
      /\ \A k \in Key : k # j => actual'[k] = actual[k]
  BY DEF Change, LogTypeOK
<1>3. \A k \in Key : actual[k].n \in Nat /\ actual[k].n <= changes
  BY DEF OrderInv, LogTypeOK, Content
<1>4. ASSUME NEW k \in Key
      PROVE  actual'[k] = actual[k] \/ actual[k].n < actual'[k].n
  BY <1>1, <1>2, <1>3
<1>5. ASSUME NEW k \in Key, NEW h, h.v > 0, h.n \in Int, ToldUpTo(h, k, actual[k])
      PROVE  Later(actual'[k], h.n, h.deleted)
  <2>1. Later(actual[k], h.n, h.deleted)
    BY <1>5 DEF ToldUpTo
  <2>2. CASE actual'[k] = actual[k]
    BY <2>1, <2>2
  <2>3. CASE actual[k].n < actual'[k].n
    <3>1. actual'[k].n \in Nat
      BY DEF LogTypeOK, Content
    <3> QED BY <1>3, <1>5, <2>1, <2>3, <3>1 DEF Later
  <2> QED BY <1>4, <2>2, <2>3
<1>6. ASSUME NEW k \in Key, NEW h, h.n \in Int, ToldUpTo(h, k, actual[k])
      PROVE  ToldUpTo(h, k, actual'[k])
  <2>1. actual'[k].n \in Nat
    BY DEF LogTypeOK, Content
  <2>2. ASSUME NEW r \in log, r.key = k
        PROVE  Later(actual'[k], r.n, r.op = "del")
               /\ (h.v = 0 /\ r.op = "set" => r.n < actual'[k].n)
    <3>1. r.n \in Nat
      BY DEF LogTypeOK, Record
    <3> QED BY <1>3, <1>4, <1>6, <2>1, <2>2, <3>1 DEF ToldUpTo, Later
  <2> QED BY <1>5, <1>6, <2>2 DEF ToldUpTo
<1>7. NeverBackwards' /\ \A k \in Key : actual'[k].n <= changes'
  BY <1>1, <1>2, <1>3 DEF OrderInv, NeverBackwards
<1>8. ASSUME NEW k \in Key
      PROVE  ToldUpTo(held[k], k, actual[k])'
  <2>1. held[k].n \in Int /\ ToldUpTo(held[k], k, actual[k])
    BY DEF LogTypeOK, Versions, OrderInv
  <2>2. ToldUpTo(held[k], k, actual'[k])
    BY <1>6, <2>1
  <2> QED BY <1>1, <2>2 DEF ToldUpTo
<1>9. ASSUME holder # NoWorker, NEW k \in Key
      PROVE  /\ ToldUpTo(mine[k], k, actual[k])'
             /\ seen[k] # Unseen =>
                  /\ ToldUpTo(mine[k], k, seen[k])
                  /\ Later(actual'[k], seen[k].n, ~seen[k].live)
  <2>1. mine[k].n \in Int /\ ToldUpTo(mine[k], k, actual[k])
    BY <1>9 DEF LogTypeOK, Versions, OrderInv
  <2>2. ToldUpTo(mine[k], k, actual'[k])
    BY <1>6, <2>1
  <2>3. ASSUME seen[k] # Unseen
        PROVE  ToldUpTo(mine[k], k, seen[k]) /\ Later(actual'[k], seen[k].n, ~seen[k].live)
    <3>1. seen[k].n \in Nat /\ actual'[k].n \in Nat
      BY <2>3 DEF LogTypeOK, Content
    <3>2. ToldUpTo(mine[k], k, seen[k]) /\ Later(actual[k], seen[k].n, ~seen[k].live)
      BY <1>9, <2>3 DEF OrderInv
    <3> QED BY <1>3, <1>4, <3>1, <3>2 DEF Later
  <2> QED BY <1>1, <2>2, <2>3 DEF ToldUpTo
<1>10. ASSUME holder' # NoWorker, NEW k \in Key
       PROVE  /\ ToldUpTo(mine[k], k, actual[k])'
              /\ seen'[k] # Unseen =>
                   /\ ToldUpTo(mine[k], k, seen[k])'
                   /\ Later(actual[k], seen[k].n, ~seen[k].live)'
  BY <1>1, <1>9, <1>10 DEF ToldUpTo, Later
<1> QED BY <1>7, <1>8, <1>10 DEF OrderInv

LEMMA OrderStep ==
    ASSUME SyncInv, SyncInv', OrderInv, [Next]_vars
    PROVE  OrderInv'
<1> USE LogConstants
<1>1. TypeOK /\ WorkerHasTask /\ LogInv /\ LogTypeOK /\ LogTypeOK'
  BY DEF SyncInv, LogInv
<1>2. ASSUME UNCHANGED <<world, logVars>>
      PROVE  OrderInv'
  BY <1>2, OrderStays DEF world, logVars, stored, reading
<1>3. ASSUME NEW k \in Key, Change(k)
      PROVE  OrderInv'
  BY <1>1, <1>3, ChangeOrders
<1>4. ASSUME NEW t \in todo, DropPoke(t) \/ TooOld(t) \/ TimesOut(t)
      PROVE  OrderInv'
  BY <1>2, <1>4 DEF DropPoke, TooOld, TimesOut
<1>5. ASSUME NEW w \in Worker, NEW t \in Tasks, Begin(w, t)
      PROVE  OrderInv'
  BY <1>5, LockOrders DEF Begin
<1>6. ASSUME NEW w \in Worker, NEW k \in Key, ReadEntity(w, k)
      PROVE  OrderInv'
  BY <1>1, <1>6, ReadOrders DEF ReadEntity
<1>7. ASSUME NEW w \in Worker, Commit(w)
      PROVE  OrderInv'
  <2>1. stage[w] # "idle" /\ Project(w, Source(task[w]), Scope(task[w])) /\ changes' = changes
    BY <1>7 DEF Commit
  <2>2. Source(task[w]) \in Sources /\ Scope(task[w]) \in SUBSET Key
    BY <1>1, <2>1, Working
  <2> QED BY <1>1, <2>1, <2>2, ProjectOrders
<1>8. ASSUME NEW w \in Worker, Send(w)
      PROVE  OrderInv'
  BY <1>2, <1>8 DEF Send
<1>9. ASSUME NEW w \in Worker, Abandon(w), changes' = changes
      PROVE  OrderInv'
  BY <1>9, OrderStays DEF Abandon, Unlock, stored
<1>10. ASSUME NEW w \in Worker, Fail(w)
       PROVE  OrderInv'
  BY <1>9, <1>10 DEF Fail
<1>11. ASSUME NEW w \in Worker, Crash(w)
       PROVE  OrderInv'
  BY <1>2, <1>9, <1>11 DEF Crash, world
<1>12. CASE Trim
  <2>1. changes' = changes
    BY <1>12 DEF Trim
  <2>2. CASE TrimEnds
    BY <1>1, <2>1, <2>2, TrimEndsOrders
  <2>3. CASE TrimBegins \/ TrimAborts
    BY <2>1, <2>3, OrderStays DEF TrimBegins, TrimAborts, stored, reading
  <2> QED BY <1>12, <2>2, <2>3 DEF Trim
<1>13. ASSUME NEW c \in Client, Follows(c) \/ Restart(c)
       PROVE  OrderInv'
  BY <1>2, <1>13 DEF Follows, GetUpdates, Apply, Restart
<1>14. CASE UNCHANGED vars
  BY <1>2, <1>14 DEF vars
<1> QED BY <1>3, <1>4, <1>5, <1>6, <1>7, <1>8, <1>10, <1>11, <1>12, <1>13, <1>14
    DEF Next, Works

\* Of an entity no record tells a state that an earlier record told, or one
\* before it.
THEOREM NeverBackwardsAlways == Spec => []NeverBackwards
<1>1. Init => OrderInv
  <2> SUFFICES ASSUME Init PROVE OrderInv
    OBVIOUS
  <2>1. log = {} /\ holder = NoWorker
        /\ \A k \in Key : held[k].v = 0 /\ actual[k].n <= changes
    BY DEF Init, LogInit, NothingHeld, NotHeld
  <2> QED BY <2>1 DEF OrderInv, NeverBackwards, ToldUpTo
<1>2. SyncInv /\ SyncInv' /\ OrderInv /\ [Next]_vars => OrderInv'
  BY OrderStep
<1>3. OrderInv => NeverBackwards
  BY DEF OrderInv
<1> QED BY <1>1, <1>2, <1>3, SyncInvariant, PTL DEF Spec
=============================================================================
