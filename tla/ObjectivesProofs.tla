-------------------------- MODULE ObjectivesProofs --------------------------
(***************************************************************************)
(* What the assignment of objectives guarantees for every set of           *)
(* objectives, every geometry and every leaf size of the kd-trees: however *)
(* wrong the answers of a stale index are, no objective is lost from the   *)
(* trees or given twice, and a count misses nothing but what came back.    *)
(***************************************************************************)
EXTENDS Objectives, SequenceTheorems, TLAPS

Holds(s, n, o) == \E i \in 1..n : s[i] = o
Distinct(s, n) == \A i, j \in 1..n : s[i] = s[j] => i = j

\* The vector of a level holds, once each, the objectives of that level that are
\* not in the reserved tree.
TreeInv ==
    \A p \in Levels :
        /\ Distinct(slots[p], live[p])
        /\ \A o \in ObjectiveIds :
              Holds(slots[p], live[p], o) <=> Priority[o] = p /\ o \notin reserved

ObjInv ==
    /\ TypeOK
    /\ TreeInv
    /\ CountsLackReturns
    /\ SkippedLevelsAreSpent
    /\ served \subseteq reserved

-----------------------------------------------------------------------------
(* The vector operations *)

\* After an erase the vector is one shorter and holds all it held but the erased
\* element; the slots the index refers to are as many as before.
LEMMA EraseProperties ==
    ASSUME NEW S, NEW s \in Seq(S), NEW n \in 0..Len(s), NEW i \in 1..n,
           Distinct(s, n)
    PROVE  /\ Erase(s, n, i) \in Seq(S)
           /\ Len(Erase(s, n, i)) = Len(s)
           /\ Distinct(Erase(s, n, i), n - 1)
           /\ \A o : Holds(Erase(s, n, i), n - 1, o) <=> Holds(s, n, o) /\ o # s[i]
<1> DEFINE t == Erase(s, n, i)
<1>1. Len(s) \in Nat /\ s \in [1..Len(s) -> S] /\ DOMAIN s = 1..Len(s)
  BY LenProperties
<1>2. n \in Nat /\ n <= Len(s) /\ i \in Nat /\ 1 <= i /\ i <= n
  BY <1>1
<1>3. t \in [1..Len(s) -> S]
  BY <1>1, <1>2 DEF Erase
<1>4. t \in Seq(S) /\ Len(t) = Len(s)
  BY <1>1, <1>3
<1>5. \A j \in 1..(n - 1) : t[j] = IF j < i THEN s[j] ELSE s[j + 1]
  BY <1>1, <1>2 DEF Erase
<1>6. Distinct(t, n - 1)
  BY <1>2, <1>5 DEF Distinct
<1>7. ASSUME NEW o PROVE Holds(t, n - 1, o) <=> Holds(s, n, o) /\ o # s[i]
  <2>1. ASSUME NEW j \in 1..(n - 1), t[j] = o PROVE Holds(s, n, o) /\ o # s[i]
    <3>1. CASE j < i
      BY <3>1, <2>1, <1>2, <1>5 DEF Holds, Distinct
    <3>2. CASE ~(j < i)
      <4>1. j + 1 \in 1..n /\ j + 1 # i /\ s[j + 1] = o
        BY <3>2, <2>1, <1>2, <1>5
      <4> QED
        BY <4>1 DEF Holds, Distinct
    <3> QED
      BY <3>1, <3>2
  <2>2. ASSUME NEW j \in 1..n, s[j] = o, o # s[i] PROVE Holds(t, n - 1, o)
    <3>1. CASE j < i
      <4>1. j \in 1..(n - 1) /\ t[j] = o
        BY <3>1, <2>2, <1>2, <1>5
      <4> QED
        BY <4>1 DEF Holds
    <3>2. CASE ~(j < i)
      <4>1. j - 1 \in 1..(n - 1) /\ t[j - 1] = s[(j - 1) + 1] /\ (j - 1) + 1 = j
        BY <3>2, <2>2, <1>2, <1>5
      <4> QED
        BY <4>1, <2>2 DEF Holds
    <3> QED
      BY <3>1, <3>2
  <2> QED
    BY <2>1, <2>2 DEF Holds
<1> HIDE DEF t
<1> QED
  BY <1>4, <1>6, <1>7 DEF t

\* push_back, seen from the slots.
LEMMA PushProperties ==
    ASSUME NEW S, NEW c \in Seq(S), NEW e \in S, NEW u, u = Append(c, e)
    PROVE  /\ u \in Seq(S) /\ Len(u) = Len(c) + 1
           /\ \A j \in 1..Len(c) : u[j] = c[j]
           /\ u[Len(c) + 1] = e
  BY AppendProperties

\* The first k elements with one more behind them.
Pushed(t, k, e) == Append(SubSeq(t, 1, k), e)

\* Pushing a new element behind the first k.
LEMMA KeepAndPush ==
    ASSUME NEW S, NEW t \in Seq(S), NEW k \in 0..Len(t), NEW e \in S,
           Distinct(t, k), ~Holds(t, k, e)
    PROVE  /\ Pushed(t, k, e) \in Seq(S)
           /\ Len(Pushed(t, k, e)) = k + 1
           /\ Distinct(Pushed(t, k, e), k + 1)
           /\ \A o : Holds(Pushed(t, k, e), k + 1, o) <=> Holds(t, k, o) \/ o = e
<1>1. Len(t) \in Nat /\ k \in Nat /\ k <= Len(t)
  BY LenProperties
<1>2. \A j \in 1..k : t[j] \in S
  BY <1>1, ElementOfSeq
<1>3. PICK c : c = SubSeq(t, 1, k)
  OBVIOUS
<1>4. /\ c \in Seq(S) /\ Len(c) = k
      /\ \A j \in 1..k : c[j] = t[j]
  BY <1>1, <1>2, <1>3, SubSeqProperties
<1>u. PICK u : u = Append(c, e)
  OBVIOUS
<1>p. u = Pushed(t, k, e)
  BY <1>3, <1>u DEF Pushed
<1>5. /\ u \in Seq(S) /\ Len(u) = k + 1
      /\ \A j \in 1..k : u[j] = t[j]
      /\ u[k + 1] = e
  BY <1>u, <1>4, PushProperties
<1>6. \A j \in 1..k : u[j] # e
  BY <1>5 DEF Holds
<1>7. Distinct(u, k + 1)
  <2>1. ASSUME NEW i \in 1..(k + 1), NEW j \in 1..(k + 1), u[i] = u[j] PROVE i = j
    <3>1. CASE i \in 1..k /\ j \in 1..k
      BY <3>1, <2>1, <1>5 DEF Distinct
    <3>2. CASE i = k + 1 /\ j \in 1..k
      BY <3>2, <2>1, <1>5, <1>6
    <3>3. CASE j = k + 1 /\ i \in 1..k
      BY <3>3, <2>1, <1>5, <1>6
    <3> QED
      BY <3>1, <3>2, <3>3, <1>1
  <2> QED
    BY <2>1 DEF Distinct
<1>8. ASSUME NEW o PROVE Holds(u, k + 1, o) <=> Holds(t, k, o) \/ o = e
  <2>1. \A j \in 1..(k + 1) : j \in 1..k \/ j = k + 1
    BY <1>1
  <2>2. k + 1 \in 1..(k + 1) /\ \A j \in 1..k : j \in 1..(k + 1)
    BY <1>1
  <2> QED
    BY <2>1, <2>2, <1>5 DEF Holds
<1> QED
  BY <1>p, <1>5, <1>7, <1>8

\* Erasing an element and pushing it at the end changes nothing but the order,
\* and leaves no spare slot.
LEMMA PushBackProperties ==
    ASSUME NEW S, NEW s \in Seq(S), NEW n \in 0..Len(s), NEW i \in 1..n,
           Distinct(s, n),
           NEW u, u = Pushed(Erase(s, n, i), n - 1, s[i])
    PROVE  /\ u \in Seq(S)
           /\ Len(u) = n
           /\ Distinct(u, n)
           /\ \A o : Holds(u, n, o) <=> Holds(s, n, o)
<1>1. Len(s) \in Nat /\ n \in Nat /\ n <= Len(s) /\ i \in 1..n /\ s[i] \in S
  BY LenProperties, ElementOfSeq
<1>2. PICK t : t = Erase(s, n, i)
  OBVIOUS
<1>3. /\ t \in Seq(S) /\ Len(t) = Len(s)
      /\ Distinct(t, n - 1)
      /\ \A o : Holds(t, n - 1, o) <=> Holds(s, n, o) /\ o # s[i]
  BY <1>2, EraseProperties
<1>4. PICK k : k = n - 1
  OBVIOUS
<1>5. k \in 0..Len(t) /\ k + 1 = n
  BY <1>1, <1>3, <1>4
<1>6. Distinct(t, k) /\ ~Holds(t, k, s[i]) /\ u = Pushed(t, k, s[i])
  BY <1>2, <1>3, <1>4
<1>7. /\ u \in Seq(S) /\ Len(u) = k + 1
      /\ Distinct(u, k + 1)
      /\ \A o : Holds(u, k + 1, o) <=> Holds(t, k, o) \/ o = s[i]
  BY <1>1, <1>3, <1>5, <1>6, KeepAndPush
<1>8. Holds(s, n, s[i])
  BY <1>1 DEF Holds
<1> QED
  BY <1>3, <1>4, <1>5, <1>7, <1>8

-----------------------------------------------------------------------------
(* The search *)

\* Whatever the index answers, an objective that is found is in the vector.
LEMMA FoundIsLive ==
    ASSUME TypeOK, NEW p \in Levels, NEW origin, NEW from,
           NEW o \in Candidates(p, origin, from), o # None
    PROVE  counts[p] # 0 /\ Holds(slots[p], live[p], o)
<1>1. slots[p] \in Seq(ObjectiveIds) /\ live[p] \in Nat
  BY DEF TypeOK
<1>2. DOMAIN slots[p] = 1..Len(slots[p]) /\ Len(slots[p]) \in Nat
  BY <1>1, LenProperties
<1>3. ASSUME NEW f \in FindNearest(p, origin)
      PROVE  f = None \/ Holds(slots[p], live[p], f)
  <2>1. IndexAnswers(p, origin) \subseteq 1..Len(slots[p])
    BY <1>2 DEF IndexAnswers
  <2> QED
    BY <1>1, <1>2, <1>3, <2>1 DEF FindNearest, Holds
<1>4. ASSUME NEW x, NEW f \in FindNextNearest(p, origin, x)
      PROVE  f = None \/ Holds(slots[p], live[p], f)
  BY <1>4 DEF FindNextNearest, Nearest, Holds
<1>5. ~(p < from) /\ counts[p] # 0
  BY DEF Candidates
<1>6. PICK f \in FindNearest(p, origin) :
        o \in IF f = None \/ ~Blacklisted(f, origin) THEN {f}
              ELSE FindNextNearest(p, origin, f)
  BY <1>5 DEF Candidates
<1> QED
  BY <1>3, <1>4, <1>5, <1>6

\* An objective that is chosen is in the vector of its level, which has a count
\* left, and the search has skipped only levels without one.
LEMMA ChosenIsLive ==
    ASSUME TypeOK, TreeInv, SkippedLevelsAreSpent,
           NEW origin, NEW from \in Levels, NEW o \in ObjectiveIds,
           Chooses(origin, from, o)
    PROVE  /\ total > 0
           /\ counts[Priority[o]] > 0
           /\ o \notin reserved
           /\ Holds(slots[Priority[o]], live[Priority[o]], o)
<1>1. o # None
  BY ObjectivesAssumption
<1>2. total # 0
  BY <1>1 DEF Chooses
<1>3. PICK found \in [Levels -> ObjectiveIds \cup {None}] :
        /\ \A p \in Levels : found[p] \in Candidates(p, origin, from)
        /\ \E p \in Levels : found[p] = o
  BY <1>1, <1>2 DEF Chooses
<1>4. PICK p \in Levels : found[p] = o /\ o \in Candidates(p, origin, from)
  BY <1>3
<1>5. counts[p] # 0 /\ Holds(slots[p], live[p], o)
  BY <1>1, <1>4, FoundIsLive
<1>6. Priority[o] = p /\ o \notin reserved
  BY <1>5 DEF TreeInv
<1> QED
  BY <1>2, <1>5, <1>6 DEF TypeOK

\* shift_trees_if_needed passes over spent levels only.
LEMMA ShiftSkipsSpent ==
    ASSUME TypeOK, SkippedLevelsAreSpent, NEW from \in Levels, NEW origin, NEW o,
           Chooses(origin, from, o)
    PROVE  \A p \in Levels : p < from => counts[p] = 0
<1>1. CASE total = 0
  BY <1>1 DEF Chooses, SkippedLevelsAreSpent
<1>2. CASE total # 0
  <2>1. ShiftsTo(from)
    BY <1>2 DEF Chooses
  <2> DEFINE busy == {p \in Levels : p >= highest /\ counts[p] # 0}
  <2>2. CASE busy = {}
    <3>1. from = 0
      BY <2>1, <2>2 DEF ShiftsTo
    <3> QED
      BY <3>1 DEF Levels
  <2>3. CASE busy # {}
    <3>1. \A p \in busy : from <= p
      BY <2>1, <2>3 DEF ShiftsTo
    <3>2. ASSUME NEW p \in Levels, p < from PROVE counts[p] = 0
      <4>1. p \notin busy
        BY <3>1, <3>2, ObjectivesAssumption DEF Levels
      <4>2. CASE p >= highest
        BY <4>1, <4>2
      <4>3. CASE p < highest
        BY <4>3 DEF SkippedLevelsAreSpent
      <4> QED
        BY <4>2, <4>3, ObjectivesAssumption DEF Levels, TypeOK
    <3> QED
      BY <3>2
  <2> QED
    BY <2>2, <2>3
<1> QED
  BY <1>1, <1>2

-----------------------------------------------------------------------------
(* The steps *)

LEMMA ObjInit == Init => ObjInv
<1> SUFFICES ASSUME Init PROVE ObjInv
  OBVIOUS
<1>1. ASSUME NEW p \in Levels
      PROVE  /\ slots[p] \in Seq(ObjectiveIds)
             /\ Distinct(slots[p], Len(slots[p]))
             /\ \A o \in ObjectiveIds :
                   Holds(slots[p], Len(slots[p]), o) <=> Priority[o] = p
  <2>1. slots[p] \in Loadings(p)
    BY DEF Init
  <2>2. PICK n \in 0..NumObjectives : slots[p] \in [1..n -> ObjectiveIds]
    BY <2>1 DEF Loadings
  <2>3. n \in Nat
    BY ObjectivesAssumption
  <2>4. slots[p] \in Seq(ObjectiveIds) /\ Len(slots[p]) = n
    BY <2>2, <2>3
  <2>5. DOMAIN slots[p] = 1..n /\ \A i \in 1..n : slots[p][i] \in Int
    BY <2>2 DEF ObjectiveIds
  <2>6. \A i, j \in 1..n : i < j => slots[p][i] < slots[p][j]
    BY <2>1, <2>5 DEF Loadings
  <2>7. Distinct(slots[p], n)
    BY <2>3, <2>5, <2>6 DEF Distinct
  <2>8. \A o \in ObjectiveIds : Holds(slots[p], n, o) <=> Priority[o] = p
    BY <2>1, <2>5 DEF Loadings, Holds
  <2> QED
    BY <2>4, <2>7, <2>8
<1>2. slots \in [Levels -> Seq(ObjectiveIds)]
  <2>1. slots \in [Levels -> UNION {Loadings(p) : p \in Levels}]
    BY DEF Init
  <2> QED
    BY <1>1, <2>1
<1>3. live = [p \in Levels |-> Len(slots[p])] /\ counts = live
  BY DEF Init
<1>4. \A p \in Levels : Len(slots[p]) \in Nat
  BY <1>1, LenProperties
<1>5. TypeOK
  <2>1. live \in [Levels -> Nat] /\ counts \in [Levels -> Nat]
    BY <1>3, <1>4
  <2>2. \A p \in Levels : live[p] <= Len(slots[p])
    BY <1>3, <1>4
  <2>3. highest \in Levels /\ total \in Nat
    BY ObjectivesAssumption DEF Init, Levels
  <2> QED
    BY <1>2, <2>1, <2>2, <2>3 DEF Init, TypeOK
<1>6. TreeInv
  BY <1>1, <1>3 DEF TreeInv, Init
<1>7. CountsLackReturns
  BY <1>3, <1>4 DEF CountsLackReturns, Init
<1>8. SkippedLevelsAreSpent
  BY DEF Init, SkippedLevelsAreSpent, Levels
<1> QED
  BY <1>5, <1>6, <1>7, <1>8 DEF Init, ObjInv

\* Taking an objective out of its level for the reserved tree.
LEMMA ReserveStep ==
    ASSUME TypeOK, TreeInv, NEW o \in ObjectiveIds, NEW i, Reserve(o, i)
    PROVE  /\ slots' \in [Levels -> Seq(ObjectiveIds)]
           /\ live' = [live EXCEPT ![Priority[o]] = @ - 1]
           /\ live' \in [Levels -> Nat]
           /\ \A p \in Levels : live'[p] <= Len(slots'[p])
           /\ TreeInv'
<1> DEFINE p0 == Priority[o]
<1>1. /\ p0 \in Levels /\ i \in 1..live[p0] /\ slots[p0][i] = o
      /\ slots' = [slots EXCEPT ![p0] = Erase(slots[p0], live[p0], i)]
      /\ live' = [live EXCEPT ![p0] = @ - 1]
      /\ reserved' = reserved \cup {o}
  BY ObjectivesAssumption DEF Reserve
<1>2. /\ slots[p0] \in Seq(ObjectiveIds) /\ Len(slots[p0]) \in Nat
      /\ live[p0] \in 0..Len(slots[p0]) /\ Distinct(slots[p0], live[p0])
  BY <1>1, LenProperties DEF TypeOK, TreeInv
<1> HIDE DEF p0
<1>3. PICK t : t = Erase(slots[p0], live[p0], i)
  OBVIOUS
<1>4. /\ t \in Seq(ObjectiveIds) /\ Len(t) = Len(slots[p0])
      /\ Distinct(t, live[p0] - 1)
      /\ \A x : Holds(t, live[p0] - 1, x) <=> Holds(slots[p0], live[p0], x) /\ x # o
  BY <1>1, <1>2, <1>3, EraseProperties
<1>5. /\ slots'[p0] = t /\ live'[p0] = live[p0] - 1
      /\ \A p \in Levels \ {p0} : slots'[p] = slots[p] /\ live'[p] = live[p]
  BY <1>1, <1>3 DEF TypeOK
<1>6. slots' \in [Levels -> Seq(ObjectiveIds)] /\ live' \in [Levels -> Nat]
  BY <1>1, <1>2, <1>3, <1>4 DEF TypeOK
<1>7. ASSUME NEW p \in Levels
      PROVE  /\ live'[p] <= Len(slots'[p])
             /\ Distinct(slots'[p], live'[p])
             /\ \A x \in ObjectiveIds :
                   Holds(slots'[p], live'[p], x) <=> Priority[x] = p /\ x \notin reserved'
  <2>1. CASE p = p0
    <3>1. live'[p] <= Len(slots'[p])
      BY <2>1, <1>2, <1>4, <1>5
    <3>2. Distinct(slots'[p], live'[p])
      BY <2>1, <1>4, <1>5
    <3>3. ASSUME NEW x \in ObjectiveIds
          PROVE  Holds(slots'[p], live'[p], x) <=> Priority[x] = p /\ x \notin reserved'
      <4>1. Holds(slots'[p], live'[p], x) <=> Holds(slots[p0], live[p0], x) /\ x # o
        BY <2>1, <1>4, <1>5
      <4> QED
        BY <4>1, <2>1, <1>1 DEF TreeInv
    <3> QED
      BY <3>1, <3>2, <3>3
  <2>2. CASE p # p0
    <3>1. slots'[p] = slots[p] /\ live'[p] = live[p] /\ Priority[o] # p
      BY <2>2, <1>5 DEF p0
    <3> QED
      BY <3>1, <1>1 DEF TypeOK, TreeInv
  <2> QED
    BY <2>1, <2>2
<1>8. TreeInv'
  BY <1>7 DEF TreeInv
<1> QED
  BY <1>1, <1>6, <1>7, <1>8 DEF p0

\* Taking it out and giving it back.
LEMMA ReserveAndPushStep ==
    ASSUME TypeOK, TreeInv, NEW o \in ObjectiveIds, o \notin reserved, NEW i,
           ReserveAndPush(o, i)
    PROVE  /\ slots' \in [Levels -> Seq(ObjectiveIds)]
           /\ live' = live
           /\ \A p \in Levels : live'[p] <= Len(slots'[p])
           /\ reserved' = reserved
           /\ TreeInv'
<1> DEFINE p0 == Priority[o]
<1>1. /\ p0 \in Levels /\ i \in 1..live[p0] /\ slots[p0][i] = o
      /\ slots' = [slots EXCEPT ![p0] =
                      Pushed(Erase(slots[p0], live[p0], i), live[p0] - 1, slots[p0][i])]
      /\ live' = live /\ reserved' = reserved
  BY ObjectivesAssumption DEF ReserveAndPush, Pushed
<1>2. /\ slots[p0] \in Seq(ObjectiveIds) /\ Len(slots[p0]) \in Nat
      /\ live[p0] \in 0..Len(slots[p0]) /\ Distinct(slots[p0], live[p0])
  BY <1>1, LenProperties DEF TypeOK, TreeInv
<1> HIDE DEF p0
<1>3. PICK u : u = Pushed(Erase(slots[p0], live[p0], i), live[p0] - 1, slots[p0][i])
  OBVIOUS
<1>4. /\ u \in Seq(ObjectiveIds) /\ Len(u) = live[p0]
      /\ Distinct(u, live[p0])
      /\ \A x : Holds(u, live[p0], x) <=> Holds(slots[p0], live[p0], x)
  BY <1>1, <1>2, <1>3, PushBackProperties
<1>5. /\ slots'[p0] = u
      /\ \A p \in Levels \ {p0} : slots'[p] = slots[p]
  BY <1>1, <1>3 DEF TypeOK
<1>6. slots' \in [Levels -> Seq(ObjectiveIds)]
  BY <1>1, <1>3, <1>4 DEF TypeOK
<1>7. ASSUME NEW p \in Levels
      PROVE  /\ live'[p] <= Len(slots'[p])
             /\ Distinct(slots'[p], live'[p])
             /\ \A x \in ObjectiveIds :
                   Holds(slots'[p], live'[p], x) <=> Priority[x] = p /\ x \notin reserved'
  <2>1. CASE p = p0
    BY <2>1, <1>1, <1>2, <1>4, <1>5 DEF TreeInv
  <2>2. CASE p # p0
    BY <2>2, <1>1, <1>5 DEF TypeOK, TreeInv
  <2> QED
    BY <2>1, <2>2
<1>8. TreeInv'
  BY <1>7 DEF TreeInv
<1> QED
  BY <1>1, <1>6, <1>7, <1>8

\* The counts after a request that took an objective.
LEMMA CountStep ==
    ASSUME ObjInv, NEW origin, NEW from \in Levels, NEW o \in ObjectiveIds,
           Chooses(origin, from, o), highest' = from, CountOut(o),
           \/ live' = live /\ returned' = [returned EXCEPT ![Priority[o]] = @ + 1]
           \/ live' = [live EXCEPT ![Priority[o]] = @ - 1] /\ returned' = returned
    PROVE  /\ counts' \in [Levels -> Nat] /\ total' \in Nat /\ highest' \in Levels
           /\ returned' \in [Levels -> Nat]
           /\ CountsLackReturns' /\ SkippedLevelsAreSpent'
<1>1. Priority[o] \in Levels
  BY ObjectivesAssumption
<1>2. total > 0 /\ counts[Priority[o]] > 0
  BY ChosenIsLive DEF ObjInv
<1>3. \A p \in Levels : p < from => counts[p] = 0
  BY ShiftSkipsSpent DEF ObjInv
<1>4. /\ counts \in [Levels -> Nat] /\ live \in [Levels -> Nat] /\ total \in Nat
      /\ returned \in [Levels -> Nat]
      /\ \A p \in Levels : live[p] = counts[p] + returned[p]
  BY DEF ObjInv, TypeOK, CountsLackReturns
<1>5. counts' = [counts EXCEPT ![Priority[o]] = @ - 1] /\ total' = total - 1
  BY DEF CountOut
<1>6. counts' \in [Levels -> Nat] /\ total' \in Nat /\ returned' \in [Levels -> Nat]
  BY <1>1, <1>2, <1>4, <1>5
<1>7. ASSUME NEW p \in Levels
      PROVE  /\ live'[p] = counts'[p] + returned'[p]
             /\ p < from => counts'[p] = 0
  <2>1. CASE p = Priority[o]
    <3>1. /\ counts'[p] = counts[p] - 1
          /\ \/ live'[p] = live[p] /\ returned'[p] = returned[p] + 1
             \/ live'[p] = live[p] - 1 /\ returned'[p] = returned[p]
      BY <2>1, <1>1, <1>4, <1>5
    <3> QED
      BY <3>1, <2>1, <1>2, <1>3, <1>4
  <2>2. CASE p # Priority[o]
    BY <2>2, <1>3, <1>4, <1>5
  <2> QED
    BY <2>1, <2>2
<1> QED
  BY <1>6, <1>7 DEF CountsLackReturns, SkippedLevelsAreSpent

LEMMA ObjStep == ObjInv /\ [Next]_vars => ObjInv'
<1> SUFFICES ASSUME ObjInv, [Next]_vars PROVE ObjInv'
  OBVIOUS
<1> USE DEF ObjInv
<1>1. ASSUME NEW origin \in Origins, NothingFound(origin) PROVE ObjInv'
  <2>1. PICK from \in Levels : Chooses(origin, from, None) /\ highest' = from
    BY <1>1 DEF NothingFound
  <2>2. \A p \in Levels : p < from => counts[p] = 0
    BY <2>1, ShiftSkipsSpent
  <2>3. UNCHANGED <<slots, live, reserved, counts, total, blacklist, served, returned>>
    BY <1>1 DEF NothingFound, trees, tallies
  <2>4. TypeOK' /\ CountsLackReturns'
    BY <2>1, <2>3 DEF TypeOK, CountsLackReturns
  <2>5. TreeInv'
    BY <2>3 DEF TreeInv
  <2>6. SkippedLevelsAreSpent'
    BY <2>1, <2>2, <2>3 DEF SkippedLevelsAreSpent
  <2> QED
    BY <2>3, <2>4, <2>5, <2>6
<1>2. ASSUME NEW origin \in Origins, NEW o \in ObjectiveIds,
             RouteAccepted(origin, o) \/ RouteFailsAgain(origin, o)
      PROVE  ObjInv'
  <2>1. PICK from \in Levels : Chooses(origin, from, o) /\ highest' = from
    BY <1>2 DEF RouteAccepted, RouteFailsAgain
  <2>2. PICK i \in 1..live[Priority[o]] : Reserve(o, i)
    BY <1>2 DEF RouteAccepted, RouteFailsAgain
  <2>3. CountOut(o) /\ UNCHANGED <<blacklist, returned>>
        /\ (served' = served \cup {o} \/ served' = served)
    BY <1>2 DEF RouteAccepted, RouteFailsAgain
  <2>4. /\ slots' \in [Levels -> Seq(ObjectiveIds)]
        /\ live' = [live EXCEPT ![Priority[o]] = @ - 1]
        /\ live' \in [Levels -> Nat]
        /\ \A p \in Levels : live'[p] <= Len(slots'[p])
        /\ TreeInv'
    BY <2>2, ReserveStep
  <2>5. /\ counts' \in [Levels -> Nat] /\ total' \in Nat /\ highest' \in Levels
        /\ returned' \in [Levels -> Nat]
        /\ CountsLackReturns' /\ SkippedLevelsAreSpent'
    BY <2>1, <2>3, <2>4, CountStep
  <2>6. reserved' = reserved \cup {o}
    BY <2>2 DEF Reserve
  <2>7. TypeOK'
    BY <2>3, <2>4, <2>5, <2>6 DEF TypeOK
  <2> QED
    BY <2>3, <2>4, <2>5, <2>6, <2>7
<1>3. ASSUME NEW origin \in Origins, NEW o \in ObjectiveIds, RouteFails(origin, o)
      PROVE  ObjInv'
  <2>1. PICK from \in Levels : Chooses(origin, from, o) /\ highest' = from
    BY <1>3 DEF RouteFails
  <2>2. PICK i \in 1..live[Priority[o]] : ReserveAndPush(o, i)
    BY <1>3 DEF RouteFails
  <2>3. CountOut(o) /\ served' = served
        /\ returned' = [returned EXCEPT ![Priority[o]] = @ + 1]
    BY <1>3 DEF RouteFails
  <2>4. o \notin reserved
    BY <2>1, ChosenIsLive
  <2>5. /\ slots' \in [Levels -> Seq(ObjectiveIds)]
        /\ live' = live
        /\ \A p \in Levels : live'[p] <= Len(slots'[p])
        /\ reserved' = reserved
        /\ TreeInv'
    BY <2>2, <2>4, ReserveAndPushStep
  <2>6. /\ counts' \in [Levels -> Nat] /\ total' \in Nat /\ highest' \in Levels
        /\ returned' \in [Levels -> Nat]
        /\ CountsLackReturns' /\ SkippedLevelsAreSpent'
    BY <2>1, <2>3, <2>5, CountStep
  <2>7. blacklist' \in [ObjectiveIds -> SUBSET Origins]
    BY <1>3 DEF RouteFails, TypeOK
  <2>8. TypeOK'
    BY <2>3, <2>5, <2>6, <2>7 DEF TypeOK
  <2> QED
    BY <2>3, <2>5, <2>6, <2>8
<1>4. CASE UNCHANGED vars
  <2>1. TypeOK' /\ CountsLackReturns' /\ SkippedLevelsAreSpent'
    BY <1>4 DEF vars, TypeOK, CountsLackReturns, SkippedLevelsAreSpent
  <2>2. TreeInv'
    BY <1>4 DEF vars, TreeInv
  <2> QED
    BY <1>4, <2>1, <2>2 DEF vars
<1> QED
  BY <1>1, <1>2, <1>3, <1>4 DEF Next, Request

\* The inductive invariant holds after every request (objectives_logic.c).
THEOREM ObjectivesInvariant == Spec => []ObjInv
<1>1. Init => ObjInv
  BY ObjInit
<1>2. ObjInv /\ [Next]_vars => ObjInv'
  BY ObjStep
<1> QED
  BY <1>1, <1>2, PTL DEF Spec

-----------------------------------------------------------------------------
(* The theorems *)

\* The trees keep their shape: a vector is never longer than the slots its index
\* was built over, and no count or total goes below zero.
THEOREM ObjectivesTypeCorrect == Spec => []TypeOK
<1>1. ObjInv => TypeOK
  BY DEF ObjInv
<1> QED
  BY <1>1, ObjectivesInvariant, PTL

\* Every objective is in exactly one of the trees, once, whatever the index
\* answers and whatever fails.
THEOREM ObjectivesInOneTree == Spec => []InOneTree
<1>1. ObjInv => InOneTree
  <2> SUFFICES ASSUME ObjInv, NEW o \in ObjectiveIds
               PROVE  IF o \in reserved THEN Places(o) = {}
                      ELSE \E i \in 1..live[Priority[o]] : Places(o) = {i}
    BY DEF InOneTree
  <2> DEFINE p == Priority[o]
  <2>1. p \in Levels
    BY ObjectivesAssumption
  <2>2. Distinct(slots[p], live[p])
        /\ (Holds(slots[p], live[p], o) <=> o \notin reserved)
    BY <2>1 DEF ObjInv, TreeInv
  <2>3. CASE o \in reserved
    BY <2>2, <2>3 DEF Places, Holds
  <2>4. CASE o \notin reserved
    <3>1. PICK i \in 1..live[p] : slots[p][i] = o
      BY <2>2, <2>4 DEF Holds
    <3>2. Places(o) = {i}
      BY <2>2, <3>1 DEF Places, Distinct
    <3> QED
      BY <3>2, <2>4
  <2> QED
    BY <2>3, <2>4
<1> QED
  BY <1>1, ObjectivesInvariant, PTL

\* A level that is searched has an objective in it, and one that is passed by holds
\* as many as came back to it (objectives_logic.c), whatever a stale index answers.
THEOREM MissesAlwaysByReturnsOnly == Spec => []MissesByReturnsOnly
<1>1. ObjInv => MissesByReturnsOnly
  BY DEF ObjInv, MissesByReturnsOnly
<1> QED
  BY <1>1, ObjectivesInvariant, PTL

\* An objective a rover has a route to is never given to another.
THEOREM ServedStaysGone == Spec => []ServedIsGone
<1>1. ObjInv => ServedIsGone
  <2> SUFFICES ASSUME ObjInv, NEW o \in served
               PROVE  o \in reserved /\ Places(o) = {}
    BY DEF ServedIsGone
  <2>1. o \in reserved /\ o \in ObjectiveIds
    BY DEF ObjInv, TypeOK
  <2>2. ~Holds(slots[Priority[o]], live[Priority[o]], o)
    BY <2>1, ObjectivesAssumption DEF ObjInv, TreeInv
  <2> QED
    BY <2>1, <2>2 DEF Places, Holds
<1> QED
  BY <1>1, ObjectivesInvariant, PTL

\* An origin is never taken off a blacklist, and an objective that goes missing
\* without a rover on its way to it has one there.
LEMMA LostStep ==
    ASSUME ObjInv, LostHasFailedBefore, [Next]_vars
    PROVE  LostHasFailedBefore'
<1> USE DEF ObjInv, TypeOK
<1>1. ASSUME NEW origin \in Origins, NothingFound(origin) PROVE LostHasFailedBefore'
  BY <1>1 DEF NothingFound, trees, LostHasFailedBefore
<1>2. ASSUME NEW origin \in Origins, NEW o \in ObjectiveIds, RouteAccepted(origin, o)
      PROVE  LostHasFailedBefore'
  <2>1. reserved' = reserved \cup {o}
    BY <1>2 DEF RouteAccepted, Reserve
  <2> QED
    BY <1>2, <2>1 DEF RouteAccepted, LostHasFailedBefore
<1>3. ASSUME NEW origin \in Origins, NEW o \in ObjectiveIds, RouteFails(origin, o)
      PROVE  LostHasFailedBefore'
  <2>1. reserved' \subseteq reserved /\ served' = served
    BY <1>3 DEF RouteFails, ReserveAndPush
  <2>2. \A x \in ObjectiveIds : blacklist[x] \subseteq blacklist'[x]
    BY <1>3 DEF RouteFails
  <2> QED
    BY <2>1, <2>2 DEF LostHasFailedBefore
<1>4. ASSUME NEW origin \in Origins, NEW o \in ObjectiveIds, RouteFailsAgain(origin, o)
      PROVE  LostHasFailedBefore'
  <2>1. reserved' = reserved \cup {o}
    BY <1>4 DEF RouteFailsAgain, Reserve
  <2>2. UNCHANGED <<blacklist, served>> /\ origin \in blacklist[o]
    BY <1>4 DEF RouteFailsAgain, Blacklisted
  <2> QED
    BY <2>1, <2>2 DEF LostHasFailedBefore
<1>5. CASE UNCHANGED vars
  BY <1>5 DEF vars, LostHasFailedBefore
<1> QED
  BY <1>1, <1>2, <1>3, <1>4, <1>5 DEF Next, Request

\* No objective is lost by a first failure: one that is out of every tree with no
\* rover on its way to it has an origin on its blacklist
\* (objective_kdtree_push_and_blacklist), at any number of objectives and origins.
THEOREM LostAlwaysFailedBefore == Spec => []LostHasFailedBefore
<1>1. Init => LostHasFailedBefore
  BY DEF Init, LostHasFailedBefore
<1>2. ObjInv /\ LostHasFailedBefore /\ [Next]_vars => LostHasFailedBefore'
  BY LostStep
<1> QED
  BY <1>1, <1>2, ObjectivesInvariant, PTL DEF Spec
=============================================================================
