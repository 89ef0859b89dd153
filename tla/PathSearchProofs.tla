-------------------------- MODULE PathSearchProofs --------------------------
(***************************************************************************)
(* The search for a path, for every map, every pool and every list.  The   *)
(* slots below `taken' are a tree whose nodes never change once a node     *)
(* after them refers to them, though slots are given back and used again;  *)
(* a curve that is being built lies above it.  From that, what is returned *)
(* is shown to lead back to the rover, and a search that gives up to have  *)
(* followed every step.                                                    *)
(***************************************************************************)
EXTENDS PathSearch, FiniteSetTheorems, SequenceTheorems,
        WellFoundedInduction, TLAPS

\* The slots that hold the tree: those of a curve not yet whole lie above it.
Limit == IF pc = "shoot" THEN curveAt ELSE taken

\* The mark of a haven, on a node a step of the search made.
HavenIsFlat(n) ==
    pool[n].haven => /\ pool[n].pose \in Flat
                     /\ pool[n].pose = Motion[pool[pool[n].parent].pose][Straight]

\* The first k steps of the curve from the node `tip` are in the slots from `at`.
CurveIn(at, tip, k) ==
    \A j \in 1 .. k :
        /\ pool[at + j - 1].pose = Curve[pool[tip].pose][objective][j].pose
        /\ pool[at + j - 1].parent = IF j = 1 THEN tip ELSE at + j - 2
        /\ pool[at + j - 1].pose \notin Blocked

Cursor ==
    /\ pc \in {"idle", "search"} => current = NoNode
    /\ pc \in {"aim", "shoot", "expand", "overrun"} => current \in Slots
    /\ pc = "idle" => open = {} /\ openCount = 0

Tree ==
    pc # "idle" =>
        /\ rover \in Poses /\ objective \in Objectives /\ result = NoNode
        /\ Limit \in 1 .. taken
        /\ open \cup ({current} \ {NoNode}) \subseteq 0 .. Limit - 1
        /\ openCount = Cardinality(open)
        /\ pool[0].pose = rover /\ pool[0].parent = NoNode
        /\ \A n \in 0 .. taken - 1 : pool[n].pose \in Poses
        /\ \A n \in 1 .. Limit - 1 : Stepped(n) /\ HavenIsFlat(n)

Shooting ==
    pc = "shoot" =>
        /\ Clear /\ next <= Len(Shot)
        /\ taken = curveAt + next - 1
        /\ CurveIn(curveAt, current, next - 1)

\* What a returned node stands on, told by the slots alone: a tree, and for a shot
\* its whole curve in the slots behind the tree.
Answer ==
    result # NoNode =>
        /\ pc = "idle" /\ rover \in Poses /\ objective \in Objectives
        /\ result \in 1 .. taken - 1
        /\ pool[0].pose = rover
        /\ \A n \in 0 .. taken - 1 : pool[n].pose \in Poses
        /\ \E at \in 1 .. taken, tip \in Slots :
            /\ tip < at
            /\ \A n \in 1 .. at - 1 : Stepped(n)
            /\ \/ /\ result \in 1 .. at - 1
                  /\ pool[result].pose \in Near[objective]
               \/ LET len == Len(Curve[pool[tip].pose][objective])
                  IN  /\ result = at + len - 1 /\ taken = at + len
                      /\ CurveIn(at, tip, len)

\* A step of a pose the search has expanded is of no use, or its bin is visited,
\* or it waits on the list, or its turn comes.
Pursued(p, i) ==
    LET q == Motion[p][Potential[i]]
    IN  \/ q \in Blocked \/ <<q, Potential[i]>> \in Tips \/ Bin[q] \in visited
        \/ \E n \in open : pool[n].pose = q
        \/ pc \in {"aim", "shoot"} /\ p = pool[current].pose
        \/ pc = "expand" /\ p = pool[current].pose /\ i >= next

Frontier ==
    pc # "overrun" /\ ~starved /\ result = NoNode =>
        \A p \in expanded, i \in DOMAIN Potential : Pursued(p, i)

RootFirst == 0 \in open => pc = "search" /\ open = {0} /\ expanded = {}

PathInv ==
    TypeOK /\ Cursor /\ Tree /\ Shooting /\ Answer /\ Frontier /\ RootFirst

-----------------------------------------------------------------------------
(* The pieces a step is made of *)

LEMMA Constants ==
    /\ Straight \in Steerings /\ Potential \in Seq(Steerings)
    /\ \A p \in Poses, s \in Steerings : Motion[p][s] \in Poses /\ Energy[p][s] \in Nat
    /\ Starts \subseteq Poses /\ Objectives \subseteq Poses
    /\ \A p \in Poses, o \in Objectives :
        /\ Estimate[p][o] \in Nat
        /\ Curve[p][o] \in Seq(Steps) /\ Len(Curve[p][o]) \in Nat \ {0}
        /\ Curve[p][o][Len(Curve[p][o])].pose = o
    /\ \A o \in Objectives : o \in Near[o]
    /\ MaxNodes \in Nat \ {0} /\ MaxOpen \in Nat \ {0} /\ MaxSearches \in Nat
    /\ NoPose \notin Poses
<1>1. ASSUME NEW p \in Poses, NEW o \in Objectives
      PROVE  /\ Curve[p][o] \in Seq(Steps) /\ Len(Curve[p][o]) \in Nat \ {0}
             /\ Curve[p][o][Len(Curve[p][o])].pose = o
  <2>1. Curve[p][o] \in Seq(Steps) /\ Curve[p][o] # <<>>
        /\ Curve[p][o][Len(Curve[p][o])].pose = o
    BY PathAssumption
  <2>2. Len(Curve[p][o]) \in Nat /\ Len(Curve[p][o]) # 0
    BY <2>1, EmptySeq, LenProperties
  <2> QED
    BY <2>1, <2>2
<1>2. \A p \in Poses, s \in Steerings : Motion[p][s] \in Poses /\ Energy[p][s] \in Nat
  BY PathAssumption
<1>3. \A p \in Poses, o \in Objectives : Estimate[p][o] \in Nat
  BY PathAssumption
<1> QED
  BY <1>1, <1>2, <1>3, PathAssumption

LEMMA CurveStep ==
    ASSUME NEW p \in Poses, NEW o \in Objectives, NEW j \in 1 .. Len(Curve[p][o])
    PROVE  Curve[p][o][j].pose \in Poses /\ Curve[p][o][j].steer \in Steerings
<1>1. Curve[p][o][j] \in Steps
  BY Constants, ElementOfSeq
<1> QED
  BY <1>1 DEF Steps

LEMMA SteeringStep ==
    ASSUME NEW i \in DOMAIN Potential
    PROVE  Potential[i] \in Steerings
BY Constants, ElementOfSeq, LenProperties

LEMMA ArriveType ==
    ASSUME NEW node \in Nodes, NEW from \in Slots, pool \in [Slots -> Nodes],
           NEW pose \in Poses, NEW steer \in Steerings
    PROVE  /\ Arrive(node, from, pose, steer) \in Nodes
           /\ Arrive(node, from, pose, steer).pose = pose
           /\ Arrive(node, from, pose, steer).parent = from
           /\ Arrive(node, from, pose, steer).cost = pool[from].cost + Energy[pose][steer]
           /\ Arrive(node, from, pose, steer).haven
                 = (node.haven \/ (pose \in Flat /\ steer = Straight))
<1>1. pool[from].cost + Energy[pose][steer] \in Nat
  BY Constants DEF Nodes
<1> QED
  BY <1>1 DEF Arrive, Nodes

LEMMA OpenIsFinite ==
    ASSUME open \subseteq Slots
    PROVE  IsFiniteSet(open) /\ Cardinality(open) \in Nat
<1>1. IsFiniteSet(0 .. MaxNodes - 1)
  BY Constants, FS_Interval
<1> QED
  BY <1>1, FS_Subset, FS_CardinalityType DEF Slots

-----------------------------------------------------------------------------
(* The way back from a node *)

\* The induction principle of the proofs below: a set of numbers has a least one.
LEMMA Least ==
    ASSUME NEW S, S \subseteq Nat, S # {}
    PROVE  \E m \in S : \A k \in S : m <= k
<1>1. PICK m \in S : \A k \in S : ~ (<<k, m>> \in OpToRel(<, Nat))
  BY NatLessThanWellFounded, WFMin
<1>2. ASSUME NEW k \in S PROVE m <= k
  <2>1. k \in Nat /\ m \in Nat
    OBVIOUS
  <2>2. ~(k < m)
    BY <1>1, <2>1 DEF OpToRel
  <2> QED
    BY <2>1, <2>2
<1> QED
  BY <1>2

Before(n) == IF n = NoNode THEN NoNode ELSE pool[n].parent

\* The recursive function Back exists: its values are found one after the other.
LEMMA BackIs ==
    ASSUME pool \in [Slots -> Nodes], result \in Slots \cup {NoNode}
    PROVE  Back[0] = result /\ \A k \in 1 .. MaxNodes : Back[k] = Before(Back[k - 1])
<1> DEFINE Set == Slots \cup {NoNode}
           Way(m, g) == /\ g \in [0 .. m -> Set] /\ g[0] = result
                        /\ \A k \in 1 .. m : g[k] = Before(g[k - 1])
           Short == {m \in Nat : \A g : ~Way(m, g)}
<1>1. \A n \in Set : Before(n) \in Set
  BY DEF Before, Nodes
<1>2. Short = {}
  <2> SUFFICES ASSUME Short # {} PROVE FALSE
    OBVIOUS
  <2>1. PICK m \in Short : \A k \in Short : m <= k
    <3> HIDE DEF Way
    <3>1. Short \subseteq Nat
      OBVIOUS
    <3> HIDE DEF Short
    <3> QED
      BY <3>1, Least
  <2>2. m # 0
    <3>1. Way(0, [k \in 0 .. 0 |-> result])
      OBVIOUS
    <3> QED
      BY <2>1, <3>1
  <2>3. m \in Nat /\ m - 1 \in Nat /\ m - 1 \notin Short
    <3>1. m \in Nat
      BY <2>1
    <3> HIDE DEF Short
    <3> QED
      BY <2>1, <2>2, <3>1
  <2>4. PICK g : Way(m - 1, g)
    <3> HIDE DEF Way
    <3> QED
      BY <2>3
  <2> DEFINE h == [k \in 0 .. m |-> IF k < m THEN g[k] ELSE Before(g[m - 1])]
  <2>5. g[m - 1] \in Set
    <3>1. g \in [0 .. m - 1 -> Set]
      BY <2>4
    <3>2. m - 1 \in 0 .. m - 1
      BY <2>3
    <3> HIDE DEF Short, Way, Set
    <3> QED
      BY <3>1, <3>2
  <2>6. h \in [0 .. m -> Set] /\ h[0] = result
    BY <1>1, <2>2, <2>3, <2>4, <2>5
  <2>7. \A k \in 1 .. m : h[k] = Before(h[k - 1])
    BY <2>3, <2>4
  <2> HIDE DEF h
  <2>8. Way(m, h)
    BY <2>6, <2>7
  <2> QED
    BY <2>1, <2>8
<1>3. PICK g : Way(MaxNodes, g)
  <2>1. MaxNodes \in Nat /\ MaxNodes \notin Short
    BY <1>2, Constants
  <2> HIDE DEF Way
  <2> QED
    BY <2>1
<1>4. g = [k \in 0 .. MaxNodes |->
              IF k = 0 THEN result
              ELSE IF g[k - 1] = NoNode THEN NoNode ELSE pool[g[k - 1]].parent]
  BY <1>3, Constants DEF Before
<1> HIDE DEF Way
<1>5. Back = [k \in 0 .. MaxNodes |->
                 IF k = 0 THEN result
                 ELSE IF Back[k - 1] = NoNode THEN NoNode ELSE pool[Back[k - 1]].parent]
  <2> DEFINE F(f) == [k \in 0 .. MaxNodes |->
                         IF k = 0 THEN result
                         ELSE IF f[k - 1] = NoNode THEN NoNode ELSE pool[f[k - 1]].parent]
  <2>1. \E f : f = F(f)
    BY <1>4
  <2>2. Back = CHOOSE f : f = F(f)
    BY DEF Back
  <2> HIDE DEF F
  <2>3. Back = F(Back)
    BY <2>1, <2>2
  <2> QED
    BY <2>3 DEF F
<1> QED
  BY <1>5, Constants DEF Before

\* A node points to one below it, so the way back from a node ends at the first.
LEMMA WayBack ==
    ASSUME pool \in [Slots -> Nodes], NEW top \in 1 .. MaxNodes,
           result \in 1 .. top - 1,
           \A n \in 1 .. top - 1 : pool[n].parent \in 0 .. n - 1
    PROVE  \E len \in 1 .. MaxNodes :
              /\ len <= result /\ Back[len] = 0
              /\ \A k \in 0 .. len - 1 : Back[k] \in 1 .. result - k
<1>1. MaxNodes \in Nat /\ Slots = 0 .. MaxNodes - 1 /\ NoNode = -1
  BY Constants DEF Slots, NoNode
<1>2. Back[0] = result /\ \A k \in 1 .. MaxNodes : Back[k] = Before(Back[k - 1])
  BY <1>1, BackIs
<1> DEFINE Off == {k \in Nat : Back[k] \notin 1 .. result - k}
<1>3. result \in Off /\ Off \subseteq Nat
  BY <1>1
<1>4. PICK m \in Off : \A k \in Off : m <= k
  <2> HIDE DEF Off
  <2> QED
    BY <1>3, Least
<1>5. m \in Nat /\ m <= result /\ m # 0 /\ Back[m] \notin 1 .. result - m
  BY <1>1, <1>2, <1>3, <1>4
<1>6. \A k \in 0 .. m - 1 : Back[k] \in 1 .. result - k
  BY <1>4, <1>5
<1>7. Back[m] = 0
  <2> DEFINE b == Back[m - 1]
  <2>1. b \in 1 .. result - (m - 1)
    BY <1>5, <1>6
  <2>2. Back[m] = pool[b].parent
    BY <1>1, <1>2, <1>5, <2>1 DEF Before
  <2>3. pool[b].parent \in 0 .. b - 1
    BY <1>1, <1>5, <2>1
  <2> HIDE DEF b
  <2>4. Back[m] \in 0 .. result - m
    BY <1>1, <1>5, <2>1, <2>2, <2>3
  <2> QED
    BY <1>1, <1>5, <2>4
<1> QED
  BY <1>1, <1>5, <1>6, <1>7

\* What the slots say of a returned node is what PathSound says of the way back.
LEMMA AnswerIsSound ==
    ASSUME TypeOK, Answer
    PROVE  PathSound
<1> SUFFICES ASSUME result # NoNode
             PROVE  \E len \in 1 .. MaxNodes, shot \in 0 .. MaxNodes :
                LET pose(k) == pool[Back[k]].pose IN
                /\ Back[len] = 0 /\ pose(len) = rover
                /\ \A k \in 0 .. len - 1 : Back[k] \in 1 .. taken - 1 /\ pose(k) \notin Blocked
                /\ shot \in {0, Len(Curve[pose(shot)][objective])} /\ shot <= len
                /\ \A k \in 0 .. shot - 1 : pose(k) = Curve[pose(shot)][objective][shot - k].pose
                /\ \A k \in shot .. len - 1 : Stepped(Back[k])
                /\ pose(0) \in Near[objective]
  BY DEF PathSound
<1>1. /\ MaxNodes \in Nat /\ Slots = 0 .. MaxNodes - 1 /\ NoNode = -1
      /\ taken \in 0 .. MaxNodes /\ pool \in [Slots -> Nodes]
      /\ result \in Slots \cup {NoNode}
  BY Constants DEF Slots, NoNode, TypeOK
<1>2. /\ rover \in Poses /\ objective \in Objectives /\ result \in 1 .. taken - 1
      /\ pool[0].pose = rover /\ \A n \in 0 .. taken - 1 : pool[n].pose \in Poses
  BY DEF Answer
<1>3. PICK at \in 1 .. taken, tip \in Slots :
        /\ tip < at
        /\ \A n \in 1 .. at - 1 : Stepped(n)
        /\ \/ /\ result \in 1 .. at - 1
              /\ pool[result].pose \in Near[objective]
           \/ LET len == Len(Curve[pool[tip].pose][objective])
              IN  /\ result = at + len - 1 /\ taken = at + len
                  /\ CurveIn(at, tip, len)
  BY DEF Answer
<1>4. \A n \in 1 .. at - 1 : pool[n].parent \in 0 .. n - 1 /\ pool[n].pose \notin Blocked
  BY <1>3 DEF Stepped
<1>5. Back[0] = result /\ \A k \in 1 .. MaxNodes : Back[k] = Before(Back[k - 1])
  BY <1>1, BackIs
<1>6. CASE result \in 1 .. at - 1 /\ pool[result].pose \in Near[objective]
  <2>1. at \in 1 .. MaxNodes
    BY <1>1
  <2>2. PICK len \in 1 .. MaxNodes :
          /\ len <= result /\ Back[len] = 0
          /\ \A k \in 0 .. len - 1 : Back[k] \in 1 .. result - k
    BY <1>1, <1>4, <1>6, <2>1, WayBack
  <2>3. \A k \in 0 .. len - 1 : Back[k] \in 1 .. at - 1
    BY <1>1, <1>6, <2>1, <2>2
  <2>4. /\ pool[Back[len]].pose = rover
        /\ \A k \in 0 .. len - 1 : /\ Back[k] \in 1 .. taken - 1
                                   /\ pool[Back[k]].pose \notin Blocked
                                   /\ Stepped(Back[k])
        /\ pool[Back[0]].pose \in Near[objective]
    BY <1>1, <1>2, <1>3, <1>4, <1>5, <1>6, <2>2, <2>3
  <2>5. 0 \in 0 .. MaxNodes /\ 0 <= len /\ 0 .. 0 - 1 = {}
    BY <1>1
  <2> QED
    BY <2>2, <2>4, <2>5
<1>7. ASSUME NEW L, L = Len(Curve[pool[tip].pose][objective]),
             result = at + L - 1, taken = at + L, CurveIn(at, tip, L)
      PROVE  \E len \in 1 .. MaxNodes, shot \in 0 .. MaxNodes :
                LET pose(k) == pool[Back[k]].pose IN
                /\ Back[len] = 0 /\ pose(len) = rover
                /\ \A k \in 0 .. len - 1 : Back[k] \in 1 .. taken - 1 /\ pose(k) \notin Blocked
                /\ shot \in {0, Len(Curve[pose(shot)][objective])} /\ shot <= len
                /\ \A k \in 0 .. shot - 1 : pose(k) = Curve[pose(shot)][objective][shot - k].pose
                /\ \A k \in shot .. len - 1 : Stepped(Back[k])
                /\ pose(0) \in Near[objective]
  <2>1. pool[tip].pose \in Poses /\ tip \in 0 .. at - 1
    BY <1>1, <1>2, <1>3
  <2>2. /\ L \in Nat \ {0} /\ Curve[pool[tip].pose][objective][L].pose = objective
        /\ objective \in Near[objective] /\ at \in Nat /\ L <= MaxNodes
    <3> DEFINE curve == Curve[pool[tip].pose][objective]
    <3>1. /\ Len(curve) \in Nat \ {0} /\ curve[Len(curve)].pose = objective
          /\ objective \in Near[objective]
      BY <1>2, <2>1, Constants
    <3>2. at \in Nat
      BY <1>1
    <3> HIDE DEF curve
    <3>3. L \in Nat \ {0} /\ curve[L].pose = objective
      BY <1>7, <3>1 DEF curve
    <3>4. L <= MaxNodes
      BY <1>1, <1>7, <3>2, <3>3
    <3> QED
      BY <3>1, <3>2, <3>3, <3>4 DEF curve
  <2>n. /\ at \in Nat /\ L \in Nat /\ at >= 1 /\ L >= 1 /\ MaxNodes \in Nat
        /\ result = at + L - 1 /\ taken = at + L /\ at + L <= MaxNodes
    <3>1. L \in Nat /\ L >= 1 /\ at \in Nat /\ MaxNodes \in Nat
      BY <1>1, <2>2
    <3>2. at >= 1 /\ result = at + L - 1 /\ taken = at + L
      BY <1>7, <3>1
    <3>3. taken <= MaxNodes
      BY <1>1
    <3> QED
      BY <3>1, <3>2, <3>3
  <2>3. \A n \in at .. taken - 1 :
           /\ pool[n].pose = Curve[pool[tip].pose][objective][n - at + 1].pose
           /\ pool[n].parent = IF n = at THEN tip ELSE n - 1
           /\ pool[n].pose \notin Blocked
    <3> SUFFICES ASSUME NEW n \in at .. taken - 1
                 PROVE  /\ pool[n].pose = Curve[pool[tip].pose][objective][n - at + 1].pose
                        /\ pool[n].parent = IF n = at THEN tip ELSE n - 1
                        /\ pool[n].pose \notin Blocked
      OBVIOUS
    <3> DEFINE j == n - at + 1
    <3>1. j \in 1 .. L /\ at + j - 1 = n /\ at + j - 2 = n - 1 /\ (j = 1 <=> n = at)
      BY <1>1, <1>7, <2>2
    <3> HIDE DEF j
    <3>2. /\ pool[at + j - 1].pose = Curve[pool[tip].pose][objective][j].pose
          /\ pool[at + j - 1].parent = IF j = 1 THEN tip ELSE at + j - 2
          /\ pool[at + j - 1].pose \notin Blocked
      BY <1>7, <3>1 DEF CurveIn
    <3> QED
      BY <3>1, <3>2 DEF j
  <2>4. \A n \in 1 .. taken - 1 : pool[n].parent \in 0 .. n - 1 /\ pool[n].pose \notin Blocked
    <3> SUFFICES ASSUME NEW n \in 1 .. taken - 1
                 PROVE  pool[n].parent \in 0 .. n - 1 /\ pool[n].pose \notin Blocked
      OBVIOUS
    <3>1. CASE n < at
      BY <1>1, <1>4, <2>2, <3>1
    <3>2. CASE n >= at
      BY <1>1, <2>1, <2>2, <2>3, <3>2
    <3> QED
      BY <1>1, <2>2, <3>1, <3>2
  <2>5. PICK len \in 1 .. MaxNodes :
          /\ len <= result /\ Back[len] = 0
          /\ \A k \in 0 .. len - 1 : Back[k] \in 1 .. result - k
    <3>1. taken \in 1 .. MaxNodes
      BY <1>1, <1>2
    <3> QED
      BY <1>1, <1>2, <2>4, <3>1, WayBack
  <2>6. \A k \in 0 .. L - 1 : Back[k] = result - k
    <3> DEFINE Off == {k \in Nat : k <= L - 1 /\ Back[k] # result - k}
    <3> SUFFICES Off = {}
      BY <2>2
    <3> SUFFICES ASSUME Off # {} PROVE FALSE
      OBVIOUS
    <3>1. PICK m \in Off : \A k \in Off : m <= k
      <4>1. Off \subseteq Nat
        OBVIOUS
      <4> HIDE DEF Off
      <4> QED
        BY <4>1, Least
    <3>2. m \in Nat /\ m <= L - 1 /\ Back[m] # result - m /\ m # 0
      BY <1>1, <1>2, <1>5, <3>1
    <3>3. Back[m - 1] = result - (m - 1)
      BY <2>2, <3>1, <3>2
    <3> DEFINE n == result - (m - 1)
    <3>4. n \in at .. taken - 1 /\ n # at /\ n # -1 /\ n - 1 = result - m
      BY <2>n, <3>2
    <3>5. m \in 1 .. MaxNodes
      BY <1>1, <2>2, <3>2
    <3>6. Back[m] = pool[n].parent
      BY <1>1, <1>5, <3>3, <3>4, <3>5 DEF Before
    <3> HIDE DEF n
    <3> QED
      BY <2>3, <3>2, <3>4, <3>6
  <2>7. Back[L] = tip
    <3>1. Back[L - 1] = at /\ L \in 1 .. MaxNodes /\ at \in at .. taken - 1 /\ at # -1
      BY <2>n, <2>6
    <3> QED
      BY <1>1, <1>5, <2>3, <3>1 DEF Before
  <2>8. L <= len
    <3> SUFFICES ASSUME len <= L - 1 PROVE FALSE
      BY <2>2
    <3>1. Back[len] = result - len
      BY <2>2, <2>6
    <3> QED
      BY <1>1, <1>7, <2>2, <2>5, <3>1
  <2>9. \A k \in L .. len - 1 : Stepped(Back[k])
    <3> SUFFICES ASSUME NEW k \in L .. len - 1 PROVE Stepped(Back[k])
      OBVIOUS
    <3>1. Back[k] \in 1 .. result - k
      BY <2>2, <2>5
    <3>2. Back[k] \in 1 .. at - 1
      BY <2>n, <3>1
    <3> QED
      BY <1>3, <3>2
  <2>10. \A k \in 0 .. len - 1 : Back[k] \in 1 .. taken - 1 /\ pool[Back[k]].pose \notin Blocked
    <3> SUFFICES ASSUME NEW k \in 0 .. len - 1
                 PROVE  Back[k] \in 1 .. taken - 1 /\ pool[Back[k]].pose \notin Blocked
      OBVIOUS
    <3>1. Back[k] \in 1 .. result - k
      BY <2>5
    <3>2. Back[k] \in 1 .. taken - 1
      BY <1>1, <1>2, <3>1
    <3> QED
      BY <2>4, <3>2
  <2>11. \A k \in 0 .. L - 1 :
            pool[Back[k]].pose = Curve[pool[Back[L]].pose][objective][L - k].pose
    <3> SUFFICES ASSUME NEW k \in 0 .. L - 1
                 PROVE  pool[Back[k]].pose = Curve[pool[tip].pose][objective][L - k].pose
      BY <2>7
    <3>1. /\ Back[k] = result - k /\ result - k \in at .. taken - 1
          /\ (result - k) - at + 1 = L - k
      BY <1>7, <2>2, <2>6
    <3> QED
      BY <2>3, <3>1
  <2>12. pool[Back[0]].pose \in Near[objective]
    <3>1. 0 \in 0 .. L - 1 /\ L - 0 = L
      BY <2>2
    <3>2. pool[Back[0]].pose = Curve[pool[tip].pose][objective][L].pose
      BY <2>7, <2>11, <3>1
    <3> QED
      BY <2>2, <3>2
  <2>13. pool[Back[len]].pose = rover
    BY <1>2, <2>5
  <2>14. L \in {0, Len(Curve[pool[Back[L]].pose][objective])} /\ L \in 0 .. MaxNodes
    BY <1>7, <2>2, <2>7
  <2> QED
    BY <2>5, <2>8, <2>9, <2>10, <2>11, <2>12, <2>13, <2>14
<1> QED
  BY <1>3, <1>6, <1>7

-----------------------------------------------------------------------------
(* What every step of a search starts from, and what keeps the tree *)

LEMMA Basics ==
    ASSUME PathInv, pc # "idle"
    PROVE  /\ MaxNodes \in Nat \ {0} /\ MaxOpen \in Nat \ {0}
           /\ Slots = 0 .. MaxNodes - 1 /\ NoNode = -1
           /\ pool \in [Slots -> Nodes] /\ taken \in 1 .. MaxNodes /\ Limit \in 1 .. taken
           /\ rover \in Poses /\ objective \in Objectives /\ result = NoNode
           /\ open \subseteq 0 .. Limit - 1 /\ IsFiniteSet(open)
           /\ openCount = Cardinality(open) /\ openCount \in 0 .. MaxOpen
           /\ current \in Slots => current \in 0 .. Limit - 1
           /\ \A n \in 0 .. taken - 1 : n \in Slots /\ pool[n].pose \in Poses
           /\ \A n \in open : n \in 0 .. taken - 1 /\ n \in Slots /\ pool[n].pose \in Poses
<1>1. /\ MaxNodes \in Nat \ {0} /\ MaxOpen \in Nat \ {0}
      /\ Slots = 0 .. MaxNodes - 1 /\ NoNode = -1
  BY Constants DEF Slots, NoNode
<1>2. /\ pool \in [Slots -> Nodes] /\ taken \in 0 .. MaxNodes /\ open \subseteq Slots
      /\ openCount \in 0 .. MaxOpen
  BY DEF PathInv, TypeOK
<1>3. /\ rover \in Poses /\ objective \in Objectives /\ result = NoNode
      /\ Limit \in 1 .. taken
      /\ open \cup ({current} \ {NoNode}) \subseteq 0 .. Limit - 1
      /\ openCount = Cardinality(open)
      /\ \A n \in 0 .. taken - 1 : pool[n].pose \in Poses
  BY DEF PathInv, Tree
<1>4. taken \in 1 .. MaxNodes /\ \A n \in 0 .. Limit - 1 : n \in 0 .. taken - 1
  BY <1>1, <1>2, <1>3
<1>5. \A n \in 0 .. taken - 1 : n \in Slots
  BY <1>1, <1>4
<1>6. current \in Slots => current \in 0 .. Limit - 1
  BY <1>1, <1>3
<1>7. IsFiniteSet(open)
  BY <1>2, OpenIsFinite
<1>8. open \subseteq 0 .. Limit - 1
  BY <1>3
<1> QED
  BY <1>1, <1>2, <1>3, <1>4, <1>5, <1>6, <1>7, <1>8

LEMMA SteppedKept ==
    ASSUME UNCHANGED objective, NEW n \in Nat \ {0}, Stepped(n),
           \A m \in 0 .. n : pool'[m] = pool[m]
    PROVE  Stepped(n)'
<1>1. pool[n].parent \in 0 .. n - 1
  BY DEF Stepped
<1>2. pool'[n] = pool[n] /\ pool'[pool[n].parent] = pool[pool[n].parent]
  BY <1>1
<1> QED
  BY <1>2 DEF Stepped

LEMMA HavenKept ==
    ASSUME NEW n \in Nat \ {0}, Stepped(n), HavenIsFlat(n),
           \A m \in 0 .. n : pool'[m] = pool[m]
    PROVE  HavenIsFlat(n)'
<1>1. pool[n].parent \in 0 .. n - 1
  BY DEF Stepped
<1>2. pool'[n] = pool[n] /\ pool'[pool[n].parent] = pool[pool[n].parent]
  BY <1>1
<1> QED
  BY <1>2 DEF HavenIsFlat

LEMMA TreeKept ==
    ASSUME PathInv, pc # "idle", UNCHANGED <<rover, objective, result>>,
           NEW lim \in 1 .. MaxNodes, Limit' = lim, lim <= taken', taken' \in 1 .. MaxNodes,
           \A m \in 0 .. Limit - 1 : m < lim => pool'[m] = pool[m],
           \A m \in Limit .. lim - 1 : Stepped(m)' /\ HavenIsFlat(m)',
           \A m \in 0 .. taken' - 1 : pool'[m].pose \in Poses,
           open' \cup ({current'} \ {NoNode}) \subseteq 0 .. lim - 1,
           openCount' = Cardinality(open')
    PROVE  Tree'
<1>1. /\ MaxNodes \in Nat \ {0} /\ taken \in 1 .. MaxNodes /\ Limit \in 1 .. taken
      /\ rover \in Poses /\ objective \in Objectives /\ result = NoNode
  BY Basics
<1>2. /\ pool[0].pose = rover /\ pool[0].parent = NoNode
      /\ \A n \in 1 .. Limit - 1 : Stepped(n) /\ HavenIsFlat(n)
  BY DEF PathInv, Tree
<1>3. 0 \in 0 .. Limit - 1 /\ 0 < lim /\ lim \in Nat /\ Limit \in Nat
  BY <1>1
<1>4. pool'[0].pose = rover' /\ pool'[0].parent = NoNode
  BY <1>2, <1>3
<1>5. ASSUME NEW n \in 1 .. lim - 1 PROVE Stepped(n)' /\ HavenIsFlat(n)'
  <2>1. CASE n >= Limit
    BY <1>1, <1>3, <2>1
  <2>2. CASE n < Limit
    <3>1. n \in Nat \ {0} /\ \A m \in 0 .. n : pool'[m] = pool[m]
      BY <1>1, <1>3, <2>2
    <3>2. Stepped(n) /\ HavenIsFlat(n)
      BY <1>1, <1>2, <2>2
    <3> QED
      BY <3>1, <3>2, SteppedKept, HavenKept
  <2> QED
    BY <1>1, <1>3, <2>1, <2>2
<1>6. Limit' \in 1 .. taken'
  BY <1>1
<1> QED
  BY <1>1, <1>4, <1>5, <1>6 DEF Tree

-----------------------------------------------------------------------------
(* The steps that take a node from the list *)

LEMMA Taken ==
    ASSUME IsFiniteSet(open), openCount = Cardinality(open), openCount \in 0 .. MaxOpen,
           openCount > 0, NEW n \in open, Take(n)
    PROVE  /\ open' = open \ {n}
           /\ openCount' = Cardinality(open') /\ openCount' \in 0 .. MaxOpen
<1>1. open' = open \ {n} /\ openCount' = openCount - 1
  BY DEF Take
<1>2. Cardinality(open \ {n}) = Cardinality(open) - 1
  BY FS_RemoveElement
<1>3. openCount - 1 \in 0 .. MaxOpen
  BY Constants
<1> QED
  BY <1>1, <1>2, <1>3

LEMMA SkipKeeps ==
    ASSUME PathInv, NEW n \in open, Skip(n)
    PROVE  PathInv'
<1>1. /\ pc = "search" /\ openCount > 0 /\ Visited(n) /\ Take(n)
      /\ UNCHANGED <<pool, taken, visited, pc, current, next, curveAt, rover, objective,
                     searches, result, expanded, starved>>
  BY DEF Skip, memory, cursor, task
<1>b. /\ MaxNodes \in Nat \ {0} /\ MaxOpen \in Nat \ {0} /\ Slots = 0 .. MaxNodes - 1
      /\ pool \in [Slots -> Nodes] /\ taken \in 1 .. MaxNodes /\ Limit \in 1 .. taken
      /\ result = NoNode /\ open \subseteq 0 .. Limit - 1 /\ IsFiniteSet(open)
      /\ openCount = Cardinality(open) /\ openCount \in 0 .. MaxOpen
      /\ \A m \in 0 .. taken - 1 : pool[m].pose \in Poses
  BY <1>1, Basics
<1>c. current = NoNode
  BY <1>1 DEF PathInv, Cursor
<1>2. open' = open \ {n}
  BY <1>1, <1>b, Taken
<1>3. openCount' = Cardinality(open') /\ openCount' \in 0 .. MaxOpen
  BY <1>1, <1>b, Taken
<1>4. TypeOK'
  <2>1. TypeOK /\ open' \subseteq Slots
    BY <1>2 DEF PathInv, TypeOK
  <2> QED
    BY <1>1, <1>3, <2>1 DEF TypeOK
<1>5. Cursor'
  BY <1>1, <1>c DEF Cursor
<1>6. Tree'
  <2>1. Limit' = Limit /\ Limit \in 1 .. MaxNodes /\ Limit <= taken'
    BY <1>1, <1>b DEF Limit
  <2>2. Limit .. Limit - 1 = {}
    BY <1>b
  <2>3. open' \cup ({current'} \ {NoNode}) \subseteq 0 .. Limit - 1
    BY <1>1, <1>2, <1>b, <1>c
  <2> HIDE DEF Limit
  <2> QED
    BY <1>1, <1>3, <1>b, <2>1, <2>2, <2>3, TreeKept
<1>7. Shooting' /\ Answer'
  BY <1>1, <1>b DEF Shooting, Answer
<1>8. Frontier'
  <2> SUFFICES ASSUME ~starved, NEW p \in expanded, NEW i \in DOMAIN Potential
               PROVE  Pursued(p, i)'
    BY <1>1 DEF Frontier
  <2>1. Pursued(p, i)
    BY <1>1, <1>b DEF PathInv, Frontier
  <2>2. \A m \in open : m = n => Bin[pool[m].pose] \in visited
    BY <1>1 DEF Visited
  <2> QED
    BY <1>1, <1>2, <2>1, <2>2 DEF Pursued
<1>9. RootFirst'
  <2>1. 0 \in open => open = {0}
    BY DEF PathInv, RootFirst
  <2>2. 0 \notin open'
    BY <1>2, <2>1
  <2> QED
    BY <2>2 DEF RootFirst
<1> QED
  BY <1>4, <1>5, <1>6, <1>7, <1>8, <1>9 DEF PathInv

LEMMA SelectKeeps ==
    ASSUME PathInv, NEW n \in open, Select(n)
    PROVE  PathInv'
<1>1. /\ pc = "search" /\ openCount > 0 /\ Take(n) /\ Mark(n)
      /\ current' = n /\ expanded' = expanded \cup {pool[n].pose} /\ pc' = "aim"
      /\ UNCHANGED <<pool, taken, next, curveAt, rover, objective, searches, result, starved>>
  BY DEF Select, memory, task
<1>b. /\ MaxNodes \in Nat \ {0} /\ Slots = 0 .. MaxNodes - 1
      /\ pool \in [Slots -> Nodes] /\ taken \in 1 .. MaxNodes /\ Limit \in 1 .. taken
      /\ result = NoNode /\ open \subseteq 0 .. Limit - 1 /\ IsFiniteSet(open)
      /\ openCount = Cardinality(open) /\ openCount \in 0 .. MaxOpen
      /\ \A m \in 0 .. taken - 1 : pool[m].pose \in Poses
      /\ n \in 0 .. taken - 1 /\ n \in Slots /\ pool[n].pose \in Poses
  BY <1>1, Basics
<1>2. /\ open' = open \ {n}
      /\ openCount' = Cardinality(open') /\ openCount' \in 0 .. MaxOpen
  BY <1>1, <1>b, Taken
<1>3. visited' = visited \cup {Bin[pool[n].pose]}
  BY <1>1 DEF Mark
<1>4. TypeOK'
  <2>1. TypeOK /\ open' \subseteq Slots
    BY <1>2 DEF PathInv, TypeOK
  <2>2. visited' \subseteq {Bin[p] : p \in Poses} /\ expanded' \subseteq Poses
    BY <1>1, <1>3, <1>b, <2>1 DEF TypeOK
  <2> QED
    BY <1>1, <1>2, <1>b, <2>1, <2>2 DEF TypeOK
<1>5. Cursor'
  BY <1>1, <1>b DEF Cursor
<1>6. Tree'
  <2>1. Limit' = taken /\ Limit = taken
    BY <1>1 DEF Limit
  <2>2. Limit .. taken - 1 = {}
    BY <1>b, <2>1
  <2>3. open' \cup ({current'} \ {NoNode}) \subseteq 0 .. taken - 1
    BY <1>1, <1>2, <1>b, <2>1
  <2>4. taken \in 1 .. MaxNodes /\ taken <= taken'
    BY <1>1, <1>b
  <2> QED
    BY <1>1, <1>2, <1>b, <2>1, <2>2, <2>3, <2>4, TreeKept
<1>7. Shooting' /\ Answer'
  BY <1>1, <1>b DEF Shooting, Answer
<1>8. Frontier'
  <2> SUFFICES ASSUME ~starved, NEW p \in expanded', NEW i \in DOMAIN Potential
               PROVE  Pursued(p, i)'
    BY <1>1 DEF Frontier
  <2>1. CASE p = pool[n].pose
    BY <1>1, <2>1 DEF Pursued
  <2>2. CASE p \in expanded
    <3>1. Pursued(p, i)
      BY <1>1, <1>b, <2>2 DEF PathInv, Frontier
    <3> QED
      BY <1>1, <1>2, <1>3, <3>1 DEF Pursued
  <2> QED
    BY <1>1, <2>1, <2>2
<1>9. RootFirst'
  <2>1. 0 \in open => open = {0}
    BY DEF PathInv, RootFirst
  <2>2. 0 \notin open'
    BY <1>2, <2>1
  <2> QED
    BY <2>2 DEF RootFirst
<1> QED
  BY <1>4, <1>5, <1>6, <1>7, <1>8, <1>9 DEF PathInv

-----------------------------------------------------------------------------
(* The beginning and the ends of a search *)

LEMMA GiveUpKeeps ==
    ASSUME PathInv, GiveUp
    PROVE  PathInv'
<1>1. /\ pc = "search" /\ openCount = 0 /\ taken' = 0
      /\ result' = NoNode /\ pc' = "idle" /\ open' = {} /\ openCount' = 0
      /\ current' = NoNode /\ next' = 1 /\ curveAt' = 0
      /\ UNCHANGED <<pool, visited, rover, objective, searches, expanded, starved>>
  BY DEF GiveUp, Fail, Return, task
<1>2. open = {}
  BY <1>1, Basics, FS_EmptySet
<1>3. TypeOK'
  <2>1. TypeOK
    BY DEF PathInv
  <2> QED
    BY <1>1, <2>1, Constants DEF TypeOK
<1>4. Cursor' /\ Tree' /\ Shooting' /\ Answer' /\ RootFirst'
  BY <1>1 DEF Cursor, Tree, Shooting, Answer, RootFirst
<1>5. Frontier'
  <2> SUFFICES ASSUME ~starved, NEW p \in expanded, NEW i \in DOMAIN Potential
               PROVE  Pursued(p, i)'
    BY <1>1 DEF Frontier
  <2>1. result = NoNode
    BY <1>1, Basics
  <2>2. Pursued(p, i)
    BY <1>1, <2>1 DEF PathInv, Frontier
  <2> QED
    BY <1>1, <1>2, <2>2 DEF Pursued
<1> QED
  BY <1>3, <1>4, <1>5 DEF PathInv

LEMMA ArrivedKeeps ==
    ASSUME PathInv, NEW n \in open, Arrived(n)
    PROVE  PathInv'
<1>1. /\ pc = "search" /\ pool[n].pose \in Near[objective]
      /\ visited' = visited \cup {Bin[pool[n].pose]}
      /\ pc' = "idle" /\ open' = {} /\ openCount' = 0
      /\ current' = NoNode /\ next' = 1 /\ curveAt' = 0
      /\ UNCHANGED <<pool, rover, objective, searches, expanded, starved>>
      /\ \/ pool[n].parent = NoNode /\ result' = NoNode /\ taken' = 0
         \/ pool[n].parent # NoNode /\ result' = n /\ taken' = taken
  BY DEF Arrived, AtObjective, Mark, Fail, Return, task
<1>b. /\ MaxNodes \in Nat \ {0} /\ Slots = 0 .. MaxNodes - 1 /\ NoNode = -1
      /\ pool \in [Slots -> Nodes] /\ taken \in 1 .. MaxNodes
      /\ rover \in Poses /\ objective \in Objectives
      /\ \A m \in 0 .. taken - 1 : pool[m].pose \in Poses
      /\ n \in 0 .. taken - 1 /\ n \in Slots /\ pool[n].pose \in Poses
  BY <1>1, Basics
<1>t. /\ pool[0].pose = rover /\ pool[0].parent = NoNode
      /\ \A m \in 1 .. taken - 1 : Stepped(m)
  BY <1>1 DEF PathInv, Tree, Limit
<1>2. TypeOK'
  <2>1. TypeOK
    BY DEF PathInv
  <2>2. visited' \subseteq {Bin[p] : p \in Poses}
    BY <1>1, <1>b, <2>1 DEF TypeOK
  <2>3. taken' \in 0 .. MaxNodes /\ result' \in Slots \cup {NoNode}
    BY <1>1, <1>b
  <2> QED
    BY <1>1, <2>1, <2>2, <2>3, Constants DEF TypeOK
<1>3. Cursor' /\ Tree' /\ Shooting' /\ RootFirst'
  BY <1>1 DEF Cursor, Tree, Shooting, RootFirst
<1>4. Answer'
  <2> SUFFICES ASSUME result' # NoNode PROVE Answer'
    BY DEF Answer
  <2>1. /\ n \in 1 .. taken - 1 /\ result' = n /\ taken' = taken
    BY <1>1, <1>b, <1>t
  <2>2. \A m \in 1 .. taken - 1 : Stepped(m)'
    BY <1>1, <1>t DEF Stepped
  <2>3. taken \in 1 .. taken /\ 0 \in Slots /\ 0 < taken
    BY <1>b
  <2>4. result' \in 1 .. taken' - 1 /\ pool'[result'].pose \in Near[objective']
    BY <1>1, <2>1
  <2>5. /\ rover' \in Poses /\ objective' \in Objectives /\ pool'[0].pose = rover'
        /\ \A m \in 0 .. taken' - 1 : pool'[m].pose \in Poses
    BY <1>1, <1>b, <1>t, <2>1
  <2> QED
    BY <1>1, <2>1, <2>2, <2>3, <2>4, <2>5 DEF Answer
<1>5. Frontier'
  <2> SUFFICES ASSUME result' = NoNode PROVE Frontier'
    BY DEF Frontier
  <2>1. pool[n].parent = NoNode
    BY <1>1, <1>b
  <2>2. n = 0
    <3> SUFFICES ASSUME n # 0 PROVE FALSE
      OBVIOUS
    <3>1. n \in 1 .. taken - 1
      BY <1>b
    <3>2. pool[n].parent \in 0 .. n - 1
      BY <1>t, <3>1 DEF Stepped
    <3> QED
      BY <1>b, <2>1, <3>2
  <2>3. expanded = {}
    BY <2>2 DEF PathInv, RootFirst
  <2> QED
    BY <1>1, <2>3 DEF Frontier
<1> QED
  BY <1>2, <1>3, <1>4, <1>5 DEF PathInv

LEMMA CreatePathKeeps ==
    ASSUME PathInv, NEW p \in Starts, NEW o \in Objectives, CreatePath(p, o)
    PROVE  PathInv'
<1> DEFINE root == [pose |-> p, parent |-> NoNode, haven |-> TRUE, cost |-> 0, rank |-> 0]
<1>1. /\ pc = "idle" /\ searches < MaxSearches /\ pool' = [pool EXCEPT ![0] = root]
      /\ taken' = 1 /\ visited' = {} /\ open' = {0} /\ openCount' = 1
      /\ rover' = p /\ objective' = o /\ searches' = searches + 1
      /\ result' = NoNode /\ expanded' = {} /\ starved' = FALSE /\ pc' = "search"
      /\ UNCHANGED <<current, next, curveAt>>
  BY DEF CreatePath, cursor
<1>2. TypeOK /\ current = NoNode
  BY <1>1 DEF PathInv, Cursor
<1>3. /\ MaxNodes \in Nat \ {0} /\ MaxOpen \in Nat \ {0} /\ MaxSearches \in Nat
      /\ Slots = 0 .. MaxNodes - 1 /\ NoNode = -1 /\ p \in Poses
  BY Constants DEF Slots, NoNode
<1>4. root \in Nodes /\ root.pose = p /\ root.parent = NoNode
  BY <1>3 DEF Nodes
<1> HIDE DEF root
<1>5. 0 \in Slots /\ pool \in [Slots -> Nodes]
  BY <1>2, <1>3 DEF TypeOK
<1>6. pool' \in [Slots -> Nodes] /\ pool'[0] = root
  BY <1>1, <1>4, <1>5
<1>7. TypeOK'
  <2>1. taken' \in 0 .. MaxNodes /\ openCount' \in 0 .. MaxOpen /\ open' \subseteq Slots
    BY <1>1, <1>3, <1>5
  <2>2. searches' \in 0 .. MaxSearches
    BY <1>1, <1>2, <1>3 DEF TypeOK
  <2> QED
    BY <1>1, <1>2, <1>3, <1>6, <2>1, <2>2 DEF TypeOK
<1>8. Cursor'
  BY <1>1, <1>2 DEF Cursor
<1>9. Tree'
  <2>1. Limit' = 1
    BY <1>1 DEF Limit
  <2>2. openCount' = Cardinality(open')
    BY <1>1, FS_Singleton
  <2>3. open' \cup ({current'} \ {NoNode}) \subseteq 0 .. Limit' - 1
    BY <1>1, <1>2, <2>1
  <2>4. \A n \in 0 .. taken' - 1 : pool'[n].pose \in Poses
    BY <1>1, <1>3, <1>4, <1>6
  <2>5. 1 .. Limit' - 1 = {} /\ Limit' \in 1 .. taken'
    BY <1>1, <2>1
  <2> QED
    BY <1>1, <1>3, <1>4, <1>6, <2>2, <2>3, <2>4, <2>5 DEF Tree
<1>10. Shooting' /\ Answer' /\ Frontier' /\ RootFirst'
  BY <1>1 DEF Shooting, Answer, Frontier, RootFirst
<1> QED
  BY <1>7, <1>8, <1>9, <1>10 DEF PathInv

-----------------------------------------------------------------------------
(* The shot along a curve *)

LEMMA RootIsGone ==
    ASSUME PathInv, pc # "search"
    PROVE  0 \notin open
BY DEF PathInv, RootFirst

LEMMA ShotFacts ==
    ASSUME PathInv, pc \in {"aim", "shoot", "expand"}
    PROVE  /\ current \in 0 .. Limit - 1 /\ current \in Slots /\ current # NoNode
           /\ pool[current].pose \in Poses
           /\ Shot \in Seq(Steps) /\ Len(Shot) \in Nat \ {0}
           /\ Shot[Len(Shot)].pose = objective
           /\ \A j \in 1 .. Len(Shot) : Shot[j].pose \in Poses /\ Shot[j].steer \in Steerings
<1>1. current \in Slots
  BY DEF PathInv, Cursor
<1>b. /\ Limit \in 1 .. taken /\ taken \in 1 .. MaxNodes /\ MaxNodes \in Nat
      /\ Slots = 0 .. MaxNodes - 1 /\ NoNode = -1
      /\ objective \in Objectives /\ current \in 0 .. Limit - 1
      /\ \A n \in 0 .. taken - 1 : pool[n].pose \in Poses
  BY <1>1, Basics
<1>2. current \in 0 .. taken - 1 /\ current # NoNode
  BY <1>b
<1>3. pool[current].pose \in Poses
  BY <1>b, <1>2
<1>4. /\ Shot \in Seq(Steps) /\ Len(Shot) \in Nat \ {0}
      /\ Shot[Len(Shot)].pose = objective
  BY <1>3, <1>b, Constants DEF Shot
<1>5. \A j \in 1 .. Len(Shot) : Shot[j].pose \in Poses /\ Shot[j].steer \in Steerings
  BY <1>3, <1>b, CurveStep DEF Shot
<1> QED
  BY <1>1, <1>2, <1>3, <1>4, <1>5, <1>b

LEMMA AimKeeps ==
    ASSUME PathInv, Aim
    PROVE  PathInv'
<1>1. /\ pc = "aim" /\ pc' = (IF Clear THEN "shoot" ELSE "expand")
      /\ next' = 1 /\ curveAt' = taken
      /\ UNCHANGED <<pool, taken, visited, open, openCount, current, rover, objective,
                     searches, result, expanded, starved>>
  BY DEF Aim, memory, list, task
<1>b. /\ MaxNodes \in Nat \ {0} /\ Slots = 0 .. MaxNodes - 1
      /\ pool \in [Slots -> Nodes] /\ taken \in 1 .. MaxNodes /\ Limit \in 1 .. taken
      /\ result = NoNode /\ open \subseteq 0 .. Limit - 1
      /\ openCount = Cardinality(open)
      /\ \A m \in 0 .. taken - 1 : pool[m].pose \in Poses
  BY <1>1, Basics
<1>s. /\ current \in 0 .. Limit - 1 /\ current \in Slots /\ Len(Shot) \in Nat \ {0}
  BY <1>1, ShotFacts
<1>2. TypeOK'
  <2>1. TypeOK
    BY DEF PathInv
  <2>2. taken \in 0 .. MaxNodes /\ pc' \in {"shoot", "expand"}
    BY <1>1, <1>b
  <2> QED
    BY <1>1, <2>1, <2>2 DEF TypeOK
<1>3. Cursor'
  BY <1>1, <1>s DEF Cursor
<1>4. Tree'
  <2>1. Limit' = taken /\ Limit = taken
    BY <1>1 DEF Limit
  <2>2. Limit .. taken - 1 = {}
    BY <1>b, <2>1
  <2>3. open' \cup ({current'} \ {NoNode}) \subseteq 0 .. taken - 1
    BY <1>1, <1>b, <1>s, <2>1
  <2>4. taken \in 1 .. MaxNodes /\ taken <= taken'
    BY <1>1, <1>b
  <2> QED
    BY <1>1, <1>b, <2>1, <2>2, <2>3, <2>4, TreeKept
<1>5. Shooting'
  <2> SUFFICES ASSUME Clear PROVE Shooting'
    BY <1>1 DEF Shooting
  <2>1. Shot' = Shot /\ Clear'
    BY <1>1 DEF Shot, Clear
  <2>2. next' <= Len(Shot') /\ taken' = curveAt' + next' - 1 /\ next' - 1 = 0
    BY <1>1, <1>b, <1>s, <2>1
  <2>3. CurveIn(curveAt, current, next - 1)'
    BY <2>2 DEF CurveIn
  <2> QED
    BY <2>1, <2>2, <2>3 DEF Shooting
<1>6. Answer'
  BY <1>1, <1>b DEF Answer
<1>7. Frontier'
  <2> SUFFICES ASSUME ~starved, NEW p \in expanded, NEW i \in DOMAIN Potential
               PROVE  Pursued(p, i)'
    BY <1>1 DEF Frontier
  <2>1. Pursued(p, i)
    BY <1>1, <1>b DEF PathInv, Frontier
  <2>2. i >= 1
    BY Constants, LenProperties
  <2> QED
    BY <1>1, <2>1, <2>2 DEF Pursued
<1>8. RootFirst'
  BY <1>1, RootIsGone DEF RootFirst
<1> QED
  BY <1>2, <1>3, <1>4, <1>5, <1>6, <1>7, <1>8 DEF PathInv

LEMMA ShootFacts ==
    ASSUME PathInv, pc = "shoot"
    PROVE  /\ Clear /\ next \in 1 .. Len(Shot) /\ curveAt = Limit
           /\ curveAt \in 1 .. taken /\ taken = curveAt + next - 1
           /\ CurveIn(curveAt, current, next - 1)
           /\ current \in 0 .. curveAt - 1
<1>1. /\ Clear /\ next <= Len(Shot) /\ taken = curveAt + next - 1
      /\ CurveIn(curveAt, current, next - 1)
  BY DEF PathInv, Shooting
<1>2. next \in Nat \ {0} /\ curveAt = Limit
  BY DEF PathInv, TypeOK, Limit
<1>3. Limit \in 1 .. taken /\ current \in 0 .. Limit - 1 /\ Len(Shot) \in Nat
  BY Basics, ShotFacts
<1> QED
  BY <1>1, <1>2, <1>3

\* An abandoned curve leaves the tree as it was before the first of its nodes.
LEMMA AbandonKeeps ==
    ASSUME PathInv, pc = "shoot", pool' \in [Slots -> Nodes],
           \A m \in 0 .. curveAt - 1 : pool'[m] = pool[m],
           taken' = curveAt, pc' = "expand", next' = 1,
           UNCHANGED <<visited, open, openCount, current, curveAt, rover, objective,
                       searches, result, expanded>>,
           starved' = starved \/ starved' = TRUE
    PROVE  PathInv'
<1>b. /\ MaxNodes \in Nat \ {0} /\ Slots = 0 .. MaxNodes - 1 /\ taken \in 1 .. MaxNodes
      /\ result = NoNode /\ open \subseteq 0 .. Limit - 1
      /\ openCount = Cardinality(open)
      /\ \A m \in 0 .. taken - 1 : pool[m].pose \in Poses
  BY Basics
<1>s. /\ curveAt = Limit /\ curveAt \in 1 .. taken /\ current \in 0 .. curveAt - 1
      /\ current \in Slots
  BY ShootFacts, ShotFacts
<1>1. TypeOK'
  <2>1. TypeOK
    BY DEF PathInv
  <2>2. taken' \in 0 .. MaxNodes /\ starved' \in BOOLEAN
    BY <1>b, <1>s, <2>1 DEF TypeOK
  <2> QED
    BY <2>1, <2>2 DEF TypeOK
<1>2. Cursor'
  BY <1>s DEF Cursor
<1>3. Tree'
  <2>1. Limit' = curveAt
    BY DEF Limit
  <2>2. curveAt \in 1 .. MaxNodes /\ curveAt <= taken' /\ taken' \in 1 .. MaxNodes
    BY <1>b, <1>s
  <2>3. Limit .. curveAt - 1 = {}
    BY <1>b, <1>s
  <2>4. open' \cup ({current'} \ {NoNode}) \subseteq 0 .. curveAt - 1
    BY <1>b, <1>s
  <2>5. \A m \in 0 .. taken' - 1 : pool'[m].pose \in Poses
    BY <1>b, <1>s
  <2>6. \A m \in 0 .. Limit - 1 : m < curveAt => pool'[m] = pool[m]
    BY <1>s
  <2> QED
    BY <1>b, <2>1, <2>2, <2>3, <2>4, <2>5, <2>6, TreeKept
<1>4. Shooting' /\ Answer'
  BY <1>b DEF Shooting, Answer
<1>5. Frontier'
  <2> SUFFICES ASSUME ~starved, NEW p \in expanded, NEW i \in DOMAIN Potential
               PROVE  Pursued(p, i)'
    BY DEF Frontier
  <2>1. Pursued(p, i)
    BY <1>b DEF PathInv, Frontier
  <2>2. i >= 1
    BY Constants, LenProperties
  <2>3. pool'[current] = pool[current] /\ \A n \in open : pool'[n] = pool[n]
    BY <1>b, <1>s
  <2> QED
    BY <2>1, <2>2, <2>3 DEF Pursued
<1>6. RootFirst'
  BY RootIsGone DEF RootFirst
<1> QED
  BY <1>1, <1>2, <1>3, <1>4, <1>5, <1>6 DEF PathInv

LEMMA ShootStarvedKeeps ==
    ASSUME PathInv, ShootStarved
    PROVE  PathInv'
<1>1. /\ pc = "shoot" /\ starved' = TRUE /\ Rollback(taken, curveAt)
      /\ pc' = "expand" /\ next' = 1
      /\ UNCHANGED <<pool, visited, open, openCount, current, curveAt, rover, objective,
                     searches, result, expanded>>
  BY DEF ShootStarved, Abandon, list, task
<1>2. curveAt \in 1 .. taken /\ taken \in 1 .. MaxNodes /\ MaxNodes \in Nat
  BY <1>1, ShootFacts, Basics
<1>3. taken' = curveAt
  BY <1>1, <1>2 DEF Rollback
<1>4. pool' \in [Slots -> Nodes]
  BY <1>1 DEF PathInv, TypeOK
<1> QED
  BY <1>1, <1>3, <1>4, AbandonKeeps

LEMMA ShootTipsKeeps ==
    ASSUME PathInv, ShootTips
    PROVE  PathInv'
<1>1. /\ pc = "shoot" /\ CanTake /\ Rollback(taken + 1, curveAt)
      /\ pool' = [pool EXCEPT ![taken].pose = Shot[next].pose, ![taken].parent = Tip]
      /\ pc' = "expand" /\ next' = 1
      /\ UNCHANGED <<visited, open, openCount, current, curveAt, rover, objective,
                     searches, result, expanded, starved>>
  BY DEF ShootTips, Abandon, list, task
<1>2. /\ curveAt \in 1 .. taken /\ taken \in 1 .. MaxNodes /\ MaxNodes \in Nat
      /\ Slots = 0 .. MaxNodes - 1 /\ current \in Slots
      /\ next \in 1 .. Len(Shot) /\ Shot[next].pose \in Poses
  BY <1>1, ShootFacts, ShotFacts, Basics
<1>3. taken' = curveAt
  BY <1>1, <1>2 DEF Rollback
<1>4. taken \in Slots /\ Tip \in Slots
  BY <1>1, <1>2 DEF CanTake, Tip
<1>5. pool \in [Slots -> Nodes]
  BY DEF PathInv, TypeOK
<1>6. pool' \in [Slots -> Nodes]
  <2>1. [pool[taken] EXCEPT !.pose = Shot[next].pose, !.parent = Tip] \in Nodes
    BY <1>2, <1>4, <1>5 DEF Nodes
  <2>2. pool' = [pool EXCEPT ![taken] =
                    [pool[taken] EXCEPT !.pose = Shot[next].pose, !.parent = Tip]]
    BY <1>1, <1>4, <1>5
  <2> QED
    BY <1>5, <2>1, <2>2
<1>7. \A m \in 0 .. curveAt - 1 : pool'[m] = pool[m]
  BY <1>1, <1>2, <1>5
<1> QED
  BY <1>1, <1>3, <1>6, <1>7, AbandonKeeps

\* One more node of the curve, in the slot after those it has.
LEMMA CurveGrows ==
    ASSUME PathInv, pc = "shoot", CanTake, UNCHANGED objective,
           pool' = [pool EXCEPT ![taken] = ShotNode]
    PROVE  /\ pool' \in [Slots -> Nodes] /\ taken \in Slots
           /\ pool'[taken].pose \in Poses
           /\ \A m \in 0 .. taken - 1 : pool'[m] = pool[m]
           /\ \A at, tip, k : at = curveAt /\ tip = current /\ k = next => CurveIn(at, tip, k)'
<1>1. /\ Clear /\ next \in 1 .. Len(Shot) /\ curveAt \in 1 .. taken
      /\ taken = curveAt + next - 1 /\ CurveIn(curveAt, current, next - 1)
      /\ current \in 0 .. curveAt - 1
  BY ShootFacts
<1>2. /\ current \in Slots /\ Len(Shot) \in Nat \ {0}
      /\ Shot[next].pose \in Poses /\ Shot[next].steer \in Steerings
      /\ Shot \in Seq(Steps)
  BY <1>1, ShotFacts
<1>3. /\ MaxNodes \in Nat \ {0} /\ Slots = 0 .. MaxNodes - 1 /\ taken \in 1 .. MaxNodes
      /\ pool \in [Slots -> Nodes]
  BY Basics
<1>4. taken \in Slots /\ Tip \in Slots /\ pool[taken] \in Nodes
  BY <1>2, <1>3 DEF CanTake, Tip
<1>5. /\ ShotNode \in Nodes /\ ShotNode.pose = Shot[next].pose /\ ShotNode.parent = Tip
  BY <1>2, <1>3, <1>4, ArriveType DEF ShotNode
<1>6. /\ pool' \in [Slots -> Nodes] /\ pool'[taken] = ShotNode
      /\ \A m \in 0 .. taken - 1 : pool'[m] = pool[m]
  BY <1>3, <1>4, <1>5
<1>7. ASSUME NEW at, NEW tip, NEW k, at = curveAt, tip = current, k = next
      PROVE  CurveIn(at, tip, k)'
  <2> DEFINE curve == Curve[pool[current].pose][objective]
  <2>1. curve = Shot /\ Curve[pool'[tip].pose][objective'] = curve
    BY <1>1, <1>3, <1>6, <1>7 DEF Shot
  <2> HIDE DEF curve
  <2>2. ASSUME NEW j \in 1 .. k
        PROVE  /\ pool'[at + j - 1].pose = curve[j].pose
               /\ pool'[at + j - 1].parent = IF j = 1 THEN tip ELSE at + j - 2
               /\ pool'[at + j - 1].pose \notin Blocked
    <3>1. CASE j = next
      <4>1. at + j - 1 = taken /\ (j # 1 => at + j - 2 = taken - 1)
        BY <1>1, <1>2, <1>3, <1>7, <3>1
      <4>2. Tip = IF j = 1 THEN tip ELSE at + j - 2
        BY <1>7, <3>1, <4>1 DEF Tip
      <4>3. Shot[next].pose \notin Blocked
        <5>1. DOMAIN Shot = 1 .. Len(Shot)
          BY <1>2, LenProperties
        <5> QED
          BY <1>1, <5>1 DEF Clear
      <4> QED
        BY <1>5, <1>6, <2>1, <3>1, <4>1, <4>2, <4>3
    <3>2. CASE j # next
      <4>1. j \in 1 .. next - 1 /\ at + j - 1 \in 0 .. taken - 1
        BY <1>1, <1>2, <1>3, <1>7, <3>2
      <4>2. /\ pool[at + j - 1].pose = Curve[pool[current].pose][objective][j].pose
            /\ pool[at + j - 1].parent = IF j = 1 THEN tip ELSE at + j - 2
            /\ pool[at + j - 1].pose \notin Blocked
        BY <1>1, <1>7, <4>1 DEF CurveIn
      <4> QED
        BY <1>6, <4>1, <4>2 DEF curve
    <3> QED
      BY <3>1, <3>2
  <2> QED
    BY <2>1, <2>2 DEF CurveIn
<1> QED
  BY <1>2, <1>4, <1>5, <1>6, <1>7

LEMMA ShootStepKeeps ==
    ASSUME PathInv, ShootStep
    PROVE  PathInv'
<1>1. /\ pc = "shoot" /\ CanTake /\ next < Len(Shot)
      /\ pool' = [pool EXCEPT ![taken] = ShotNode]
      /\ taken' = taken + 1 /\ next' = next + 1
      /\ UNCHANGED <<visited, open, openCount, pc, current, curveAt, rover, objective,
                     searches, result, expanded, starved>>
  BY DEF ShootStep, list, task
<1>c. /\ pool' \in [Slots -> Nodes] /\ pool'[taken].pose \in Poses
      /\ \A m \in 0 .. taken - 1 : pool'[m] = pool[m]
      /\ CurveIn(curveAt, current, next - 1)'
  <2>1. /\ pool' \in [Slots -> Nodes] /\ pool'[taken].pose \in Poses
        /\ \A m \in 0 .. taken - 1 : pool'[m] = pool[m]
        /\ \A at, tip, k : at = curveAt /\ tip = current /\ k = next => CurveIn(at, tip, k)'
    BY <1>1, CurveGrows
  <2>2. next' - 1 = next
    BY <1>1 DEF PathInv, TypeOK
  <2> QED
    BY <1>1, <2>1, <2>2 DEF CurveIn
<1>b. /\ MaxNodes \in Nat \ {0} /\ Slots = 0 .. MaxNodes - 1 /\ taken \in 1 .. MaxNodes
      /\ result = NoNode /\ open \subseteq 0 .. Limit - 1
      /\ openCount = Cardinality(open)
      /\ \A m \in 0 .. taken - 1 : pool[m].pose \in Poses
  BY <1>1, Basics
<1>s. /\ Clear /\ next \in 1 .. Len(Shot) /\ curveAt = Limit /\ curveAt \in 1 .. taken
      /\ taken = curveAt + next - 1
      /\ current \in 0 .. curveAt - 1 /\ current \in Slots /\ Len(Shot) \in Nat
  BY <1>1, ShootFacts, ShotFacts
<1>t. taken' \in 1 .. MaxNodes
  BY <1>1, <1>b DEF CanTake
<1>2. TypeOK'
  <2>1. TypeOK
    BY DEF PathInv
  <2>2. taken' \in 0 .. MaxNodes /\ next' \in Nat \ {0}
    BY <1>1, <1>b, <1>t, <2>1 DEF TypeOK
  <2> QED
    BY <1>1, <1>c, <2>1, <2>2 DEF TypeOK
<1>3. Cursor'
  BY <1>1, <1>s DEF Cursor
<1>4. Tree'
  <2>1. Limit' = curveAt
    BY <1>1 DEF Limit
  <2>2. curveAt \in 1 .. MaxNodes /\ curveAt <= taken'
    BY <1>1, <1>b, <1>s
  <2>3. Limit .. curveAt - 1 = {}
    BY <1>b, <1>s
  <2>4. open' \cup ({current'} \ {NoNode}) \subseteq 0 .. curveAt - 1
    BY <1>1, <1>b, <1>s
  <2>5. \A m \in 0 .. taken' - 1 : pool'[m].pose \in Poses
    BY <1>1, <1>b, <1>c
  <2>6. \A m \in 0 .. Limit - 1 : m < curveAt => pool'[m] = pool[m]
    BY <1>b, <1>c, <1>s
  <2> QED
    BY <1>1, <1>b, <1>t, <2>1, <2>2, <2>3, <2>4, <2>5, <2>6, TreeKept
<1>p. pool'[current] = pool[current] /\ \A n \in open : pool'[n] = pool[n]
  BY <1>b, <1>c, <1>s
<1>5. Shooting'
  <2>1. Shot' = Shot
    BY <1>1, <1>p DEF Shot
  <2>2. Clear'
    BY <1>s, <2>1 DEF Clear
  <2>3. next' <= Len(Shot') /\ taken' = curveAt' + next' - 1
    BY <1>1, <1>b, <1>s, <2>1
  <2> QED
    BY <1>c, <2>2, <2>3 DEF Shooting
<1>6. Answer'
  BY <1>1, <1>b DEF Answer
<1>7. Frontier'
  <2> SUFFICES ASSUME ~starved, NEW p \in expanded, NEW i \in DOMAIN Potential
               PROVE  Pursued(p, i)'
    BY <1>1 DEF Frontier
  <2>1. Pursued(p, i)
    BY <1>1, <1>b DEF PathInv, Frontier
  <2> QED
    BY <1>1, <1>p, <2>1 DEF Pursued
<1>8. RootFirst'
  BY <1>1, RootIsGone DEF RootFirst
<1> QED
  BY <1>2, <1>3, <1>4, <1>5, <1>6, <1>7, <1>8 DEF PathInv

LEMMA ShootHomeKeeps ==
    ASSUME PathInv, ShootHome
    PROVE  PathInv'
<1>1. /\ pc = "shoot" /\ CanTake /\ next = Len(Shot)
      /\ pool' = [pool EXCEPT ![taken] = ShotNode]
      /\ taken' = taken + 1 /\ result' = taken /\ pc' = "idle"
      /\ open' = {} /\ openCount' = 0 /\ current' = NoNode /\ next' = 1 /\ curveAt' = 0
      /\ UNCHANGED <<visited, rover, objective, searches, expanded, starved>>
  BY DEF ShootHome, Return, task
<1>c. /\ pool' \in [Slots -> Nodes] /\ taken \in Slots /\ pool'[taken].pose \in Poses
      /\ \A m \in 0 .. taken - 1 : pool'[m] = pool[m]
      /\ \A at, tip, k : at = curveAt /\ tip = current /\ k = next => CurveIn(at, tip, k)'
  BY <1>1, CurveGrows
<1>b. /\ MaxNodes \in Nat \ {0} /\ Slots = 0 .. MaxNodes - 1 /\ NoNode = -1
      /\ taken \in 1 .. MaxNodes /\ rover \in Poses /\ objective \in Objectives
      /\ \A m \in 0 .. taken - 1 : pool[m].pose \in Poses
  BY <1>1, Basics
<1>s. /\ next \in 1 .. Len(Shot) /\ curveAt = Limit /\ curveAt \in 1 .. taken
      /\ taken = curveAt + next - 1
      /\ current \in 0 .. curveAt - 1 /\ current \in Slots /\ Len(Shot) \in Nat
  BY <1>1, ShootFacts, ShotFacts
<1>2. TypeOK'
  <2>1. TypeOK
    BY DEF PathInv
  <2>2. taken' \in 0 .. MaxNodes /\ result' \in Slots
    BY <1>1, <1>b, <1>c DEF CanTake
  <2> QED
    BY <1>1, <1>c, <2>1, <2>2, Constants DEF TypeOK
<1>3. Cursor' /\ Tree' /\ Shooting' /\ RootFirst'
  BY <1>1 DEF Cursor, Tree, Shooting, RootFirst
<1>4. Frontier'
  <2>1. result' # NoNode
    BY <1>1, <1>b
  <2> QED
    BY <2>1 DEF Frontier
<1>5. Answer'
  <2>1. /\ pool[0].pose = rover /\ \A n \in 1 .. curveAt - 1 : Stepped(n)
    BY <1>1, <1>s DEF PathInv, Tree
  <2>2. rover' \in Poses /\ objective' \in Objectives /\ result' \in 1 .. taken' - 1
        /\ pool'[0].pose = rover'
    BY <1>1, <1>b, <1>c, <2>1
  <2>3. \A n \in 0 .. taken' - 1 : pool'[n].pose \in Poses
    BY <1>1, <1>b, <1>c
  <2>4. \A n \in 1 .. curveAt - 1 : Stepped(n)'
    <3> SUFFICES ASSUME NEW n \in 1 .. curveAt - 1 PROVE Stepped(n)'
      OBVIOUS
    <3>1. n \in Nat \ {0} /\ \A m \in 0 .. n : pool'[m] = pool[m]
      BY <1>b, <1>c, <1>s
    <3> QED
      BY <1>1, <2>1, <3>1, SteppedKept
  <2>p. pool'[current] = pool[current] /\ objective' = objective
    BY <1>1, <1>b, <1>c, <1>s
  <2>5. /\ Len(Curve[pool'[current].pose][objective']) = next
        /\ result' = curveAt + next - 1 /\ taken' = curveAt + next
    BY <1>1, <1>b, <1>s, <2>p DEF Shot
  <2>q. curveAt \in 1 .. taken' /\ current \in Slots /\ next \in Nat
    BY <1>1, <1>b, <1>s
  <2>r. PICK at \in 1 .. taken', tip \in Slots, k \in Nat :
                at = curveAt /\ tip = current /\ k = next
    BY <2>q, Zenon
  <2>6. /\ tip < at /\ k = Len(Curve[pool'[tip].pose][objective'])
        /\ result' = at + k - 1 /\ taken' = at + k /\ CurveIn(at, tip, k)'
        /\ \A n \in 1 .. at - 1 : Stepped(n)'
    BY <1>b, <1>c, <1>s, <2>4, <2>5, <2>r
  <2>7. (LET len == Len(Curve[pool[tip].pose][objective])
         IN  result = at + len - 1 /\ taken = at + len /\ CurveIn(at, tip, len))'
    BY <2>6 DEF CurveIn
  <2>8. (\E a \in 1 .. taken, b \in Slots :
            /\ b < a
            /\ \A n \in 1 .. a - 1 : Stepped(n)
            /\ LET len == Len(Curve[pool[b].pose][objective])
               IN  /\ result = a + len - 1 /\ taken = a + len
                   /\ CurveIn(a, b, len))'
    BY <2>6, <2>7
  <2> QED
    BY <1>1, <2>2, <2>3, <2>8 DEF Answer
<1> QED
  BY <1>2, <1>3, <1>4, <1>5 DEF PathInv

LEMMA ExpandFacts ==
    ASSUME PathInv, pc = "expand", next <= Len(Potential)
    PROVE  /\ Limit = taken /\ current \in 0 .. taken - 1 /\ current \in Slots
           /\ next \in DOMAIN Potential /\ next \in Nat \ {0}
           /\ Steer \in Steerings /\ Ahead \in Poses
           /\ \A i \in DOMAIN Potential : i \in Nat
<1>1. Limit = taken /\ next \in Nat \ {0}
  BY DEF Limit, PathInv, TypeOK
<1>2. DOMAIN Potential = 1 .. Len(Potential) /\ Len(Potential) \in Nat
  BY Constants, LenProperties
<1>3. next \in DOMAIN Potential /\ \A i \in DOMAIN Potential : i \in Nat
  BY <1>1, <1>2
<1>4. /\ current \in 0 .. taken - 1 /\ current \in Slots /\ pool[current].pose \in Poses
  BY <1>1, ShotFacts
<1>5. Steer \in Steerings
  BY <1>3, SteeringStep DEF Steer
<1>6. Ahead \in Poses
  BY <1>4, <1>5, Constants DEF Ahead
<1> QED
  BY <1>1, <1>3, <1>4, <1>5, <1>6

\* A step of no use leaves the tree as it was, and is no way to go on.
LEMMA UselessKeeps ==
    ASSUME PathInv, pc = "expand", next <= Len(Potential), pool' \in [Slots -> Nodes],
           \A m \in 0 .. taken - 1 : pool'[m] = pool[m],
           UNCHANGED <<taken, visited, open, openCount, pc, current, curveAt, rover,
                       objective, searches, result, expanded>>,
           next' = next + 1, starved' \in BOOLEAN, starved => starved',
           starved' \/ Ahead \in Blocked \/ <<Ahead, Steer>> \in Tips
    PROVE  PathInv'
<1>b. /\ MaxNodes \in Nat \ {0} /\ Slots = 0 .. MaxNodes - 1 /\ taken \in 1 .. MaxNodes
      /\ result = NoNode /\ open \subseteq 0 .. Limit - 1
      /\ openCount = Cardinality(open)
      /\ \A m \in 0 .. taken - 1 : pool[m].pose \in Poses
  BY Basics
<1>s. /\ Limit = taken /\ current \in 0 .. taken - 1 /\ next \in Nat \ {0}
      /\ \A i \in DOMAIN Potential : i \in Nat
  BY ExpandFacts
<1>1. TypeOK'
  <2>1. TypeOK /\ next' \in Nat \ {0}
    BY <1>s DEF PathInv
  <2> QED
    BY <2>1 DEF TypeOK
<1>2. Cursor'
  BY DEF PathInv, Cursor
<1>3. Tree'
  <2>1. Limit' = taken /\ Limit .. taken - 1 = {}
    BY <1>b, <1>s DEF Limit
  <2>2. open' \cup ({current'} \ {NoNode}) \subseteq 0 .. taken - 1
    BY <1>b, <1>s
  <2>3. \A m \in 0 .. taken' - 1 : pool'[m].pose \in Poses
    BY <1>b, <1>s
  <2> QED
    BY <1>b, <1>s, <2>1, <2>2, <2>3, TreeKept
<1>4. Shooting' /\ Answer'
  BY <1>b DEF Shooting, Answer
<1>5. Frontier'
  <2> SUFFICES ASSUME ~starved', NEW p \in expanded, NEW i \in DOMAIN Potential
               PROVE  Pursued(p, i)'
    BY DEF Frontier
  <2>1. Pursued(p, i)
    BY <1>b DEF PathInv, Frontier
  <2>2. pool'[current] = pool[current] /\ \A n \in open : pool'[n] = pool[n]
    BY <1>b, <1>s
  <2>3. i >= next => i = next \/ i >= next'
    BY <1>s
  <2>4. CASE p = pool[current].pose /\ i = next
    BY <2>4 DEF Ahead, Steer, Pursued
  <2>5. CASE ~(p = pool[current].pose /\ i = next)
    BY <2>1, <2>2, <2>3, <2>5 DEF Pursued
  <2> QED
    BY <2>4, <2>5
<1>6. RootFirst'
  BY RootIsGone DEF RootFirst
<1> QED
  BY <1>1, <1>2, <1>3, <1>4, <1>5, <1>6 DEF PathInv

LEMMA ExpandStarvedKeeps ==
    ASSUME PathInv, ExpandStarved
    PROVE  PathInv'
<1>1. /\ pc = "expand" /\ next <= Len(Potential) /\ starved' = TRUE
      /\ Rollback(taken, taken) /\ next' = next + 1
      /\ UNCHANGED <<pool, visited, open, openCount, pc, current, curveAt, rover,
                     objective, searches, result, expanded>>
  BY DEF ExpandStarved, Useless, list, task
<1>2. taken' = taken
  BY <1>1 DEF Rollback
<1>3. pool' \in [Slots -> Nodes]
  BY <1>1 DEF PathInv, TypeOK
<1> QED
  BY <1>1, <1>2, <1>3, UselessKeeps

LEMMA DeadEndKeeps ==
    ASSUME PathInv, DeadEnd
    PROVE  PathInv'
<1>1. /\ pc = "expand" /\ next <= Len(Potential) /\ CanTake
      /\ Ahead \in Blocked \/ <<Ahead, Steer>> \in Tips
      /\ pool' = [pool EXCEPT ![taken].pose = Ahead, ![taken].parent = current,
                              ![taken].haven = @ /\ Ahead \in Blocked]
      /\ Rollback(taken + 1, taken) /\ next' = next + 1
      /\ UNCHANGED <<visited, open, openCount, pc, current, curveAt, rover,
                     objective, searches, result, expanded, starved>>
  BY DEF DeadEnd, Useless, list, task
<1>2. /\ taken \in 1 .. MaxNodes /\ MaxNodes \in Nat /\ Slots = 0 .. MaxNodes - 1
      /\ pool \in [Slots -> Nodes]
  BY <1>1, Basics
<1>3. taken' = taken
  BY <1>1, <1>2 DEF Rollback
<1>4. taken \in Slots /\ current \in Slots /\ Ahead \in Poses
  BY <1>1, <1>2, ExpandFacts DEF CanTake
<1>5. pool' \in [Slots -> Nodes]
  <2> DEFINE mark == pool[taken].haven /\ Ahead \in Blocked
             node == [pool[taken] EXCEPT !.pose = Ahead, !.parent = current, !.haven = mark]
  <2>1. mark \in BOOLEAN
    OBVIOUS
  <2> HIDE DEF mark
  <2>2. node \in Nodes
    BY <1>2, <1>4, <2>1 DEF Nodes
  <2>3. pool' = [pool EXCEPT ![taken] = node]
    BY <1>1, <1>2, <1>4 DEF mark
  <2> QED
    BY <1>2, <2>2, <2>3
<1>6. \A m \in 0 .. taken - 1 : pool'[m] = pool[m]
  BY <1>1, <1>2
<1>7. starved' \in BOOLEAN
  BY <1>1 DEF PathInv, TypeOK
<1> QED
  BY <1>1, <1>3, <1>5, <1>6, <1>7, UselessKeeps

\* The node a step pushes, in a slot whose last user may have left a mark.
LEMMA SuccessorIs ==
    ASSUME PathInv, pc = "expand", next <= Len(Potential), CanTake,
           pool' = [pool EXCEPT ![taken] = Successor], UNCHANGED objective
    PROVE  /\ pool' \in [Slots -> Nodes] /\ taken \in Slots
           /\ pool'[taken].pose = Ahead
           /\ \A m \in 0 .. taken - 1 : pool'[m] = pool[m]
           /\ Ahead \notin Blocked =>
                \A n : n = taken => Stepped(n)' /\ HavenIsFlat(n)'
<1> DEFINE slot == [pool[taken] EXCEPT !.haven = FALSE]
           node == Arrive(slot, current, Ahead, Steer)
<1>1. /\ taken \in 1 .. MaxNodes /\ MaxNodes \in Nat /\ Slots = 0 .. MaxNodes - 1
      /\ pool \in [Slots -> Nodes] /\ objective \in Objectives
  BY Basics
<1>2. /\ current \in 0 .. taken - 1 /\ current \in Slots /\ next \in DOMAIN Potential
      /\ Steer \in Steerings /\ Ahead \in Poses
  BY ExpandFacts
<1>3. taken \in Slots
  BY <1>1 DEF CanTake
<1>4. slot \in Nodes /\ slot.haven = FALSE
  BY <1>1, <1>3 DEF Nodes
<1> HIDE DEF slot
<1>5. /\ node \in Nodes /\ node.pose = Ahead /\ node.parent = current
      /\ node.cost = pool[current].cost + Energy[Ahead][Steer]
      /\ node.haven = (slot.haven \/ (Ahead \in Flat /\ Steer = Straight))
  BY <1>1, <1>2, <1>4, ArriveType
<1>6. Estimate[Ahead][objective] \in Nat
  BY <1>1, <1>2, Constants
<1>7. Successor = [node EXCEPT !.rank = Estimate[Ahead][objective] + node.cost]
  BY DEF Successor, slot
<1> HIDE DEF node
<1>8. node.cost \in Nat
  BY <1>5 DEF Nodes
<1>9. Estimate[Ahead][objective] + node.cost = node.cost + Estimate[Ahead][objective]
      /\ Estimate[Ahead][objective] + node.cost \in Nat
  BY <1>6, <1>8
<1>10. /\ Successor \in Nodes /\ Successor.pose = Ahead /\ Successor.parent = current
       /\ Successor.cost = pool[current].cost + Energy[Ahead][Steer]
       /\ Successor.rank = Successor.cost + Estimate[Ahead][objective]
       /\ Successor.haven => Ahead \in Flat /\ Steer = Straight
  BY <1>4, <1>5, <1>7, <1>9 DEF Nodes
<1>11. /\ pool' \in [Slots -> Nodes] /\ pool'[taken] = Successor
       /\ \A m \in 0 .. taken - 1 : pool'[m] = pool[m]
  BY <1>1, <1>3, <1>10
<1>12. pool'[current] = pool[current]
  BY <1>2, <1>11
<1>13. ASSUME NEW n, n = taken, Ahead \notin Blocked
       PROVE  Stepped(n)' /\ HavenIsFlat(n)'
  <2>1. /\ pool'[n].pose = Ahead /\ pool'[n].parent = current
        /\ pool'[n].cost = pool'[current].cost + Energy[Ahead][Steer]
        /\ pool'[n].rank = pool'[n].cost + Estimate[Ahead][objective']
        /\ pool'[n].haven => Ahead \in Flat /\ Steer = Straight
        /\ Ahead = Motion[pool'[current].pose][Steer]
    BY <1>10, <1>11, <1>12, <1>13 DEF Ahead
  <2>2. Stepped(n)'
    BY <1>2, <1>13, <2>1 DEF Stepped, Steer
  <2>3. HavenIsFlat(n)'
    BY <2>1 DEF HavenIsFlat
  <2> QED
    BY <2>2, <2>3
<1> QED
  BY <1>3, <1>10, <1>11, <1>13

LEMMA ExpandKeeps ==
    ASSUME PathInv, Expand
    PROVE  PathInv'
<1>1. /\ pc = "expand" /\ next <= Len(Potential) /\ CanTake
      /\ Ahead \notin Blocked
      /\ pool' = [pool EXCEPT ![taken] = Successor]
      /\ taken' = taken + 1 /\ next' = next + 1
      /\ UNCHANGED <<visited, current, curveAt, rover, objective, searches, result,
                     expanded, starved>>
      /\ \/ /\ Fits /\ open' = open \cup {taken} /\ openCount' = openCount + 1
            /\ pc' = "expand"
         \/ /\ pc' = "overrun" /\ open' = open /\ openCount' = openCount
  BY DEF Expand, task, list
<1>b. /\ MaxNodes \in Nat \ {0} /\ MaxOpen \in Nat \ {0}
      /\ Slots = 0 .. MaxNodes - 1 /\ taken \in 1 .. MaxNodes
      /\ result = NoNode /\ open \subseteq 0 .. Limit - 1 /\ IsFiniteSet(open)
      /\ openCount = Cardinality(open) /\ openCount \in 0 .. MaxOpen
      /\ \A m \in 0 .. taken - 1 : pool[m].pose \in Poses
  BY <1>1, Basics
<1>s. /\ Limit = taken /\ current \in 0 .. taken - 1 /\ current \in Slots
      /\ next \in DOMAIN Potential /\ next \in Nat \ {0} /\ Ahead \in Poses
      /\ \A i \in DOMAIN Potential : i \in Nat
  BY <1>1, ExpandFacts
<1>c. /\ pool' \in [Slots -> Nodes] /\ taken \in Slots /\ pool'[taken].pose = Ahead
      /\ \A m \in 0 .. taken - 1 : pool'[m] = pool[m]
      /\ \A n : n = taken => Stepped(n)' /\ HavenIsFlat(n)'
  BY <1>1, SuccessorIs
<1>t. taken' \in 1 .. MaxNodes
  BY <1>1, <1>b DEF CanTake
<1>o. /\ open' \subseteq 0 .. taken /\ open' \subseteq Slots
      /\ openCount' = Cardinality(open') /\ openCount' \in 0 .. MaxOpen
  <2>1. CASE open' = open /\ openCount' = openCount
    BY <1>b, <1>s, <2>1
  <2>2. CASE Fits /\ open' = open \cup {taken} /\ openCount' = openCount + 1
    <3>1. taken \notin open
      BY <1>b, <1>s
    <3>2. Cardinality(open \cup {taken}) = Cardinality(open) + 1
      BY <1>b, <3>1, FS_AddElement
    <3>3. openCount + 1 \in 0 .. MaxOpen
      BY <1>b, <2>2 DEF Fits
    <3>4. open' \subseteq 0 .. taken /\ open' \subseteq Slots
      BY <1>b, <1>c, <1>s, <2>2
    <3> QED
      BY <1>b, <2>2, <3>2, <3>3, <3>4
  <2> QED
    BY <1>1, <2>1, <2>2
<1>2. TypeOK'
  <2>1. TypeOK
    BY DEF PathInv
  <2>2. taken' \in 0 .. MaxNodes /\ next' \in Nat \ {0} /\ pc' \in {"expand", "overrun"}
    BY <1>1, <1>s, <1>t
  <2> QED
    BY <1>1, <1>c, <1>o, <2>1, <2>2 DEF TypeOK
<1>3. Cursor'
  BY <1>1, <1>s DEF Cursor
<1>4. Tree'
  <2>1. Limit' = taken + 1
    BY <1>1 DEF Limit
  <2>2. taken + 1 \in 1 .. MaxNodes /\ taken + 1 <= taken'
    BY <1>1, <1>b, <1>t
  <2>3. \A m \in Limit .. (taken + 1) - 1 : m = taken
    BY <1>b, <1>s
  <2>4. open' \cup ({current'} \ {NoNode}) \subseteq 0 .. (taken + 1) - 1
    <3>1. (taken + 1) - 1 = taken /\ current' \in 0 .. taken
      BY <1>1, <1>b, <1>s
    <3> QED
      BY <1>o, <3>1
  <2>5. \A m \in 0 .. taken' - 1 : pool'[m].pose \in Poses
    BY <1>1, <1>b, <1>c, <1>s
  <2>6. \A m \in 0 .. Limit - 1 : m < taken + 1 => pool'[m] = pool[m]
    BY <1>c, <1>s
  <2>7. PICK lim \in 1 .. MaxNodes : lim = taken + 1
    BY <2>2
  <2>8. \A m \in Limit .. lim - 1 : Stepped(m)' /\ HavenIsFlat(m)'
    BY <1>c, <2>3, <2>7
  <2> QED
    BY <1>1, <1>b, <1>t, <1>o, <2>1, <2>2, <2>4, <2>5, <2>6, <2>7, <2>8, TreeKept
<1>5. Shooting' /\ Answer'
  BY <1>1, <1>b DEF Shooting, Answer
<1>6. Frontier'
  <2> SUFFICES ASSUME ~starved, pc' # "overrun", NEW p \in expanded,
                      NEW i \in DOMAIN Potential
               PROVE  Pursued(p, i)'
    BY <1>1 DEF Frontier
  <2>1. Pursued(p, i) /\ open' = open \cup {taken} /\ pc' = "expand"
    BY <1>1, <1>b DEF PathInv, Frontier
  <2>2. pool'[current] = pool[current] /\ \A n \in open : pool'[n] = pool[n]
    BY <1>b, <1>c, <1>s
  <2>3. i >= next => i = next \/ i >= next'
    BY <1>1, <1>s
  <2>4. CASE p = pool[current].pose /\ i = next
    <3>1. pool'[taken].pose = Motion[p][Potential[i]] /\ taken \in open'
      BY <1>c, <2>1, <2>4 DEF Ahead, Steer
    <3> QED
      BY <3>1 DEF Pursued
  <2>5. CASE ~(p = pool[current].pose /\ i = next)
    BY <1>1, <2>1, <2>2, <2>3, <2>5 DEF Pursued
  <2> QED
    BY <2>4, <2>5
<1>7. RootFirst'
  <2>1. 0 \notin open /\ 0 # taken
    BY <1>1, <1>b, RootIsGone
  <2> QED
    BY <1>1, <2>1 DEF RootFirst
<1> QED
  BY <1>2, <1>3, <1>4, <1>5, <1>6, <1>7 DEF PathInv

LEMMA ExpandedKeeps ==
    ASSUME PathInv, Expanded
    PROVE  PathInv'
<1>1. /\ pc = "expand" /\ next > Len(Potential)
      /\ pc' = "search" /\ current' = NoNode /\ next' = 1
      /\ UNCHANGED <<pool, taken, visited, open, openCount, curveAt, rover, objective,
                     searches, result, expanded, starved>>
  BY DEF Expanded, memory, list, task
<1>b. /\ MaxNodes \in Nat \ {0} /\ taken \in 1 .. MaxNodes /\ Limit \in 1 .. taken
      /\ Limit = taken
      /\ result = NoNode /\ open \subseteq 0 .. Limit - 1
      /\ openCount = Cardinality(open)
      /\ \A m \in 0 .. taken - 1 : pool[m].pose \in Poses
  BY <1>1, Basics DEF Limit
<1>2. TypeOK'
  <2>1. TypeOK
    BY DEF PathInv
  <2> QED
    BY <1>1, <2>1 DEF TypeOK
<1>3. Cursor'
  BY <1>1 DEF Cursor
<1>4. Tree'
  <2>1. Limit' = taken /\ Limit .. taken - 1 = {}
    BY <1>1, <1>b DEF Limit
  <2>2. open' \cup ({current'} \ {NoNode}) \subseteq 0 .. taken - 1
    BY <1>1, <1>b
  <2>3. taken <= taken' /\ taken' \in 1 .. MaxNodes
    BY <1>1, <1>b
  <2> QED
    BY <1>1, <1>b, <2>1, <2>2, <2>3, TreeKept
<1>5. Shooting' /\ Answer'
  BY <1>1, <1>b DEF Shooting, Answer
<1>6. Frontier'
  <2> SUFFICES ASSUME ~starved, NEW p \in expanded, NEW i \in DOMAIN Potential
               PROVE  Pursued(p, i)'
    BY <1>1 DEF Frontier
  <2>1. Pursued(p, i)
    BY <1>1, <1>b DEF PathInv, Frontier
  <2>2. ~(i >= next)
    <3>1. /\ DOMAIN Potential = 1 .. Len(Potential) /\ Len(Potential) \in Nat
      BY Constants, LenProperties
    <3>2. next \in Nat
      BY DEF PathInv, TypeOK
    <3> QED
      BY <1>1, <3>1, <3>2
  <2> QED
    BY <1>1, <2>1, <2>2 DEF Pursued
<1>7. RootFirst'
  BY <1>1, RootIsGone DEF RootFirst
<1> QED
  BY <1>2, <1>3, <1>4, <1>5, <1>6, <1>7 DEF PathInv

-----------------------------------------------------------------------------
(* The invariant and what follows from it *)

LEMMA InitKeeps == Init => PathInv
<1> SUFFICES ASSUME Init PROVE PathInv
  OBVIOUS
<1>1. /\ MaxNodes \in Nat \ {0} /\ Slots = 0 .. MaxNodes - 1 /\ NoNode = -1
      /\ MaxOpen \in Nat /\ MaxSearches \in Nat
  BY Constants DEF Slots, NoNode
<1>2. TypeOK
  <2> DEFINE blank == [pose |-> NoPose, parent |-> NoNode,
                       haven |-> FALSE, cost |-> 0, rank |-> 0]
  <2>1. blank \in Nodes
    BY DEF Nodes
  <2>2. pool \in [Slots -> Nodes]
    BY <2>1 DEF Init
  <2>3. /\ taken = 0 /\ visited = {} /\ open = {} /\ openCount = 0
        /\ pc = "idle" /\ current = NoNode /\ next = 1 /\ curveAt = 0
        /\ rover = NoPose /\ objective = NoPose /\ result = NoNode /\ searches = 0
        /\ expanded = {} /\ starved = FALSE
    BY DEF Init
  <2> HIDE DEF blank
  <2>4. /\ taken \in 0 .. MaxNodes /\ openCount \in 0 .. MaxOpen
        /\ curveAt \in 0 .. MaxNodes /\ searches \in 0 .. MaxSearches
        /\ next \in Nat \ {0}
    BY <1>1, <2>3
  <2>5. starved \in BOOLEAN
    BY <2>3, Zenon
  <2>6. /\ visited \subseteq {Bin[p] : p \in Poses} /\ open \subseteq Slots
        /\ expanded \subseteq Poses
    BY <2>3
  <2>7. /\ pc \in {"idle", "search", "aim", "shoot", "expand", "overrun"}
        /\ current \in Slots \cup {NoNode} /\ result \in Slots \cup {NoNode}
        /\ rover \in Poses \cup {NoPose} /\ objective \in Objectives \cup {NoPose}
    BY <2>3
  <2> QED
    BY <2>2, <2>4, <2>6, <2>7, <2>5 DEF TypeOK
<1>3. Cursor /\ Tree /\ Shooting /\ Answer /\ Frontier /\ RootFirst
  BY DEF Init, Cursor, Tree, Shooting, Answer, Frontier, RootFirst
<1> QED
  BY <1>2, <1>3 DEF PathInv

LEMMA StutterKeeps ==
    ASSUME PathInv, UNCHANGED vars
    PROVE  PathInv'
<1>1. UNCHANGED <<pool, taken, visited, open, openCount, pc, current, next, curveAt,
                  rover, objective, result, searches, expanded, starved>>
  BY DEF vars
<1>2. TypeOK' /\ Cursor' /\ RootFirst'
  BY <1>1 DEF PathInv, TypeOK, Cursor, RootFirst
<1>3. Tree'
  BY <1>1 DEF PathInv, Tree, Limit, Stepped, HavenIsFlat
<1>4. Shooting'
  BY <1>1 DEF PathInv, Shooting, Clear, Shot, CurveIn
<1>5. Answer'
  BY <1>1 DEF PathInv, Answer, Stepped, CurveIn
<1>6. Frontier'
  BY <1>1 DEF PathInv, Frontier, Pursued
<1> QED
  BY <1>2, <1>3, <1>4, <1>5, <1>6 DEF PathInv

\* The slots that are taken are at every step the tree the search has grown (with
\* a curve above it, while one is built), the list and the node being expanded
\* point into it, and no step of an expanded pose has been lost on the way.
THEOREM PathInvariant == Spec => []PathInv
<1>1. Init => PathInv
  BY InitKeeps
<1>2. PathInv /\ [Next]_vars => PathInv'
  <2> SUFFICES ASSUME PathInv, [Next]_vars PROVE PathInv'
    OBVIOUS
  <2>1. CASE \E p \in Starts, o \in Objectives : CreatePath(p, o)
    BY <2>1, CreatePathKeeps
  <2>2. CASE GiveUp
    BY <2>2, GiveUpKeeps
  <2>3. CASE \E n \in open : Skip(n) \/ Arrived(n) \/ Select(n)
    BY <2>3, SkipKeeps, ArrivedKeeps, SelectKeeps
  <2>4. CASE Aim
    BY <2>4, AimKeeps
  <2>5. CASE ShootStarved \/ ShootTips \/ ShootStep \/ ShootHome
    BY <2>5, ShootStarvedKeeps, ShootTipsKeeps, ShootStepKeeps, ShootHomeKeeps
  <2>6. CASE ExpandStarved \/ DeadEnd \/ Expand \/ Expanded
    BY <2>6, ExpandStarvedKeeps, DeadEndKeeps, ExpandKeeps, ExpandedKeeps
  <2>7. CASE UNCHANGED vars
    BY <2>7, StutterKeeps
  <2> QED
    BY <2>1, <2>2, <2>3, <2>4, <2>5, <2>6, <2>7 DEF Next, Search
<1> QED
  BY <1>1, <1>2, PTL DEF Spec

\* Every index stays one of the pool's, and the list stays within its array as
\* long as no push finds it full, where the model stops (pool_alloc, heap_push),
\* whatever the map and the sizes are.
THEOREM PathTypeOK == Spec => []TypeOK
<1>1. PathInv => TypeOK
  BY DEF PathInv
<1> QED
  BY <1>1, PathInvariant, PTL

\* Slots are rolled back and used again (pool_rollback), and the list's bare
\* pointers still mean the nodes they were pushed for, up to the rover.
THEOREM TreeStaysIntact == Spec => []TreeIntact
<1>1. PathInv => TreeIntact
  <2> SUFFICES ASSUME PathInv, pc \in {"search", "aim", "shoot", "expand"}
               PROVE  /\ open \cup ({current} \ {NoNode}) \subseteq 0 .. taken - 1
                      /\ openCount = Cardinality(open)
                      /\ pool[0].pose = rover /\ pool[0].parent = NoNode
                      /\ \A n \in 1 .. Limit - 1 : Stepped(n)
    BY DEF TreeIntact, Limit
  <2>1. /\ Limit \in 1 .. taken /\ taken \in 1 .. MaxNodes /\ MaxNodes \in Nat
    BY Basics
  <2>2. /\ open \cup ({current} \ {NoNode}) \subseteq 0 .. Limit - 1
        /\ openCount = Cardinality(open)
        /\ pool[0].pose = rover /\ pool[0].parent = NoNode
        /\ \A n \in 1 .. Limit - 1 : Stepped(n)
    BY DEF PathInv, Tree
  <2>3. 0 .. Limit - 1 \subseteq 0 .. taken - 1
    BY <2>1
  <2> QED
    BY <2>2, <2>3
<1> QED
  BY <1>1, PathInvariant, PTL

\* What proavo_createpath returns leads back to the rover through free poses, by
\* steps and at most one whole curve, after every slot that was given back.
THEOREM PathsAreSound == Spec => []PathSound
<1>1. PathInv => PathSound
  BY AnswerIsSound DEF PathInv
<1> QED
  BY <1>1, PathInvariant, PTL

\* On a node that a step of the search made, the mark of a haven is the step's own,
\* though nothing clears the slot between two users but the step itself.
THEOREM HavensOfStepsAreFlat == Spec => []StepHavensAreFlat
<1>1. PathInv => StepHavensAreFlat
  <2> SUFFICES ASSUME PathInv, NEW n \in (open \cup {current}) \ {0, NoNode}
               PROVE  HavenIsFlat(n)
    BY DEF StepHavensAreFlat, HavenIsFlat
  <2>1. pc # "idle"
    BY DEF PathInv, Cursor
  <2>2. /\ Limit \in 1 .. taken /\ taken \in 1 .. MaxNodes /\ MaxNodes \in Nat
    BY <2>1, Basics
  <2>3. n \in 0 .. Limit - 1 /\ n # 0
    BY <2>1 DEF PathInv, Tree
  <2>4. n \in 1 .. Limit - 1
    BY <2>2, <2>3
  <2> QED
    BY <2>1, <2>4 DEF PathInv, Tree
<1> QED
  BY <1>1, PathInvariant, PTL

\* A search that was never refused a node fails only when every step from every
\* pose it expanded was of no use or led to a bin it has been to.
THEOREM GivingUpIsExplored == Spec => []GivesUpExplored
<1>1. PathInv => GivesUpExplored
  <2> SUFFICES ASSUME PathInv, pc = "idle", result = NoNode, ~starved,
                      NEW p \in expanded, NEW i \in DOMAIN Potential
               PROVE  LET q == Motion[p][Potential[i]]
                      IN  q \in Blocked \/ <<q, Potential[i]>> \in Tips
                            \/ Bin[q] \in visited
    BY DEF GivesUpExplored
  <2>1. Pursued(p, i) /\ open = {}
    BY DEF PathInv, Frontier, Cursor
  <2> QED
    BY <2>1 DEF Pursued
<1> QED
  BY <1>1, PathInvariant, PTL
=============================================================================
