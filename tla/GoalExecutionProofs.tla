------------------------ MODULE GoalExecutionProofs ------------------------
(***************************************************************************)
(* Why a goal that no other overlaps takes the rover over, for every       *)
(* number of goals and segments and every timing in which publish_stop     *)
(* outlasts a turn of a hold: from its beginning to its own hold holding_  *)
(* stays clear, and in its last publish_stop every earlier hold publishes  *)
(* what it was about to, wakes up and sees that.                           *)
(*                                                                         *)
(* The second part is about the route such a goal is made of, the module   *)
(* RouteInstructions: the sectors are those of the path, the hooks are     *)
(* where a rover may wait, and the route is driven as it was planned, for  *)
(* every path.                                                             *)
(***************************************************************************)
EXTENDS GoalExecution, RouteInstructions, WellFoundedInduction, TLAPS

\* No thread sleeps past its lateness, and one that holds for a turn at most.
SleepInv ==
    /\ \A g \in Goals : Active(g) => sleep[g] >= -Jitter
    /\ \A g \in Goals : pc[g] = "hold" => sleep[g] <= Period
    /\ \A g \in Goals : pc[g] = "correct" => sleep[g] <= 0
    /\ \A g \in Goals : pc[g] = "none" => segment[g] = 0

\* What a goal that no other overlaps can count on at each place.
LoneInv ==
    \A g \in alone :
        /\ \A h \in Goals \ {g} : pc[h] \in Holds \cup Over
        /\ pc[g] \in (Executing \ {"begin"}) \cup {"succeeded"} => ~holding
        /\ pc[g] = "stop" => \A h \in Goals \ {g} :
              /\ pc[h] = "hold" => sleep[h] - sleep[g] <= Period + Jitter - Coast
              /\ pc[h] = "correct" => sleep[h] - sleep[g] <= -Coast
        /\ pc[g] \in {"succeeded"} \cup Holds =>
              \A h \in Goals \ {g} : pc[h] \notin Holds
        /\ pc[g] \in Executing \ {"begin"} =>
              \A h \in Goals \ {g} : pc[h] = "correct" => h \notin corrected

GoalInv == TypeOK /\ SleepInv /\ LoneInv

-----------------------------------------------------------------------------
(* The invariant *)

LEMMA GoalInvInit == Init => GoalInv
<1> SUFFICES ASSUME Init PROVE GoalInv
  OBVIOUS
<1> USE GoalAssumption DEF Init
<1>1. TypeOK
  <2>1. holding \in BOOLEAN
    OBVIOUS
  <2>2. length \in [Goals -> 0..MaxSegments]
    OBVIOUS
  <2>3. segment \in [Goals -> Nat] /\ \A g \in Goals : segment[g] <= length[g]
    OBVIOUS
  <2>4. pc \in [Goals -> Over \cup Executing \cup {"succeeded"} \cup Holds]
    BY DEF Over
  <2> QED
    BY <2>1, <2>2, <2>3, <2>4 DEF TypeOK
<1>2. SleepInv
  BY DEF SleepInv, Active, Over
<1>3. LoneInv
  BY DEF LoneInv
<1> QED
  BY <1>1, <1>2, <1>3 DEF GoalInv

LEMMA AcceptStep == ASSUME GoalInv, NEW g \in Goals, Accept(g) PROVE GoalInv'
<1> USE GoalAssumption DEF GoalInv, Accept
<1>1. PICK n \in 0..MaxSegments : length' = [length EXCEPT ![g] = n]
  OBVIOUS
<1>2. TypeOK'
  BY <1>1 DEF TypeOK, SleepInv, Over, Executing
<1>3. SleepInv'
  BY DEF TypeOK, SleepInv, Active, Over
<1>4. LoneInv'
  BY DEF TypeOK, LoneInv, Busy, Over, Executing, Holds
<1> QED
  BY <1>2, <1>3, <1>4

LEMMA CancelStep == ASSUME GoalInv, NEW g \in Goals, Cancel(g) PROVE GoalInv'
BY DEF GoalInv, Cancel, TypeOK, SleepInv, LoneInv, Active, Over, Executing, Holds

LEMMA TimeStep == ASSUME GoalInv, TimePasses PROVE GoalInv'
<1> USE GoalAssumption DEF GoalInv, TimePasses, Active
<1>1. TypeOK'
  BY DEF TypeOK
<1>2. SleepInv'
  BY DEF TypeOK, SleepInv, Over
<1>3. LoneInv'
  BY DEF TypeOK, LoneInv, Over, Holds
<1> QED
  BY <1>1, <1>2, <1>3

\* A step of a thread that leaves it short of its hold, and holding_ as it is or
\* clear, keeps the invariant, whatever the goal.
LEMMA ExecutingStep ==
    ASSUME GoalInv, NEW g \in Goals,
           NEW from \in Executing, NEW to \in Executing \ {"begin", "stop"},
           NEW d \in Nat, Step(g, from, to, d),
           segment' \in [Goals -> Nat],
           \A h \in Goals : segment'[h] <= length[h] /\ (h # g => segment'[h] = segment[h]),
           UNCHANGED <<length, canceling, alone>>,
           holding' \in BOOLEAN, ~holding => ~holding', from = "begin" => ~holding',
           corrected' = IF from = "begin" THEN {} ELSE corrected
    PROVE  GoalInv'
<1> USE GoalAssumption DEF GoalInv, Step
<1>1. TypeOK'
  <2>1. pc' \in [Goals -> Over \cup Executing \cup {"succeeded"} \cup Holds]
    BY DEF TypeOK, Executing
  <2>2. sleep' \in [Goals -> Int]
    BY DEF TypeOK
  <2> QED
    BY <2>1, <2>2 DEF TypeOK
<1>2. SleepInv'
  BY DEF TypeOK, SleepInv, Active, Over, Executing, Holds
<1>3. LoneInv'
  BY DEF TypeOK, LoneInv, Over, Executing, Holds
<1> QED
  BY <1>1, <1>2, <1>3

LEMMA ExecuteStep == ASSUME GoalInv, NEW g \in Goals, Execute(g) PROVE GoalInv'
<1> USE GoalAssumption
<1>t. TypeOK
  BY DEF GoalInv
<1>1. CASE Begin(g)
  <2>1. PICK d \in 0..MaxDelay : Step(g, "begin", "next", d)
    BY <1>1 DEF Begin
  <2>2. holding' \in BOOLEAN /\ ~holding'
    BY <1>1 DEF Begin
  <2> QED
    BY <1>1, <1>t, <2>1, <2>2, ExecutingStep DEF Begin, TypeOK, Executing
<1>2. CASE Cancelled(g)
  BY <1>2, <1>t, ExecutingStep DEF Cancelled, TypeOK, Executing, Step
<1>3. CASE BeginSegment(g)
  <2>1. PICK d \in 0..MaxDelay : Step(g, "next", "drive", d)
    BY <1>3 DEF BeginSegment
  <2>2. segment' \in [Goals -> Nat] /\ \A h \in Goals : segment'[h] <= length[h]
    BY <1>3, <1>t DEF BeginSegment, TypeOK
  <2> QED
    BY <1>3, <1>t, <2>1, <2>2, ExecutingStep DEF BeginSegment, TypeOK, Executing
<1>4. CASE Drive(g)
  BY <1>4, <1>t, ExecutingStep DEF Drive, TypeOK, Executing
<1>5. CASE EndSegment(g)
  <2>1. PICK d \in {0, Coast} : Step(g, "drive", "next", d)
    BY <1>5 DEF EndSegment
  <2> QED
    BY <1>5, <1>t, <2>1, ExecutingStep DEF EndSegment, TypeOK, Executing
<1>6. CASE ReportCancelled(g)
  BY <1>6 DEF ReportCancelled, Step, GoalInv, TypeOK, SleepInv, LoneInv, Active, Over, Executing, Holds
<1>7. CASE Finish(g)
  BY <1>7 DEF Finish, Step, GoalInv, TypeOK, SleepInv, LoneInv, Active, Over, Executing, Holds
<1>8. CASE Succeed(g)
  \* The last publish_stop is over: a hold that slept through it would be late.
  <2> USE <1>8 DEF Succeed, Step
  <2>1. \A f \in alone : f = g => \A h \in Goals \ {g} :
            /\ pc[h] = "hold" => sleep[h] <= Period + Jitter - Coast
            /\ pc[h] = "correct" => sleep[h] <= -Coast
    BY DEF GoalInv, TypeOK, LoneInv, Awake
  <2>2. \A f \in alone : f = g => \A h \in Goals \ {g} : pc[h] \notin Holds
    BY <2>1, CoastOutlastsHold DEF GoalInv, TypeOK, SleepInv, Active, Over, Holds
  <2>3. TypeOK' /\ SleepInv'
    BY DEF GoalInv, TypeOK, SleepInv, Active, Over, Executing, Holds
  <2>4. LoneInv'
    BY <2>2 DEF GoalInv, TypeOK, LoneInv, Over, Executing, Holds
  <2> QED
    BY <2>3, <2>4 DEF GoalInv
<1>9. CASE StartHold(g)
  BY <1>9 DEF StartHold, Step, GoalInv, TypeOK, SleepInv, LoneInv, Active, Over, Executing, Holds
<1>10. CASE Hold(g)
  BY <1>10 DEF Hold, Step, GoalInv, TypeOK, SleepInv, LoneInv, Active, Over, Executing, Holds
<1>12. CASE Correct(g)
  \* The correction an old hold was about to publish; it then sleeps for a turn.
  <2> USE <1>12 DEF Correct, Step
  <2>1. TypeOK' /\ SleepInv'
    BY DEF GoalInv, TypeOK, SleepInv, Active, Over, Executing, Holds
  <2>2. \A f \in alone : f # g /\ pc[f] = "stop" => sleep[f] >= Coast - Jitter
    BY DEF GoalInv, TypeOK, SleepInv, LoneInv, Active, Over, Awake
  <2>3. LoneInv'
    BY <2>2 DEF GoalInv, TypeOK, LoneInv, Over, Executing, Holds
  <2> QED
    BY <2>1, <2>3 DEF GoalInv
<1>11. CASE EndHold(g)
  BY <1>11 DEF EndHold, Step, GoalInv, TypeOK, SleepInv, LoneInv, Active, Over, Executing, Holds
<1> QED
  BY <1>1, <1>2, <1>3, <1>4, <1>5, <1>6, <1>7, <1>8, <1>9, <1>10, <1>11, <1>12
     DEF Execute

-----------------------------------------------------------------------------
(* The theorems *)

\* The inductive invariant holds however the goal threads are scheduled
\* (haphazard.cpp).
THEOREM GoalInvariant == Spec => []GoalInv
<1>1. GoalInv /\ [Next]_vars => GoalInv'
  <2> SUFFICES ASSUME GoalInv, [Next]_vars PROVE GoalInv'
    OBVIOUS
  <2>1. CASE Next
    BY <2>1, TimeStep, AcceptStep, CancelStep, ExecuteStep DEF Next
  <2>2. CASE UNCHANGED vars
    BY <2>2 DEF vars, GoalInv, TypeOK, SleepInv, LoneInv, Active
  <2> QED
    BY <2>1, <2>2
<1> QED
  BY <1>1, GoalInvInit, PTL DEF Spec

\* The variables of the goals have their types; no goal begins more segments than
\* it has.
THEOREM GoalsTypeCorrect == Spec => []TypeOK
<1>1. GoalInv => TypeOK
  BY DEF GoalInv
<1> QED
  BY <1>1, GoalInvariant, PTL

\* A goal that no other overlaps is the only one to hold when it holds.
THEOREM LastGoalTakesOver == Spec => []OneHolder
<1>1. GoalInv => OneHolder
  BY DEF GoalInv, LoneInv, OneHolder
<1> QED
  BY <1>1, GoalInvariant, PTL

\* Once such a goal has begun, an earlier hold publishes one correction at most.
THEOREM OneStrayAtMost == Spec => OneStrayCorrection
<1>1. GoalInv => \A g \in alone : pc[g] \in Executing \ {"begin"} =>
                    \A h \in Goals \ {g} : Correct(h) => h \notin corrected
  BY DEF GoalInv, LoneInv, Correct, Step
<1>2. GoalInv => [\A g \in alone : pc[g] \in Executing \ {"begin"} =>
                    \A h \in Goals \ {g} : Correct(h) => h \notin corrected]_vars
  BY <1>1
<1> QED
  BY <1>2, GoalInvariant, PTL DEF OneStrayCorrection

-----------------------------------------------------------------------------
(* The route of a goal: its inductive invariant *)

\* What a traversal says of the nodes seen so far.
Traverses(st, sec, seen) ==
    /\ st \in Seq(Nat) /\ sec \in Seq(Sectors) /\ Len(st) = Len(sec)
    /\ seen = 0 => Len(st) = 0
    /\ seen > 0 => Len(st) > 0 /\ st[1] = 1
    /\ \A i \in 1 .. Len(st) : 1 <= st[i] /\ st[i] <= seen
    /\ \A i, j \in 1 .. Len(st) : i < j => st[i] < st[j]
    /\ \A i \in 1 .. Len(st) :
        /\ \A node \in Nat :
            /\ st[i] <= node /\ node <= seen
            /\ i < Len(st) => node < st[i + 1]
            => path[node].sector = sec[i]
        /\ i > 1 => sec[i] # sec[i - 1]

PathInv == path \in Seq(Nodes) /\ Len(path) > 1

GraphInv ==
    /\ stage = "search" => starts = <<>> /\ sectors = <<>> /\ index = 1
    /\ stage = "graph" =>
        index \in 1 .. Len(path) + 1 /\ Traverses(starts, sectors, index - 1)
    /\ Graphed => Traverses(starts, sectors, Len(path))

\* The nodes one of which may become the hook of a sector.
From(i) == IF i = 1 THEN 1 ELSE starts[i] + 1
Upto(i) == IF i < Len(starts) THEN starts[i + 1] ELSE Len(path)

\* What the hooks are once the nodes before this one were looked at.
HooksBefore(node) ==
    /\ hooks \in [1 .. Len(starts) -> Nat]
    /\ \A i \in 1 .. Len(starts) :
        /\ hooks[i] # NoHook =>
            /\ From(i) <= hooks[i] /\ hooks[i] <= Upto(i)
            /\ hooks[i] < node /\ path[hooks[i]].safe
        /\ hooks[i] = NoHook =>
            \A k \in Nat : From(i) <= k /\ k <= Upto(i) /\ k < node => ~path[k].safe

HookInv ==
    /\ stage \in {"search", "graph"} => sector = 1 /\ haven = FALSE
    /\ stage = "instruct" =>
        /\ index \in 1 .. Len(path) /\ sector \in 1 .. Len(starts)
        /\ From(sector) <= index /\ index <= Upto(sector)
        /\ haven \in BOOLEAN /\ (haven <=> hooks[sector] # NoHook)
        /\ \A i \in 1 .. Len(starts) : i > sector => hooks[i] = NoHook
        /\ HooksBefore(index)
    /\ Hooked => HooksBefore(Len(path))

RouteInv ==
    /\ stage \in {"search", "graph", "instruct", "deconflict", "convert", "drive",
                  "cancelled", "arrived"}
    /\ PathInv /\ GraphInv /\ HookInv

-----------------------------------------------------------------------------
(* The steps of the chain keep it *)

LEMMA RouteInvInit == ASSUME RouteInit PROVE RouteInv
<1>1. PICK n \in 2 .. MaxNodes : path \in [1 .. n -> Nodes]
  BY DEF RouteInit
<1>2. n \in Nat /\ n > 1 /\ PathInv
  BY <1>1, RouteAssumption DEF PathInv
<1> QED
  BY <1>2 DEF RouteInit, RouteInv, GraphInv, HookInv, Graphed, Hooked

\* A reversed path is a path.
LEMMA ReverseStep ==
    ASSUME RouteInv, ReverseToPath PROVE RouteInv'
<1>1. path' = [i \in 1 .. Len(path) |-> path[(Len(path) - i) + 1]]
  BY DEF ReverseToPath, Reverse
<1>2. PathInv'
  <2>1. Len(path) \in Nat /\ Len(path) > 1 /\ path \in Seq(Nodes)
        /\ \A i \in 1 .. Len(path) : path[i] \in Nodes
    BY DEF RouteInv, PathInv
  <2>2. \A i \in 1 .. Len(path) : (Len(path) - i) + 1 \in 1 .. Len(path)
    BY <2>1
  <2>3. path' \in [1 .. Len(path) -> Nodes]
    BY <1>1, <2>1, <2>2
  <2>4. path' \in Seq(Nodes) /\ Len(path') = Len(path)
    BY <2>1, <2>3
  <2> QED
    BY <2>1, <2>4 DEF PathInv, Nodes
<1>3. starts = <<>> /\ sectors = <<>> /\ index = 1 /\ sector = 1 /\ haven = FALSE
  BY DEF RouteInv, GraphInv, HookInv, ReverseToPath
<1>4. starts' = <<>> /\ sectors' = <<>> /\ index' = 1 /\ sector' = 1 /\ haven' = FALSE
      /\ stage' = "graph"
  BY <1>3 DEF ReverseToPath, plan
<1>5. Traverses(starts, sectors, index - 1)'
  <2>1. <<>> \in Seq(Nat) /\ <<>> \in Seq(Sectors) /\ Len(<<>>) = 0
    OBVIOUS
  <2>2. Len(starts') = 0 /\ Len(sectors') = 0 /\ starts' \in Seq(Nat) /\ sectors' \in Seq(Sectors)
        /\ index' - 1 = 0
    BY <1>4, <2>1
  <2> QED
    BY <2>2 DEF Traverses
<1> QED
  BY <1>2, <1>4, <1>5 DEF RouteInv, GraphInv, HookInv, PathInv, Graphed, Hooked

\* The loop of generate_reservationgraph.
LEMMA GraphStep ==
    ASSUME RouteInv, EnterSector \/ StayInSector
    PROVE  RouteInv'
<1> DEFINE n == Len(starts)
           here == path[index].sector
<1>1. /\ stage = "graph" /\ index \in Nat /\ index >= 1 /\ index <= Len(path)
      /\ Traverses(starts, sectors, index - 1) /\ PathInv /\ Len(path) \in Nat
      /\ sector = 1 /\ haven = FALSE
  BY DEF RouteInv, PathInv, GraphInv, HookInv, EnterSector, StayInSector
<1>2. index' = index + 1 /\ stage' = "graph" /\ path' = path /\ sector' = sector
      /\ haven' = haven
  BY <1>1 DEF EnterSector, StayInSector, plan, route
<1>3. here \in Sectors
  <2>1. path[index] \in Nodes
    BY <1>1 DEF PathInv
  <2> QED
    BY <2>1 DEF Nodes
<1>4. /\ starts \in Seq(Nat) /\ sectors \in Seq(Sectors) /\ n \in Nat /\ n = Len(sectors)
      /\ \A i \in 1 .. n : starts[i] \in Nat
  BY <1>1 DEF Traverses
<1>5. ASSUME index > 1 PROVE n > 0 /\ path[index - 1].sector = sectors[n]
  <2>1. n > 0 /\ n \in 1 .. Len(starts) /\ index - 1 \in Nat /\ ~(n < Len(starts))
    BY <1>1, <1>4, <1>5 DEF Traverses
  <2>2. starts[n] <= index - 1
    BY <1>1, <2>1 DEF Traverses
  <2> QED
    BY <1>1, <2>1, <2>2 DEF Traverses
<1>6. Traverses(starts, sectors, index - 1)'
  <2>1. CASE StayInSector
    <3>1. starts' = starts /\ sectors' = sectors /\ index > 1 /\ here = path[index - 1].sector
      BY <1>1, <2>1 DEF StayInSector, route, Enters
    <3>2. Traverses(starts, sectors, index)
      <4>1. \A i \in 1 .. n : 1 <= starts[i] /\ starts[i] <= index
        BY <1>1, <1>4 DEF Traverses
      <4>2. ASSUME NEW i \in 1 .. n, NEW node \in Nat, starts[i] <= node, node <= index,
                   i < n => node < starts[i + 1]
            PROVE  path[node].sector = sectors[i]
        <5>1. CASE node <= index - 1
          BY <1>1, <1>4, <4>2, <5>1 DEF Traverses
        <5>2. CASE node = index
          <6>1. i < n => i + 1 \in 1 .. n /\ starts[i + 1] <= index - 1 /\ starts[i + 1] \in Nat
            BY <1>1, <1>4 DEF Traverses
          <6>2. ~(i < n)
            BY <1>1, <4>2, <5>2, <6>1
          <6> QED
            BY <1>4, <1>5, <3>1, <5>2, <6>2
        <5> QED
          BY <1>1, <4>2, <5>1, <5>2
      <4> QED
        BY <1>1, <1>4, <1>5, <3>1, <4>1, <4>2 DEF Traverses
    <3> QED
      BY <1>1, <1>2, <3>1, <3>2 DEF Traverses
  <2>2. CASE EnterSector
    <3>1. starts' = Append(starts, index) /\ sectors' = Append(sectors, here)
          /\ (index > 1 => here # path[index - 1].sector)
      BY <1>1, <2>2 DEF EnterSector, Enters
    <3>2. /\ starts' \in Seq(Nat) /\ sectors' \in Seq(Sectors)
          /\ Len(starts') = n + 1 /\ Len(sectors') = n + 1
          /\ \A i \in 1 .. n : starts'[i] = starts[i] /\ sectors'[i] = sectors[i]
          /\ starts'[n + 1] = index /\ sectors'[n + 1] = here
      BY <1>1, <1>3, <1>4, <3>1
    <3>3. /\ \A i \in 1 .. n : 1 <= starts[i] /\ starts[i] <= index - 1
          /\ \A i, j \in 1 .. n : i < j => starts[i] < starts[j]
          /\ \A i \in 1 .. n : i > 1 => sectors[i] # sectors[i - 1]
          /\ index - 1 = 0 => n = 0
          /\ index - 1 > 0 => n > 0 /\ starts[1] = 1
      BY <1>1 DEF Traverses
    <3> DEFINE st == starts'
               sec == sectors'
    <3>0. n \in Nat /\ index \in Nat /\ index >= 1
      BY <1>1, <1>4
    <3> HIDE DEF n, here, st, sec
    <3>a. /\ \A i \in 1 .. n : st[i] = starts[i] /\ sec[i] = sectors[i] /\ starts[i] \in Nat
          /\ st[n + 1] = index /\ sec[n + 1] = here
      BY <1>4, <3>2 DEF st, sec
    <3>4. st[1] = 1
      BY <3>0, <3>a, <3>3
    <3>5. \A i \in 1 .. n + 1 : 1 <= st[i] /\ st[i] <= index
      BY <3>0, <3>a, <3>3
    <3>6. \A i, j \in 1 .. n + 1 : i < j => st[i] < st[j]
      BY <3>0, <3>a, <3>3
    <3>7. ASSUME NEW i \in 1 .. n + 1, NEW node \in Nat, st[i] <= node, node <= index,
                 i < n + 1 => node < st[i + 1]
          PROVE  path[node].sector = sec[i]
      <4>1. CASE i = n + 1
        BY <3>0, <3>a, <3>5, <3>7, <4>1 DEF here
      <4>2. CASE i < n + 1
        <5>1. i \in 1 .. n /\ node <= index - 1 /\ (i < n => node < starts[i + 1])
              /\ starts[i] <= node
          <6>1. i \in 1 .. n /\ i + 1 \in 1 .. n + 1
            BY <3>0, <4>2
          <6>2. st[i + 1] = IF i < n THEN starts[i + 1] ELSE index
            BY <3>0, <3>a, <6>1
          <6>3. starts[i] <= node /\ (i < n => node < starts[i + 1])
            BY <3>0, <3>a, <3>7, <4>2, <6>1, <6>2
          <6>4. i < n => starts[i + 1] <= index - 1 /\ starts[i + 1] \in Nat
            BY <3>0, <3>a, <3>3, <6>1
          <6>5. i = n => node < index
            BY <3>7, <4>2, <6>2
          <6> QED
            BY <3>0, <6>1, <6>3, <6>4, <6>5
        <5>2. path[node].sector = sectors[i]
          BY <1>1, <5>1 DEF Traverses, n
        <5> QED
          BY <3>a, <5>1, <5>2
      <4> QED
        BY <3>0, <4>1, <4>2
    <3>8. ASSUME NEW i \in 1 .. n + 1, i > 1 PROVE sec[i] # sec[i - 1]
      <4>1. CASE i = n + 1
        <5>1. n > 0 /\ index > 1 /\ i - 1 = n
          BY <3>0, <3>3, <3>8, <4>1
        <5> QED
          BY <1>5, <3>0, <3>1, <3>a, <4>1, <5>1
      <4>2. CASE i < n + 1
        BY <3>0, <3>a, <3>3, <3>8, <4>2
      <4> QED
        BY <3>0, <4>1, <4>2
    <3>9. Traverses(st, sec, index)
      <4>1. st \in Seq(Nat) /\ sec \in Seq(Sectors) /\ Len(st) = n + 1 /\ Len(sec) = n + 1
        BY <3>2 DEF st, sec
      <4>2. \A i \in 1 .. Len(st) :
               /\ 1 <= st[i] /\ st[i] <= index
               /\ \A j \in 1 .. Len(st) : i < j => st[i] < st[j]
               /\ i > 1 => sec[i] # sec[i - 1]
        BY <3>5, <3>6, <3>8, <4>1
      <4>3. \A i \in 1 .. Len(st), node \in Nat :
               /\ st[i] <= node /\ node <= index
               /\ i < Len(st) => node < st[i + 1]
               => path[node].sector = sec[i]
        BY <3>7, <4>1
      <4>4. (index = 0 => Len(st) = 0) /\ Len(st) > 0 /\ st[1] = 1
        BY <3>0, <3>4, <4>1
      <4> QED
        BY <4>1, <4>2, <4>3, <4>4 DEF Traverses
    <3> QED
      <4>1. index' - 1 = index
        BY <1>2, <3>0
      <4> QED
        BY <1>2, <3>9, <4>1 DEF Traverses, st, sec
  <2> QED
    BY <2>1, <2>2
<1> QED
  BY <1>1, <1>2, <1>6 DEF RouteInv, GraphInv, HookInv, PathInv, Graphed, Hooked

\* The stretches of the sectors lie one after the other.
LEMMA Stretches ==
    ASSUME PathInv, Traverses(starts, sectors, Len(path))
    PROVE  /\ Len(starts) \in Nat /\ Len(starts) > 0 /\ Len(path) \in Nat /\ Len(path) > 1
           /\ starts[1] = 1
           /\ \A i \in 1 .. Len(starts) :
                /\ From(i) \in Nat /\ From(i) >= 1 /\ Upto(i) \in Nat /\ Upto(i) <= Len(path)
                /\ starts[i] \in Nat /\ starts[i] <= From(i) /\ starts[i] <= Len(path)
           /\ \A i, j \in 1 .. Len(starts) : i < j => Upto(i) < From(j) /\ starts[i] < starts[j]
<1>1. /\ Len(path) \in Nat /\ Len(path) > 1
      /\ Len(starts) \in Nat /\ Len(starts) > 0 /\ starts[1] = 1
      /\ \A i \in 1 .. Len(starts) : starts[i] \in Nat /\ 1 <= starts[i] /\ starts[i] <= Len(path)
      /\ \A i, j \in 1 .. Len(starts) : i < j => starts[i] < starts[j]
  BY DEF PathInv, Traverses
<1>2. ASSUME NEW i \in 1 .. Len(starts)
      PROVE  /\ From(i) \in Nat /\ From(i) >= 1 /\ Upto(i) \in Nat /\ Upto(i) <= Len(path)
             /\ starts[i] <= From(i)
  BY <1>1 DEF From, Upto
<1>3. ASSUME NEW i \in 1 .. Len(starts), NEW j \in 1 .. Len(starts), i < j
      PROVE  Upto(i) < From(j)
  <2>1. Upto(i) = starts[i + 1] /\ From(j) = starts[j] + 1 /\ i + 1 \in 1 .. Len(starts)
    BY <1>1, <1>3 DEF From, Upto
  <2>2. starts[i + 1] <= starts[j]
    <3>1. CASE i + 1 = j
      BY <1>1, <3>1
    <3>2. CASE i + 1 < j
      BY <1>1, <2>1, <3>2
    <3> QED
      BY <1>3, <3>1, <3>2
  <2> QED
    BY <1>1, <2>1, <2>2
<1> QED
  BY <1>1, <1>2, <1>3

\* The hooks begin with none.
LEMMA GraphEndStep ==
    ASSUME RouteInv, GraphEnd PROVE RouteInv'
<1>1. /\ stage = "graph" /\ index = Len(path) + 1 /\ Len(path) \in Nat /\ PathInv
      /\ Traverses(starts, sectors, index - 1) /\ sector = 1 /\ haven = FALSE
  <2>1. DOMAIN path = 1 .. Len(path) /\ Len(path) \in Nat /\ PathInv
    BY DEF RouteInv, PathInv
  <2> QED
    BY <2>1 DEF RouteInv, GraphInv, HookInv, GraphEnd
<1>2. Traverses(starts, sectors, Len(path))
  <2>1. index - 1 = Len(path)
    BY <1>1
  <2> QED
    BY <1>1, <2>1
<1>3. /\ stage' = "instruct" /\ index' = 1 /\ sector' = 1 /\ haven' = FALSE
      /\ UNCHANGED <<path, sectors, starts>>
  BY <1>1 DEF GraphEnd, route
<1>4. hooks' = [i \in 1 .. Len(starts) |-> 0]
  <2>1. DOMAIN sectors = 1 .. Len(starts)
    BY <1>1 DEF Traverses
  <2> QED
    BY <2>1 DEF GraphEnd, NoHook
<1>5. Traverses(starts, sectors, Len(path))'
  BY <1>2, <1>3 DEF Traverses
<1>6. HookInv'
  <2>1. HooksBefore(index)'
    <3>1. \A i \in 1 .. Len(starts) : From(i) >= 1 /\ From(i) \in Nat
      BY <1>1, <1>2, Stretches
    <3>2. \A i \in 1 .. Len(starts) : From(i)' = From(i)
      BY <1>3 DEF From
    <3> QED
      BY <1>3, <1>4, <3>1, <3>2 DEF HooksBefore, NoHook
  <2>2. From(sector)' = 1 /\ Upto(sector)' = Upto(1) /\ 1 <= Upto(1)
    <3>1. 1 \in 1 .. Len(starts) /\ (1 < Len(starts) => 2 \in 1 .. Len(starts) /\ 1 < 2)
      BY <1>1, <1>2, Stretches
    <3> QED
      BY <1>1, <1>2, <1>3, <3>1, Stretches DEF From, Upto
  <2>3. index' \in 1 .. Len(path') /\ sector' \in 1 .. Len(starts')
    BY <1>1, <1>2, <1>3, Stretches
  <2>4. /\ \A i \in 1 .. Len(starts') : hooks'[i] = 0
        /\ haven' \in BOOLEAN /\ (haven' <=> hooks'[sector'] # 0)
    BY <1>3, <1>4, <2>3
  <2>5. From(sector)' <= index' /\ index' <= Upto(sector)'
    BY <1>3, <2>2
  <2> QED
    BY <1>3, <2>1, <2>3, <2>4, <2>5 DEF HookInv, NoHook, Hooked, Graphed
<1> QED
  BY <1>1, <1>3, <1>5, <1>6 DEF RouteInv, GraphInv, PathInv, Graphed

\* The loop of generate_instructions_global.
LEMMA InstructStep ==
    ASSUME RouteInv, Instruct PROVE RouteInv'
<1> DEFINE n == Len(starts)
<1>1. /\ stage = "instruct" /\ PathInv /\ Traverses(starts, sectors, Len(path))
      /\ index \in Nat /\ index >= 1 /\ index < Len(path) /\ Len(path) \in Nat
      /\ sector \in 1 .. n /\ From(sector) <= index /\ index <= Upto(sector)
      /\ haven \in BOOLEAN /\ (haven <=> hooks[sector] # 0)
      /\ \A i \in 1 .. n : i > sector => hooks[i] = 0
      /\ HooksBefore(index) /\ n = Len(sectors) /\ n \in Nat
  <2>1. stage = "instruct" /\ index \in Instructions
    BY DEF Instruct
  <2>2. Traverses(starts, sectors, Len(path)) /\ PathInv /\ Len(path) \in Nat
    BY <2>1 DEF RouteInv, GraphInv, PathInv, Graphed
  <2>3. n = Len(sectors) /\ n \in Nat
    BY <2>2 DEF Traverses
  <2>4. index \in Nat /\ index >= 1 /\ index < Len(path)
    BY <2>1, <2>2 DEF Instructions
  <2>5. /\ sector \in 1 .. n /\ From(sector) <= index /\ index <= Upto(sector)
        /\ haven \in BOOLEAN /\ (haven <=> hooks[sector] # 0)
        /\ \A i \in 1 .. n : i > sector => hooks[i] = 0
        /\ HooksBefore(index)
    BY <2>1 DEF RouteInv, HookInv, NoHook
  <2> QED
    BY <2>1, <2>2, <2>3, <2>4, <2>5
<1>2. /\ stage' = "instruct" /\ index' = index + 1 /\ UNCHANGED <<path, sectors, starts>>
  BY <1>1 DEF Instruct, route
<1>3. /\ From(sector) \in Nat /\ From(sector) >= 1 /\ Upto(sector) \in Nat
      /\ \A i \in 1 .. n : From(i) \in Nat /\ Upto(i) \in Nat /\ From(i) >= 1
      /\ \A i, j \in 1 .. n : i < j => Upto(i) < From(j)
  BY <1>1, Stretches
\* The node belongs to the stretch of the current sector alone.
<1>4. \A i \in 1 .. n : From(i) <= index /\ index <= Upto(i) => i = sector
  <2> SUFFICES ASSUME NEW i \in 1 .. n, From(i) <= index, index <= Upto(i), i # sector
               PROVE  FALSE
    OBVIOUS
  <2>1. CASE i < sector
    BY <1>1, <1>3, <2>1
  <2>2. CASE sector < i
    BY <1>1, <1>3, <2>2
  <2> QED
    BY <1>1, <2>1, <2>2
<1>5. /\ hooks \in [1 .. n -> Nat]
      /\ hooks' = IF ~haven /\ path[index].safe THEN [hooks EXCEPT ![sector] = index] ELSE hooks
  BY <1>1 DEF Instruct, HooksBefore, HooksWith, GetsHook
<1>6. /\ hooks' \in [1 .. n -> Nat]
      /\ \A i \in 1 .. n : i # sector => hooks'[i] = hooks[i]
      /\ hooks'[sector] = IF ~haven /\ path[index].safe THEN index ELSE hooks[sector]
  BY <1>1, <1>5
<1>7. HooksBefore(index)'
  <2>0. \A i \in 1 .. n : From(i)' = From(i) /\ Upto(i)' = Upto(i)
    BY <1>2 DEF From, Upto
  <2> SUFFICES ASSUME NEW i \in 1 .. n
               PROVE  /\ hooks'[i] # 0 =>
                          /\ From(i) <= hooks'[i] /\ hooks'[i] <= Upto(i)
                          /\ hooks'[i] < index + 1 /\ path[hooks'[i]].safe
                      /\ hooks'[i] = 0 =>
                          \A k \in Nat : From(i) <= k /\ k <= Upto(i) /\ k < index + 1
                                            => ~path[k].safe
    BY <1>2, <1>6, <2>0 DEF HooksBefore, NoHook
  <2>1. /\ hooks[i] # 0 =>
             /\ From(i) <= hooks[i] /\ hooks[i] <= Upto(i)
             /\ hooks[i] < index /\ path[hooks[i]].safe
        /\ hooks[i] = 0 =>
             \A k \in Nat : From(i) <= k /\ k <= Upto(i) /\ k < index => ~path[k].safe
        /\ hooks[i] \in Nat
    BY <1>1 DEF HooksBefore, NoHook
  <2>2. ASSUME hooks'[i] # 0
        PROVE  /\ From(i) <= hooks'[i] /\ hooks'[i] <= Upto(i)
               /\ hooks'[i] < index + 1 /\ path[hooks'[i]].safe
    BY <1>1, <1>6, <2>1, <2>2
  <2>3. ASSUME hooks'[i] = 0, NEW k \in Nat, From(i) <= k, k <= Upto(i), k < index + 1
        PROVE  ~path[k].safe
    <3>1. hooks[i] = 0
      BY <1>1, <1>6, <2>3
    <3>2. CASE k < index
      BY <2>1, <2>3, <3>1, <3>2
    <3>3. CASE k = index
      BY <1>1, <1>4, <1>6, <2>3, <3>1, <3>3
    <3> QED
      BY <1>1, <2>3, <3>2, <3>3
  <2> QED
    BY <2>2, <2>3
<1>8. HookInv'
  <2>1. CASE IsNextStart(index)
    <3>1. /\ sector < n /\ index = starts[sector + 1] /\ sector' = sector + 1 /\ haven' = FALSE
      BY <1>1, <2>1 DEF Instruct, IsNextStart
    <3>2. /\ sector + 1 \in 1 .. n /\ sector + 1 # 1
          /\ \A i \in 1 .. n : i > sector + 1 => i > sector
      BY <1>1, <3>1
    <3>3. From(sector + 1) = index + 1 /\ index + 1 <= Upto(sector + 1)
      <4>1. From(sector + 1) = index + 1
        BY <3>1, <3>2 DEF From
      <4>2. CASE sector + 1 < n
        <5>1. sector + 2 \in 1 .. n /\ sector + 1 < sector + 2
          BY <1>1, <4>2
        <5>2. starts[sector + 1] < starts[sector + 2] /\ starts[sector + 2] \in Nat
          BY <1>1, <3>2, <5>1, Stretches
        <5>3. Upto(sector + 1) = starts[sector + 2]
          BY <1>1, <4>2 DEF Upto
        <5> QED
          BY <1>1, <3>1, <4>1, <5>2, <5>3
      <4>3. CASE ~(sector + 1 < n)
        BY <1>1, <4>1, <4>3 DEF Upto
      <4> QED
        BY <4>2, <4>3
    <3>4. hooks'[sector + 1] = 0
      BY <1>1, <1>6, <3>1, <3>2
    <3>5. \A i \in 1 .. n : i > sector + 1 => hooks'[i] = 0
      BY <1>1, <1>6, <3>2
    <3>6. From(sector)' = From(sector + 1) /\ Upto(sector)' = Upto(sector + 1)
      BY <1>2, <3>1 DEF From, Upto
    <3>7. index' \in 1 .. Len(path') /\ sector' \in 1 .. Len(starts')
      BY <1>1, <1>2, <3>1, <3>2
    <3>8. \A i \in 1 .. Len(starts') : i > sector' => hooks'[i] = 0
      BY <1>2, <3>1, <3>5
    <3>9. haven' \in BOOLEAN /\ (haven' <=> hooks'[sector'] # 0)
      BY <3>1, <3>4
    <3>10. From(sector)' <= index' /\ index' <= Upto(sector)'
      BY <1>1, <1>2, <1>3, <3>2, <3>3, <3>6
    <3> QED
      BY <1>2, <1>7, <3>7, <3>8, <3>9, <3>10
         DEF HookInv, NoHook, Hooked, Graphed
  <2>2. CASE ~IsNextStart(index)
    <3>1. sector' = sector /\ haven' = (haven \/ (~haven /\ path[index].safe))
          /\ ~(sector < n /\ index = starts[sector + 1])
      BY <1>1, <2>2 DEF Instruct, IsNextStart, GetsHook
    <3>2. index + 1 <= Upto(sector)
      <4>1. CASE sector < n
        <5>1. Upto(sector) = starts[sector + 1]
          BY <4>1 DEF Upto
        <5> QED
          BY <1>1, <1>3, <3>1, <4>1, <5>1
      <4>2. CASE ~(sector < n)
        BY <1>1, <4>2 DEF Upto
      <4> QED
        BY <4>1, <4>2
    <3>3. From(sector)' = From(sector) /\ Upto(sector)' = Upto(sector)
      BY <1>2, <3>1 DEF From, Upto
    <3>4. haven' \in BOOLEAN /\ (haven' <=> hooks'[sector] # 0)
      <4>1. haven' \in BOOLEAN
        BY <3>1, Zenon
      <4>2. CASE haven
        <5>1. haven' = TRUE
          BY <3>1, <4>2, Zenon
        <5> QED
          BY <1>1, <1>6, <4>2, <5>1
      <4>3. CASE ~haven /\ path[index].safe
        <5>1. haven' = TRUE
          BY <3>1, <4>3, Zenon
        <5> QED
          BY <1>1, <1>6, <4>3, <5>1
      <4>4. CASE ~haven /\ ~path[index].safe
        <5>1. haven' = FALSE
          BY <3>1, <4>4, Zenon
        <5> QED
          BY <1>1, <1>6, <4>4, <5>1
      <4> QED
        BY <4>1, <4>2, <4>3, <4>4
    <3>5. \A i \in 1 .. n : i > sector => hooks'[i] = 0
      BY <1>1, <1>6
    <3> QED
      BY <1>1, <1>2, <1>3, <1>7, <3>1, <3>2, <3>3, <3>4, <3>5
         DEF HookInv, NoHook, Hooked, Graphed
  <2> QED
    BY <2>1, <2>2
<1> QED
  BY <1>1, <1>2, <1>8 DEF RouteInv, GraphInv, PathInv, Graphed, Traverses

\* From the last node on the graph and the hooks are left as they are.
LEMMA LaterStep ==
    ASSUME RouteInv,
           \/ InstructEnd \/ Deconflict
           \/ ConvertStart \/ ConvertSplit \/ ConvertPose
           \/ ConvertEnd \/ ExecuteSegment \/ BreakOff \/ Arrive
    PROVE  RouteInv'
<1>1. /\ UNCHANGED <<path, sectors, starts, hooks>>
      /\ stage' \in {"deconflict", "convert", "drive", "cancelled", "arrived"}
      /\ \/ stage \in {"deconflict", "convert", "drive", "cancelled", "arrived"}
         \/ stage = "instruct" /\ index \notin Instructions
  BY DEF InstructEnd, Deconflict, ConvertStart, Converting,
         ConvertSplit, ConvertPose, ConvertEnd, Driving,
         ExecuteSegment, BreakOff, Arrive, route, plan
<1>2. HooksBefore(Len(path))
  <2>1. CASE stage = "instruct" /\ index \notin Instructions
    <3>1. index = Len(path)
      BY <2>1 DEF RouteInv, PathInv, HookInv, Instructions
    <3> QED
      BY <2>1, <3>1 DEF RouteInv, HookInv
  <2>2. CASE stage \in {"deconflict", "convert", "drive", "cancelled", "arrived"}
    BY <2>2 DEF RouteInv, HookInv, Hooked, Graphed
  <2> QED
    BY <1>1, <2>1, <2>2
<1>3. HooksBefore(Len(path))'
  BY <1>1, <1>2 DEF HooksBefore, From, Upto
<1>4. Traverses(starts, sectors, Len(path)) /\ PathInv
  BY <1>1 DEF RouteInv, GraphInv, Graphed
<1>5. Traverses(starts, sectors, Len(path))' /\ PathInv'
  BY <1>1, <1>4 DEF Traverses, PathInv, Nodes
<1> QED
  BY <1>1, <1>3, <1>5 DEF RouteInv, GraphInv, HookInv, Graphed

LEMMA RouteStep == ASSUME RouteInv, [RouteNext]_routeVars PROVE RouteInv'
<1>1. CASE UNCHANGED routeVars
  BY <1>1 DEF routeVars, route, plan, goal, RouteInv, PathInv, GraphInv,
              HookInv, Traverses, HooksBefore, From, Upto, Nodes, Graphed,
              Hooked
<1> QED
  BY <1>1, ReverseStep, GraphStep, GraphEndStep, InstructStep, LaterStep DEF RouteNext

-----------------------------------------------------------------------------
(* The theorems of the route *)

\* The inductive invariant of the traversal and its hooks holds for every path and
\* any number of sectors.
THEOREM RouteInvariant == RouteSpec => []RouteInv
<1>1. RouteInit => RouteInv
  BY RouteInvInit
<1>2. RouteInv /\ [RouteNext]_routeVars => RouteInv'
  BY RouteStep
<1> QED
  BY <1>1, <1>2, PTL DEF RouteSpec

\* generate_reservationgraph cuts every path into its sectors, also one that comes
\* back to a sector it has left.
THEOREM SectorsAlwaysFollowPath == RouteSpec => []SectorsFollowPath
<1>1. RouteInv => SectorsFollowPath
  <2> SUFFICES ASSUME RouteInv, Graphed
               PROVE  /\ Len(starts) = Len(sectors) /\ starts[1] = 1
                      /\ \A i \in DOMAIN starts :
                          /\ starts[i] <= LastOf(i)
                          /\ \A node \in starts[i] .. LastOf(i) : path[node].sector = sectors[i]
                          /\ i > 1 => sectors[i] # sectors[i - 1]
    BY DEF SectorsFollowPath
  <2>1. Traverses(starts, sectors, Len(path)) /\ PathInv
    BY DEF RouteInv, GraphInv
  <2>2. /\ DOMAIN starts = 1 .. Len(starts) /\ Len(starts) \in Nat /\ Len(path) \in Nat
        /\ Len(starts) = Len(sectors) /\ starts[1] = 1
        /\ \A i \in 1 .. Len(starts) : starts[i] \in Nat /\ starts[i] <= Len(path)
    BY <2>1, Stretches DEF Traverses
  <2>3. ASSUME NEW i \in 1 .. Len(starts)
        PROVE  /\ starts[i] <= LastOf(i)
               /\ \A node \in starts[i] .. LastOf(i) : path[node].sector = sectors[i]
               /\ i > 1 => sectors[i] # sectors[i - 1]
    <3>1. i < Len(starts) => starts[i + 1] \in Nat /\ starts[i] < starts[i + 1]
                             /\ starts[i + 1] <= Len(path)
      BY <2>1, <2>2 DEF Traverses
    <3>2. LastOf(i) \in Nat /\ starts[i] <= LastOf(i)
          /\ LastOf(i) <= Len(path)
          /\ (i < Len(starts) => LastOf(i) < starts[i + 1])
      BY <2>2, <3>1 DEF LastOf
    <3>3. ASSUME NEW node \in starts[i] .. LastOf(i)
          PROVE  path[node].sector = sectors[i]
      <4>1. node \in Nat /\ starts[i] <= node /\ node <= Len(path)
            /\ (i < Len(starts) => node < starts[i + 1])
        BY <2>2, <3>1, <3>2
      <4> QED
        BY <2>1, <4>1 DEF Traverses
    <3>4. i > 1 => sectors[i] # sectors[i - 1]
      BY <2>1 DEF Traverses
    <3> QED
      BY <3>2, <3>3, <3>4
  <2> QED
    BY <2>2, <2>3
<1> QED
  BY <1>1, RouteInvariant, PTL

\* generate_instructions_global hooks the wait of a sector on a node where a rover may
\* wait, and on its first such node, for every path.
THEOREM HooksAreAlwaysHavens == RouteSpec => []HooksAreHavens
<1>1. RouteInv => HooksAreHavens
  <2> SUFFICES ASSUME RouteInv, Hooked
               PROVE  HooksAreHavens
    BY DEF HooksAreHavens
  <2>1. /\ Traverses(starts, sectors, Len(path)) /\ PathInv
        /\ HooksBefore(Len(path))
    BY DEF RouteInv, GraphInv, HookInv, Hooked
  <2>2. /\ DOMAIN hooks = 1 .. Len(starts) /\ Len(starts) \in Nat /\ Len(path) \in Nat
        /\ \A i \in 1 .. Len(starts) :
            /\ From(i) \in Nat /\ Upto(i) \in Nat /\ starts[i] \in Nat /\ hooks[i] \in Nat
            /\ starts[i] <= From(i) /\ Upto(i) <= Len(path)
        /\ \A i, j \in 1 .. Len(starts) : i < j => Upto(i) < From(j)
    BY <2>1, Stretches DEF HooksBefore
  <2>3. ASSUME NEW i \in 1 .. Len(starts), hooks[i] # NoHook
        PROVE  path[hooks[i]].safe /\ hooks[i] \in starts[i] .. LastOf(i) + 1
    <3>1. From(i) <= hooks[i] /\ hooks[i] <= Upto(i) /\ path[hooks[i]].safe
      BY <2>1, <2>3 DEF HooksBefore
    <3>2. LastOf(i) \in Int /\ Upto(i) <= LastOf(i) + 1
      BY <2>2 DEF Upto, LastOf
    <3> QED
      BY <2>2, <3>1, <3>2
  <2>4. ASSUME NEW i \in 1 .. Len(starts), hooks[i] = NoHook,
               NEW node \in (starts[i] + 1 .. LastOf(i)) \cap Instructions
        PROVE  ~path[node].safe
    <3>1. LastOf(i) \in Int /\ LastOf(i) <= Upto(i)
      BY <2>2 DEF Upto, LastOf
    <3>2. From(i) <= starts[i] + 1
      BY <2>1, <2>2, Stretches DEF From
    <3>3. node \in Nat /\ From(i) <= node /\ node <= Upto(i) /\ node < Len(path)
      BY <2>2, <3>1, <3>2 DEF Instructions
    <3> QED
      BY <2>1, <2>4, <3>3 DEF HooksBefore
  <2>5. ASSUME NEW i \in 1 .. Len(starts), NEW j \in 1 .. Len(starts), i < j,
               hooks[i] # NoHook, hooks[j] # NoHook
        PROVE  hooks[i] < hooks[j]
    <3>1. hooks[i] <= Upto(i) /\ From(j) <= hooks[j]
      BY <2>1, <2>5 DEF HooksBefore
    <3> QED
      BY <2>2, <2>5, <3>1
  <2> QED
    BY <2>2, <2>3, <2>4, <2>5 DEF HooksAreHavens
<1> QED
  BY <1>1, RouteInvariant, PTL
-----------------------------------------------------------------------------
(* A route is driven as it was planned: the inductive invariant *)

\* The poses a, a + 1, ..., b.
Stretch(a, b) == [j \in 1 .. b - a + 1 |-> a + j - 1]

\* The pose segment k begins with, and the first of its poses whose hook was not
\* waited at before it.
StartOf(segs, k) == IF k = 1 THEN 1 ELSE Last(segs[k - 1])
FreshOf(segs, k) == IF k = 1 THEN 1 ELSE Last(segs[k - 1]) + 1

\* The first count segments are stretches of the path, each ending with the next
\* planned wait, which is the duration after it.
IsCut(segs, durs, count) ==
    /\ segs \in Seq(Seq(Nat)) /\ durs \in Seq(Int)
    /\ \A k \in 1 .. count :
        /\ Last(segs[k]) \in 1 .. Len(path) - 1
        /\ FreshOf(segs, k) <= Last(segs[k])
        /\ segs[k] = Stretch(StartOf(segs, k), Last(segs[k]))
        /\ durs[k + 1] > 0 /\ HookWait(Last(segs[k])) = <<durs[k + 1]>>
        /\ \A n \in Nat : FreshOf(segs, k) <= n /\ n < Last(segs[k]) => HookWait(n) = <<>>

\* Where the converter is: the segment under way is a stretch up to here without a
\* planned wait, and the hooks that are used are behind it or ahead.
AtWork ==
    LET k == Len(segments) + 1 IN
    /\ index \in 1 .. Len(path) /\ sector \in 1 .. Len(starts) + 1
    /\ Len(durations) = k /\ durations[1] = firstWait
    /\ StartOf(segments, k) <= index
    /\ poses = Stretch(StartOf(segments, k), index - 1)
    /\ \A n \in Nat : FreshOf(segments, k) <= n /\ n < index => HookWait(n) = <<>>
    /\ sector <= Len(starts) => waits[sector] > 0
    /\ \A i \in 1 .. Len(starts) : waits[i] > 0 =>
        IF i < sector THEN hooks[i] < FreshOf(segments, k)
        ELSE index <= hooks[i] /\ FreshOf(segments, k) <= hooks[i]

\* The finished goal: the last segment ends with the last instruction.
IsGoal ==
    LET last == Len(segments) IN
    /\ last > 0 /\ Len(durations) = last /\ durations[1] = firstWait
    /\ IsCut(segments, durations, last - 1)
    /\ Last(segments[last]) = Len(path) - 1
    /\ StartOf(segments, last) <= Len(path) - 1
    /\ segments[last] = Stretch(StartOf(segments, last), Len(path) - 1)
    /\ \A n \in Nat : FreshOf(segments, last) <= n /\ n < Len(path) => HookWait(n) = <<>>

\* What the rover has done before segment index.
IsDone ==
    LET here == StartOf(segments, index) IN
    /\ index \in 1 .. Len(segments) + 1
    /\ log \in Seq([pose : Nat, waits : Seq(Int)]) /\ Len(log) = here
    /\ \A n \in 1 .. here : log[n].pose = n
    /\ \A n \in 1 .. here - 1 : log[n].waits = Planned(n)
    /\ log[here].waits = IF index = 1 THEN <<>>
                         ELSE IF index <= Len(segments) THEN FirstWait(here)
                         ELSE Planned(here)

WaitsInv ==
    stage \in {"convert", "drive", "cancelled", "arrived"} =>
        /\ firstWait \in Nat /\ waits \in [1 .. Len(starts) -> Int]
        /\ \A i \in 1 .. Len(starts) : waits[i] > 0 => hooks[i] # NoHook

PlanInv ==
    /\ WaitsInv
    /\ stage \notin {"drive", "cancelled", "arrived"} => log = <<At(1)>>
    /\ stage \notin {"convert", "drive", "cancelled", "arrived"} =>
        segments = <<>> /\ durations = <<>> /\ poses = <<>>
    /\ stage \in {"deconflict"} => index = 1
    /\ stage = "convert" /\ durations = <<>> =>
        index = 1 /\ segments = <<>> /\ poses = <<>>
    /\ stage = "convert" /\ durations # <<>> =>
        IsCut(segments, durations, Len(segments)) /\ AtWork
    /\ stage \in {"drive", "cancelled", "arrived"} => IsGoal /\ IsDone
    /\ stage = "arrived" => index = Len(segments) + 1

-----------------------------------------------------------------------------
(* Hooks, waits and segments *)

\* What the hooks are from InstructEnd on.
LEMMA HooksAre ==
    ASSUME RouteInv, Hooked
    PROVE  /\ Len(starts) \in Nat /\ Len(path) \in Nat /\ Len(path) > 1
           /\ hooks \in [1 .. Len(starts) -> Nat]
           /\ \A i \in 1 .. Len(starts) : hooks[i] # NoHook => 1 <= hooks[i] /\ hooks[i] < Len(path)
           /\ \A i, j \in 1 .. Len(starts) :
                i < j /\ hooks[i] # NoHook /\ hooks[j] # NoHook => hooks[i] < hooks[j]
<1>1. /\ Traverses(starts, sectors, Len(path)) /\ PathInv
      /\ HooksBefore(Len(path))
  BY DEF RouteInv, GraphInv, HookInv, Hooked
<1>2. /\ Len(starts) \in Nat /\ Len(path) \in Nat /\ Len(path) > 1
      /\ \A i \in 1 .. Len(starts) : From(i) \in Nat /\ From(i) >= 1 /\ Upto(i) \in Nat
      /\ \A i, j \in 1 .. Len(starts) : i < j => Upto(i) < From(j)
  BY <1>1, Stretches
<1>3. hooks \in [1 .. Len(starts) -> Nat]
  BY <1>1 DEF HooksBefore
<1>4. \A i \in 1 .. Len(starts) : hooks[i] # NoHook =>
          From(i) <= hooks[i] /\ hooks[i] <= Upto(i) /\ hooks[i] < Len(path)
  BY <1>1 DEF HooksBefore
<1>5. ASSUME NEW i \in 1 .. Len(starts), NEW j \in 1 .. Len(starts), i < j,
             hooks[i] # NoHook, hooks[j] # NoHook
      PROVE  hooks[i] < hooks[j]
  <2>1. hooks[i] <= Upto(i) /\ From(j) <= hooks[j] /\ Upto(i) < From(j)
    BY <1>2, <1>4, <1>5
  <2>2. hooks[i] \in Nat /\ hooks[j] \in Nat /\ Upto(i) \in Nat /\ From(j) \in Nat
    BY <1>2, <1>3
  <2> QED
    BY <2>1, <2>2
<1>6. \A i \in 1 .. Len(starts) : hooks[i] # NoHook => 1 <= hooks[i] /\ hooks[i] < Len(path)
  BY <1>2, <1>3, <1>4
<1> QED
  BY <1>2, <1>3, <1>5, <1>6

\* The hook that is used on a pose is the only one, and what is waited there is its
\* wait.
LEMMA HookWaitIs ==
    ASSUME RouteInv, Hooked, waits \in [1 .. Len(starts) -> Int],
           \A i \in 1 .. Len(starts) : waits[i] > 0 => hooks[i] # NoHook
    PROVE  /\ \A i \in 1 .. Len(starts) : waits[i] > 0 => HookWait(hooks[i]) = <<waits[i]>>
           /\ \A n : (\A i \in 1 .. Len(starts) : waits[i] > 0 => hooks[i] # n)
                     => HookWait(n) = <<>>
<1>1. DOMAIN hooks = 1 .. Len(starts)
  BY HooksAre
<1>2. ASSUME NEW i \in 1 .. Len(starts), waits[i] > 0
      PROVE  HookWait(hooks[i]) = <<waits[i]>>
  <2> DEFINE used == {j \in DOMAIN hooks : hooks[j] = hooks[i] /\ waits[j] > 0}
  <2>1. ASSUME NEW j \in used PROVE j = i
    <3>1. j \in 1 .. Len(starts) /\ hooks[j] = hooks[i]
          /\ hooks[j] # NoHook /\ hooks[i] # NoHook
      BY <1>1, <1>2
    <3>2. hooks[i] \in Nat /\ ~(i < j) /\ ~(j < i) /\ Len(starts) \in Nat
      BY <1>2, <3>1, HooksAre
    <3> QED
      BY <1>2, <3>1, <3>2
  <2>2. i \in used
    BY <1>1, <1>2
  <2>3. used = {i}
    BY <2>1, <2>2
  <2>4. (CHOOSE j \in used : TRUE) = i
    BY <2>3
  <2>5. HookWait(hooks[i]) = IF used = {} THEN <<>> ELSE <<waits[CHOOSE j \in used : TRUE]>>
    BY DEF HookWait
  <2> HIDE DEF used
  <2> QED
    BY <2>2, <2>4, <2>5
<1>3. ASSUME NEW n, \A i \in 1 .. Len(starts) : waits[i] > 0 => hooks[i] # n
      PROVE  HookWait(n) = <<>>
  <2>1. {j \in DOMAIN hooks : hooks[j] = n /\ waits[j] > 0} = {}
    BY <1>1, <1>3
  <2> QED
    BY <2>1 DEF HookWait
<1> QED
  BY <1>2, <1>3

LEMMA LeastOf ==
    ASSUME NEW S, S \subseteq Nat, S # {}
    PROVE  Min(S) \in S /\ \A k \in S : Min(S) <= k
<1>1. PICK m \in S : \A k \in S : ~ (<<k, m>> \in OpToRel(<, Nat))
  BY NatLessThanWellFounded, WFMin
<1>2. ASSUME NEW k \in S PROVE m <= k
  <2>1. k \in Nat /\ m \in Nat
    OBVIOUS
  <2>2. ~(k < m)
    BY <1>1, <2>1 DEF OpToRel
  <2> QED
    BY <2>1, <2>2
<1> QED
  BY <1>2 DEF Min

\* The converter's inner loop stops at the first hook from i on that is used.
LEMMA UsedIs ==
    ASSUME Len(starts) \in Nat, waits \in [1 .. Len(starts) -> Int],
           NEW i \in 1 .. Len(starts) + 1
    PROVE  /\ Used(i) \in i .. Len(starts) + 1
           /\ \A j \in i .. Used(i) - 1 : ~(waits[j] > 0)
           /\ Used(i) <= Len(starts) => waits[Used(i)] > 0
<1>1. Len(waits) = Len(starts)
  OBVIOUS
<1> DEFINE used == {j \in i .. Len(waits) : waits[j] > 0}
<1>2. Used(i) = IF used = {} THEN Len(waits) + 1 ELSE Min(used)
  BY DEF Used
<1>3. used \subseteq Nat
  BY <1>1
<1>4. CASE used = {}
  <2>1. Used(i) = Len(starts) + 1
    BY <1>1, <1>2, <1>4
  <2>2. \A j \in i .. Len(starts) : ~(waits[j] > 0)
    BY <1>1, <1>4
  <2> QED
    BY <2>1, <2>2
<1>5. CASE used # {}
  <2>1. Used(i) = Min(used) /\ Min(used) \in used /\ \A k \in used : Min(used) <= k
    <3> HIDE DEF used
    <3> QED
      BY <1>2, <1>3, <1>5, LeastOf
  <2>2. Used(i) \in i .. Len(starts) /\ waits[Used(i)] > 0
    BY <1>1, <2>1
  <2>3. ASSUME NEW j \in i .. Used(i) - 1 PROVE ~(waits[j] > 0)
    <3>1. j \in i .. Len(waits) /\ j < Used(i)
      BY <1>1, <2>2
    <3>2. j \notin used
      BY <2>1, <2>2, <3>1
    <3> QED
      BY <3>1, <3>2
  <2> QED
    BY <2>2, <2>3
<1> QED
  BY <1>4, <1>5

\* A segment added at the end leaves the ones before it and where they begin.
LEMMA SegmentAdded ==
    ASSUME NEW segs \in Seq(Seq(Nat)), NEW seg \in Seq(Nat)
    PROVE  LET more == Append(segs, seg) IN
           /\ more \in Seq(Seq(Nat)) /\ Len(more) = Len(segs) + 1 /\ Len(segs) \in Nat
           /\ more[Len(segs) + 1] = seg
           /\ \A k \in 1 .. Len(segs) : more[k] = segs[k]
           /\ \A k \in 1 .. Len(segs) + 1 : /\ StartOf(more, k) = StartOf(segs, k)
                                            /\ FreshOf(more, k) = FreshOf(segs, k)
<1> DEFINE more == Append(segs, seg)
<1>1. /\ more \in Seq(Seq(Nat)) /\ Len(more) = Len(segs) + 1 /\ Len(segs) \in Nat
      /\ more[Len(segs) + 1] = seg
      /\ \A k \in 1 .. Len(segs) : more[k] = segs[k]
  OBVIOUS
<1> HIDE DEF more
<1>2. ASSUME NEW k \in 1 .. Len(segs) + 1
      PROVE  StartOf(more, k) = StartOf(segs, k) /\ FreshOf(more, k) = FreshOf(segs, k)
  <2>1. k # 1 => k - 1 \in 1 .. Len(segs)
    BY <1>1
  <2>2. k # 1 => more[k - 1] = segs[k - 1]
    BY <1>1, <2>1
  <2> QED
    BY <2>2 DEF StartOf, FreshOf
<1> QED
  BY <1>1, <1>2 DEF more

LEMMA CutStays ==
    ASSUME NEW segs, NEW durs, NEW seg \in Seq(Nat), NEW durs2 \in Seq(Int),
           IsCut(segs, durs, Len(segs)),
           \A k \in 1 .. Len(segs) : durs2[k + 1] = durs[k + 1]
    PROVE  IsCut(Append(segs, seg), durs2, Len(segs))
<1> DEFINE more == Append(segs, seg)
<1>1. segs \in Seq(Seq(Nat))
  BY DEF IsCut
<1>2. /\ more \in Seq(Seq(Nat)) /\ Len(segs) \in Nat
      /\ \A k \in 1 .. Len(segs) : more[k] = segs[k]
      /\ \A k \in 1 .. Len(segs) + 1 : /\ StartOf(more, k) = StartOf(segs, k)
                                       /\ FreshOf(more, k) = FreshOf(segs, k)
  BY <1>1, SegmentAdded
<1> HIDE DEF more
<1>3. ASSUME NEW k \in 1 .. Len(segs)
      PROVE  /\ Last(more[k]) \in 1 .. Len(path) - 1
             /\ FreshOf(more, k) <= Last(more[k])
             /\ more[k] = Stretch(StartOf(more, k), Last(more[k]))
             /\ durs2[k + 1] > 0 /\ HookWait(Last(more[k])) = <<durs2[k + 1]>>
             /\ \A n \in Nat : FreshOf(more, k) <= n /\ n < Last(more[k]) => HookWait(n) = <<>>
  <2>1. more[k] = segs[k] /\ StartOf(more, k) = StartOf(segs, k)
        /\ FreshOf(more, k) = FreshOf(segs, k)
    BY <1>2
  <2> QED
    BY <2>1 DEF IsCut
<1> QED
  BY <1>2, <1>3 DEF IsCut, more

-----------------------------------------------------------------------------
(* The steps of the converter *)

\* What the later functions leave alone, the waits that are planned depend on.
LEMMA PlannedSame ==
    ASSUME UNCHANGED <<path, hooks, waits, firstWait>>
    PROVE  /\ \A n : HookWait(n)' = HookWait(n) /\ FirstWait(n)' = FirstWait(n)
                     /\ Planned(n)' = Planned(n)
           /\ IsCut(segments', durations', Len(segments'))
                => IsCut(segments, durations, Len(segments))'
           /\ IsCut(segments', durations', Len(segments') - 1)
                => IsCut(segments, durations, Len(segments) - 1)'
<1>1. \A n : HookWait(n)' = HookWait(n) /\ FirstWait(n)' = FirstWait(n)
  BY DEF HookWait, FirstWait
<1>2. \A n : Planned(n)' = Planned(n)
  BY <1>1 DEF Planned
<1>3. IsCut(segments', durations', Len(segments')) => IsCut(segments, durations, Len(segments))'
  BY <1>1 DEF IsCut
<1>4. IsCut(segments', durations', Len(segments') - 1)
        => IsCut(segments, durations, Len(segments) - 1)'
  BY <1>1 DEF IsCut
<1> QED
  BY <1>1, <1>2, <1>3, <1>4

LEMMA PlanInvInit == ASSUME RouteInit PROVE PlanInv
BY DEF RouteInit, PlanInv, WaitsInv

LEMMA EarlyPlanStep ==
    ASSUME PlanInv,
           \/ ReverseToPath \/ EnterSector \/ StayInSector \/ GraphEnd
           \/ Instruct \/ InstructEnd
    PROVE  PlanInv'
<1>1. /\ stage \in {"search", "graph", "instruct"}
      /\ stage' \in {"graph", "instruct", "deconflict"}
      /\ stage' = "deconflict" => index' = 1
      /\ UNCHANGED <<poses, goal, log>>
  BY DEF ReverseToPath, EnterSector, StayInSector, GraphEnd, Instruct, InstructEnd
<1> QED
  BY <1>1 DEF PlanInv, WaitsInv, goal, At

LEMMA DeconflictPlan == ASSUME RouteInv, PlanInv, Deconflict PROVE PlanInv'
<1>1. /\ stage = "deconflict" /\ stage' = "convert"
      /\ UNCHANGED <<starts, hooks, index, poses, segments, durations, log>>
      /\ firstWait' \in Nat /\ waits' \in [DOMAIN hooks -> Waits \cup {Unused}]
      /\ \A i \in DOMAIN hooks : hooks[i] = NoHook => waits'[i] = Unused
  BY DEF Deconflict, route, goal
<1>2. hooks \in [1 .. Len(starts) -> Nat]
  BY <1>1, HooksAre DEF Hooked, Graphed
<1>3. waits' \in [1 .. Len(starts) -> Int]
  <2>1. Waits \cup {Unused} \subseteq Int
    BY RouteAssumption DEF Unused
  <2>2. DOMAIN hooks = 1 .. Len(starts)
    BY <1>2
  <2> QED
    BY <1>1, <2>1, <2>2
<1>4. \A i \in 1 .. Len(starts) : waits'[i] > 0 => hooks[i] # NoHook
  BY <1>1, <1>2 DEF Unused
<1>5. WaitsInv'
  BY <1>1, <1>3, <1>4 DEF WaitsInv
<1> QED
  BY <1>1, <1>5 DEF PlanInv, At

LEMMA ConvertStartPlan == ASSUME RouteInv, PlanInv, ConvertStart PROVE PlanInv'
<1>1. /\ stage = "convert" /\ durations = <<>> /\ durations' = <<firstWait>>
      /\ sector' = Used(1) /\ index = 1 /\ segments = <<>> /\ poses = <<>> /\ log = <<At(1)>>
      /\ UNCHANGED <<stage, path, starts, hooks, waits, firstWait, index, poses, segments, log>>
  BY DEF ConvertStart, PlanInv, route, plan
<1>2. /\ firstWait \in Nat /\ waits \in [1 .. Len(starts) -> Int]
      /\ \A i \in 1 .. Len(starts) : waits[i] > 0 => hooks[i] # NoHook
  BY <1>1 DEF PlanInv, WaitsInv
<1>3. /\ Len(starts) \in Nat /\ Len(path) \in Nat /\ Len(path) > 1
      /\ hooks \in [1 .. Len(starts) -> Nat]
      /\ \A i \in 1 .. Len(starts) : hooks[i] # NoHook => 1 <= hooks[i]
  BY <1>1, HooksAre DEF Hooked, Graphed
<1>4. /\ Used(1) \in 1 .. Len(starts) + 1
      /\ \A i \in 1 .. Used(1) - 1 : ~(waits[i] > 0)
      /\ Used(1) <= Len(starts) => waits[Used(1)] > 0
  BY <1>1, <1>2, <1>3, UsedIs
<1>5. IsCut(segments, durations, Len(segments))'
  BY <1>1, <1>2 DEF IsCut
<1>6. AtWork'
  <2>1. StartOf(segments', 1) = 1 /\ FreshOf(segments', 1) = 1 /\ Len(segments') = 0
    BY <1>1 DEF StartOf, FreshOf
  <2>2. poses' = Stretch(1, 0)
    BY <1>1 DEF Stretch
  <2>3. durations'[1] = firstWait' /\ Len(durations') = 1 /\ index' = 1
    BY <1>1
  <2>4. ASSUME NEW i \in 1 .. Len(starts), waits[i] > 0
        PROVE  ~(i < Used(1)) /\ 1 <= hooks[i]
    <3>1. Used(1) \in Int /\ i \in Nat /\ 1 <= i
      BY <1>3, <1>4
    <3>2. i < Used(1) => i \in 1 .. Used(1) - 1
      BY <3>1
    <3> QED
      BY <1>2, <1>3, <1>4, <2>4, <3>2
  <2> QED
    BY <1>1, <1>3, <1>4, <2>1, <2>2, <2>3, <2>4 DEF AtWork
<1>7. durations' # <<>> /\ WaitsInv'
  BY <1>1, <1>2 DEF WaitsInv
<1> QED
  BY <1>1, <1>5, <1>6, <1>7 DEF PlanInv, At

\* What holds while the converter works, for the three steps that follow.
LEMMA Working ==
    ASSUME RouteInv, PlanInv, Converting
    PROVE  /\ Len(starts) \in Nat /\ Len(path) \in Nat /\ Len(path) > 1
           /\ firstWait \in Nat /\ waits \in [1 .. Len(starts) -> Int]
           /\ hooks \in [1 .. Len(starts) -> Nat]
           /\ \A i \in 1 .. Len(starts) : hooks[i] # NoHook => 1 <= hooks[i] /\ hooks[i] < Len(path)
           /\ \A i, j \in 1 .. Len(starts) :
                i < j /\ waits[i] > 0 /\ waits[j] > 0 => hooks[i] < hooks[j]
           /\ \A i \in 1 .. Len(starts) : waits[i] > 0 => HookWait(hooks[i]) = <<waits[i]>>
           /\ \A n : (\A i \in 1 .. Len(starts) : waits[i] > 0 => hooks[i] # n)
                     => HookWait(n) = <<>>
           /\ Len(segments) \in Nat /\ Len(durations) = Len(segments) + 1
           /\ StartOf(segments, Len(segments) + 1) \in Nat
           /\ StartOf(segments, Len(segments) + 1) < Len(path)
           /\ FreshOf(segments, Len(segments) + 1) \in Nat
           /\ IsCut(segments, durations, Len(segments)) /\ AtWork
           /\ log = <<At(1)>>
<1>1. stage = "convert" /\ durations # <<>> /\ Hooked
  BY DEF Converting, Hooked, Graphed
<1>2. /\ firstWait \in Nat /\ waits \in [1 .. Len(starts) -> Int]
      /\ \A i \in 1 .. Len(starts) : waits[i] > 0 => hooks[i] # NoHook
      /\ IsCut(segments, durations, Len(segments)) /\ AtWork /\ log = <<At(1)>>
  BY <1>1 DEF PlanInv, WaitsInv
<1>3. /\ Len(starts) \in Nat /\ Len(path) \in Nat /\ Len(path) > 1
      /\ hooks \in [1 .. Len(starts) -> Nat]
      /\ \A i \in 1 .. Len(starts) : hooks[i] # NoHook => 1 <= hooks[i] /\ hooks[i] < Len(path)
      /\ \A i, j \in 1 .. Len(starts) :
           i < j /\ waits[i] > 0 /\ waits[j] > 0 => hooks[i] < hooks[j]
  BY <1>1, <1>2, HooksAre
<1>4. /\ \A i \in 1 .. Len(starts) : waits[i] > 0 => HookWait(hooks[i]) = <<waits[i]>>
      /\ \A n : (\A i \in 1 .. Len(starts) : waits[i] > 0 => hooks[i] # n)
                => HookWait(n) = <<>>
  BY <1>1, <1>2, HookWaitIs
<1>5. Len(segments) \in Nat /\ Len(durations) = Len(segments) + 1
  BY <1>2 DEF IsCut, AtWork
<1>6. /\ StartOf(segments, Len(segments) + 1) \in Nat
      /\ StartOf(segments, Len(segments) + 1) < Len(path)
      /\ FreshOf(segments, Len(segments) + 1) \in Nat
  <2>1. CASE Len(segments) = 0
    BY <1>3, <2>1 DEF StartOf, FreshOf
  <2>2. CASE Len(segments) # 0
    <3>1. /\ Len(segments) \in 1 .. Len(segments) /\ Len(segments) + 1 # 1
          /\ Len(segments) + 1 - 1 = Len(segments)
      BY <1>5, <2>2
    <3>2. Last(segments[Len(segments)]) \in Nat /\ Last(segments[Len(segments)]) < Len(path)
      BY <1>2, <3>1 DEF IsCut
    <3> QED
      BY <3>1, <3>2 DEF StartOf, FreshOf
  <2> QED
    BY <2>1, <2>2
<1> QED
  BY <1>2, <1>3, <1>4, <1>5, <1>6

\* A pose that is not a hook's is not waited at.
LEMMA ConvertPosePlan == ASSUME RouteInv, PlanInv, ConvertPose PROVE PlanInv'
<1>1. /\ Converting /\ stage = "convert" /\ durations # <<>>
      /\ index \in Instructions /\ ~AtHook /\ poses' = Append(poses, index)
      /\ index' = index + 1
      /\ UNCHANGED <<stage, path, starts, hooks, waits, firstWait, sector, segments,
                     durations, log>>
  BY DEF ConvertPose, Converting, route, plan, goal
<1> DEFINE k == Len(segments) + 1
           from == StartOf(segments, k)
           fresh == FreshOf(segments, k)
<1>2. /\ Len(starts) \in Nat /\ Len(path) \in Nat
      /\ hooks \in [1 .. Len(starts) -> Nat] /\ waits \in [1 .. Len(starts) -> Int]
      /\ \A i, j \in 1 .. Len(starts) :
           i < j /\ waits[i] > 0 /\ waits[j] > 0 => hooks[i] < hooks[j]
      /\ \A n : (\A i \in 1 .. Len(starts) : waits[i] > 0 => hooks[i] # n)
                => HookWait(n) = <<>>
      /\ from \in Nat /\ fresh \in Nat
      /\ IsCut(segments, durations, Len(segments)) /\ AtWork
  BY <1>1, Working
<1>3. /\ index \in 1 .. Len(path) /\ sector \in 1 .. Len(starts) + 1
      /\ Len(durations) = k /\ durations[1] = firstWait
      /\ from <= index /\ poses = Stretch(from, index - 1)
      /\ \A n \in Nat : fresh <= n /\ n < index => HookWait(n) = <<>>
      /\ sector <= Len(starts) => waits[sector] > 0
      /\ \A i \in 1 .. Len(starts) : waits[i] > 0 =>
          IF i < sector THEN hooks[i] < fresh ELSE index <= hooks[i] /\ fresh <= hooks[i]
  BY <1>2 DEF AtWork
<1> HIDE DEF k, from, fresh
<1>4. index < Len(path) /\ index + 1 \in 1 .. Len(path)
  BY <1>1, <1>2, <1>3 DEF Instructions
<1>5. \A i \in 1 .. Len(starts) : waits[i] > 0 /\ ~(i < sector) => hooks[i] # index
  <2> SUFFICES ASSUME NEW i \in 1 .. Len(starts), waits[i] > 0, ~(i < sector), hooks[i] = index
               PROVE  FALSE
    OBVIOUS
  <2>1. sector \in 1 .. Len(starts) /\ waits[sector] > 0
    BY <1>2, <1>3
  <2>2. sector # i
    BY <1>1, <1>2, <2>1 DEF AtHook
  <2>3. sector < i
    BY <1>3, <2>2
  <2>4. hooks[sector] < hooks[i] /\ index <= hooks[sector]
    BY <1>2, <1>3, <2>1, <2>3
  <2> QED
    BY <1>2, <1>3, <2>1, <2>4
<1>6. fresh <= index => HookWait(index) = <<>>
  <2> SUFFICES ASSUME fresh <= index
               PROVE  \A i \in 1 .. Len(starts) : waits[i] > 0 => hooks[i] # index
    BY <1>2
  <2> TAKE i \in 1 .. Len(starts)
  <2> HAVE waits[i] > 0
  <2>1. CASE i < sector
    BY <1>2, <1>3, <2>1
  <2>2. CASE ~(i < sector)
    BY <1>5, <2>2
  <2> QED
    BY <2>1, <2>2
<1>7. \A n \in Nat : fresh <= n /\ n < index + 1 => HookWait(n) = <<>>
  <2> TAKE n \in Nat
  <2>1. n < index + 1 => n < index \/ n = index
    BY <1>3
  <2> QED
    BY <1>3, <1>6, <2>1
<1>8. \A i \in 1 .. Len(starts) : waits[i] > 0 =>
        IF i < sector THEN hooks[i] < fresh ELSE index + 1 <= hooks[i] /\ fresh <= hooks[i]
  <2> TAKE i \in 1 .. Len(starts)
  <2> HAVE waits[i] > 0
  <2>1. hooks[i] \in Nat /\ index \in Nat
    BY <1>2, <1>3
  <2> QED
    BY <1>3, <1>5, <2>1
<1>9. poses' = Stretch(from, index + 1 - 1)
  BY <1>1, <1>2, <1>3 DEF Stretch
<1>10. IsCut(segments, durations, Len(segments))'
  BY <1>1, <1>2, PlannedSame
<1>11. AtWork'
  <2>1. \A n : HookWait(n)' = HookWait(n)
    BY <1>1, PlannedSame
  <2>2. k' = k /\ from' = from /\ fresh' = fresh
    BY <1>1 DEF k, from, fresh
  <2>3. from <= index + 1
    BY <1>2, <1>3
  <2>4. \A n \in Nat : fresh <= n /\ n < index' => HookWait(n)' = <<>>
    BY <1>1, <1>7, <2>1
  <2> QED
    BY <1>1, <1>3, <1>4, <1>8, <1>9, <2>2, <2>3, <2>4 DEF AtWork, k, from, fresh
<1>12. WaitsInv' /\ log' = <<At(1)>>
  BY <1>1, Working DEF PlanInv, WaitsInv
<1> QED
  BY <1>1, <1>10, <1>11, <1>12 DEF PlanInv, At

\* A hook that is used ends a segment, and the next one begins at its pose.
LEMMA ConvertSplitPlan == ASSUME RouteInv, PlanInv, ConvertSplit PROVE PlanInv'
<1> DEFINE k == Len(segments) + 1
           from == StartOf(segments, k)
           fresh == FreshOf(segments, k)
           seg == Append(poses, index)
           more == Append(segments, seg)
           durs == Append(durations, waits[sector])
<1>1. /\ Converting /\ stage = "convert" /\ durations # <<>>
      /\ index \in Instructions /\ AtHook /\ poses' = <<>>
      /\ segments' = more /\ durations' = durs
      /\ sector' = Used(sector + 1)
      /\ UNCHANGED <<stage, path, starts, hooks, waits, firstWait, index, log>>
  BY DEF ConvertSplit, Converting, route, plan
<1>2. /\ Len(starts) \in Nat /\ Len(path) \in Nat
      /\ hooks \in [1 .. Len(starts) -> Nat] /\ waits \in [1 .. Len(starts) -> Int]
      /\ \A i, j \in 1 .. Len(starts) :
           i < j /\ waits[i] > 0 /\ waits[j] > 0 => hooks[i] < hooks[j]
      /\ \A i \in 1 .. Len(starts) : waits[i] > 0 => HookWait(hooks[i]) = <<waits[i]>>
      /\ Len(segments) \in Nat /\ from \in Nat /\ fresh \in Nat
      /\ IsCut(segments, durations, Len(segments)) /\ AtWork
  BY <1>1, Working
<1>3. /\ index \in 1 .. Len(path) /\ sector \in 1 .. Len(starts) + 1
      /\ Len(durations) = k /\ durations[1] = firstWait
      /\ from <= index /\ poses = Stretch(from, index - 1)
      /\ \A n \in Nat : fresh <= n /\ n < index => HookWait(n) = <<>>
      /\ sector <= Len(starts) => waits[sector] > 0
      /\ \A i \in 1 .. Len(starts) : waits[i] > 0 =>
          IF i < sector THEN hooks[i] < fresh ELSE index <= hooks[i] /\ fresh <= hooks[i]
  BY <1>2 DEF AtWork
<1>4. segments \in Seq(Seq(Nat)) /\ durations \in Seq(Int)
  BY <1>2 DEF IsCut
<1>5. index < Len(path) /\ index \in Nat /\ index \in 1 .. Len(path) - 1
  BY <1>1, <1>2, <1>3 DEF Instructions
<1>6. /\ sector \in 1 .. Len(starts) /\ waits[sector] > 0 /\ waits[sector] \in Int
      /\ hooks[sector] = index /\ fresh <= index
  <2>1. sector \in 1 .. Len(starts) /\ hooks[sector] = index
    BY <1>1, <1>2 DEF AtHook
  <2>2. sector <= Len(starts) /\ ~(sector < sector) /\ waits[sector] \in Int
    BY <1>2, <2>1
  <2>3. waits[sector] > 0
    BY <1>3, <2>2
  <2>4. fresh <= hooks[sector]
    BY <1>3, <2>1, <2>2, <2>3
  <2> QED
    BY <2>1, <2>2, <2>3, <2>4
<1>7. seg = Stretch(from, index) /\ seg \in Seq(Nat) /\ Last(seg) = index
  <2>1. from \in Nat /\ index \in Nat /\ from <= index /\ poses = Stretch(from, index - 1)
    BY <1>2, <1>3, <1>5
  <2> HIDE DEF from
  <2>2. poses \in Seq(Nat) /\ Len(poses) = index - from
    BY <2>1 DEF Stretch
  <2>3. seg = Stretch(from, index)
    BY <2>1, <2>2 DEF Stretch
  <2>4. seg \in Seq(Nat) /\ Len(seg) = Len(poses) + 1 /\ seg[Len(poses) + 1] = index
    BY <2>1, <2>2
  <2> QED
    BY <2>3, <2>4 DEF Last
<1>8. /\ more \in Seq(Seq(Nat)) /\ Len(more) = k /\ more[k] = seg
      /\ StartOf(more, k) = from /\ FreshOf(more, k) = fresh
  <2>1. k \in 1 .. Len(segments) + 1
    BY <1>2
  <2> HIDE DEF seg
  <2> QED
    BY <1>4, <1>7, <2>1, SegmentAdded
<1>9. /\ durs \in Seq(Int) /\ Len(durs) = k + 1 /\ durs[k + 1] = waits[sector]
      /\ durs[1] = firstWait
      /\ \A i \in 1 .. Len(segments) : durs[i + 1] = durations[i + 1]
  BY <1>2, <1>3, <1>4, <1>6
<1>10. StartOf(more, k + 1) = index /\ FreshOf(more, k + 1) = index + 1
  <2>1. k + 1 # 1 /\ k + 1 - 1 = k
    BY <1>2
  <2> HIDE DEF k, more
  <2> QED
    BY <1>7, <1>8, <2>1 DEF StartOf, FreshOf
<1>11. IsCut(more, durs, k)
  <2>1. IsCut(more, durs, Len(segments))
    <3> HIDE DEF seg, durs
    <3> QED
      BY <1>2, <1>7, <1>9, CutStays
  <2>2. /\ Last(more[k]) \in 1 .. Len(path) - 1
        /\ FreshOf(more, k) <= Last(more[k])
        /\ more[k] = Stretch(StartOf(more, k), Last(more[k]))
        /\ durs[k + 1] > 0 /\ HookWait(Last(more[k])) = <<durs[k + 1]>>
        /\ \A n \in Nat : FreshOf(more, k) <= n /\ n < Last(more[k]) => HookWait(n) = <<>>
    <3>1. more[k] = Stretch(from, index) /\ Last(more[k]) = index
      BY <1>7, <1>8
    <3>2. HookWait(index) = <<waits[sector]>>
      BY <1>2, <1>6
    <3> HIDE DEF more, durs, k, from, fresh
    <3> QED
      BY <1>3, <1>5, <1>6, <1>8, <1>9, <3>1, <3>2
  <2>3. \A i \in 1 .. k : i \in 1 .. Len(segments) \/ i = k
    BY <1>2
  <2> HIDE DEF more, durs, k
  <2> QED
    BY <2>1, <2>2, <2>3 DEF IsCut
<1>12. /\ Used(sector + 1) \in sector + 1 .. Len(starts) + 1
       /\ \A j \in sector + 1 .. Used(sector + 1) - 1 : ~(waits[j] > 0)
       /\ Used(sector + 1) <= Len(starts) => waits[Used(sector + 1)] > 0
  <2>1. sector + 1 \in 1 .. Len(starts) + 1
    BY <1>2, <1>6
  <2> QED
    BY <1>2, <2>1, UsedIs
<1>13. ASSUME NEW i \in 1 .. Len(starts), waits[i] > 0
       PROVE  IF i < Used(sector + 1) THEN hooks[i] < index + 1
              ELSE index <= hooks[i] /\ index + 1 <= hooks[i]
  <2>1. Used(sector + 1) \in Int /\ i \in Int /\ sector \in Int /\ hooks[i] \in Nat
        /\ sector < Used(sector + 1)
    BY <1>2, <1>6, <1>12
  <2>2. CASE i <= sector
    <3>1. i = sector \/ hooks[i] < hooks[sector]
      BY <1>2, <1>6, <1>13, <2>1, <2>2
    <3> QED
      BY <1>5, <1>6, <2>1, <2>2, <3>1
  <2>3. CASE sector < i
    <3>1. ~(i < Used(sector + 1))
      <4>1. i < Used(sector + 1) => i \in sector + 1 .. Used(sector + 1) - 1
        BY <2>1, <2>3
      <4> QED
        BY <1>12, <1>13, <4>1
    <3>2. hooks[sector] < hooks[i]
      BY <1>2, <1>6, <1>13, <2>3
    <3> QED
      BY <1>5, <1>6, <2>1, <3>1, <3>2
  <2> QED
    BY <2>1, <2>2, <2>3
<1>14. IsCut(segments, durations, Len(segments))'
  <2>1. IsCut(segments', durations', Len(segments'))
    BY <1>1, <1>8, <1>11
  <2> QED
    BY <1>1, <2>1, PlannedSame
<1>15. AtWork'
  <2>1. Len(segments') + 1 = k + 1 /\ index' = index /\ sector' = Used(sector + 1)
        /\ Len(durations') = k + 1 /\ durations'[1] = firstWait'
    BY <1>1, <1>8, <1>9
  <2>2. StartOf(segments', k + 1) = index /\ FreshOf(segments', k + 1) = index + 1
    BY <1>1, <1>10
  <2>3. poses' = Stretch(index, index - 1)
    BY <1>1, <1>5 DEF Stretch
  <2>4. \A n \in Nat : ~(index + 1 <= n /\ n < index)
    BY <1>5
  <2>5. Used(sector + 1) \in 1 .. Len(starts) + 1
    BY <1>2, <1>6, <1>12
  <2> HIDE DEF k
  <2> QED
    BY <1>1, <1>3, <1>5, <1>12, <1>13, <2>1, <2>2, <2>3, <2>4, <2>5 DEF AtWork
<1>16. WaitsInv' /\ log' = <<At(1)>> /\ durations' # <<>>
  <2>1. durs # <<>>
    BY <1>4
  <2> QED
    BY <1>1, <2>1, Working DEF PlanInv, WaitsInv
<1> QED
  BY <1>1, <1>14, <1>15, <1>16 DEF PlanInv, At

\* The last instruction ends the last segment.
LEMMA ConvertEndPlan == ASSUME RouteInv, PlanInv, ConvertEnd PROVE PlanInv'
<1> DEFINE k == Len(segments) + 1
           from == StartOf(segments, k)
           fresh == FreshOf(segments, k)
           more == Append(segments, poses)
<1>1. /\ Converting /\ stage = "convert" /\ index \notin Instructions
      /\ segments' = (IF poses = <<>> THEN segments ELSE more)
      /\ stage' = "drive" /\ index' = 1
      /\ UNCHANGED <<path, starts, hooks, waits, firstWait, durations, log>>
  BY DEF ConvertEnd, Converting, route, plan
<1>2. /\ Len(path) \in Nat /\ Len(segments) \in Nat /\ from \in Nat /\ from < Len(path)
      /\ fresh \in Nat
      /\ IsCut(segments, durations, Len(segments)) /\ AtWork
      /\ log = <<At(1)>>
  BY <1>1, Working
<1>3. /\ index \in 1 .. Len(path)
      /\ Len(durations) = k /\ durations[1] = firstWait
      /\ poses = Stretch(from, index - 1)
      /\ \A n \in Nat : fresh <= n /\ n < index => HookWait(n) = <<>>
  BY <1>2 DEF AtWork
<1>4. index = Len(path)
  BY <1>1, <1>2, <1>3 DEF Instructions
<1>5. poses = Stretch(from, Len(path) - 1) /\ poses \in Seq(Nat) /\ poses # <<>>
      /\ Last(poses) = Len(path) - 1
  <2> HIDE DEF from
  <2>1. poses = Stretch(from, Len(path) - 1)
    BY <1>3, <1>4
  <2>2. poses \in Seq(Nat) /\ Len(poses) = Len(path) - from
        /\ poses[Len(path) - from] = Len(path) - 1
    BY <1>2, <2>1 DEF Stretch
  <2> QED
    BY <1>2, <2>1, <2>2 DEF Last
<1>6. segments \in Seq(Seq(Nat)) /\ durations \in Seq(Int)
  BY <1>2 DEF IsCut
<1>7. /\ more \in Seq(Seq(Nat)) /\ Len(more) = k /\ more[k] = poses
      /\ StartOf(more, k) = from /\ FreshOf(more, k) = fresh /\ StartOf(more, 1) = 1
  <2>1. k \in 1 .. Len(segments) + 1
    BY <1>2
  <2> QED
    BY <1>5, <1>6, <2>1, SegmentAdded DEF StartOf
<1>8. IsCut(more, durations, k - 1)
  <2>1. IsCut(more, durations, Len(segments))
    BY <1>2, <1>5, <1>6, CutStays
  <2> QED
    BY <1>2, <2>1
<1>9. segments' = more
  BY <1>1, <1>5
<1> HIDE DEF more
<1>10. IsCut(segments, durations, Len(segments) - 1)'
  <2>1. IsCut(segments', durations', Len(segments') - 1)
    BY <1>1, <1>7, <1>8, <1>9
  <2> QED
    BY <1>1, <2>1, PlannedSame
<1>11. IsGoal'
  <2>1. /\ Len(segments') = k /\ Len(durations') = k /\ durations'[1] = firstWait' /\ k > 0
        /\ StartOf(segments', k) = from /\ FreshOf(segments', k) = fresh
        /\ segments'[k] = poses /\ path' = path
    BY <1>1, <1>2, <1>3, <1>7, <1>9
  <2>2. \A n \in Nat : fresh <= n /\ n < Len(path) => HookWait(n)' = <<>>
    BY <1>1, <1>3, <1>4, PlannedSame
  <2>3. from <= Len(path) - 1
    BY <1>2
  <2> HIDE DEF k, from, fresh
  <2> QED
    BY <1>5, <1>10, <2>1, <2>2, <2>3 DEF IsGoal
<1>12. IsDone'
  <2>1. StartOf(segments', 1) = 1 /\ index' = 1 /\ log' = <<At(1)>> /\ Len(segments') = k
    BY <1>1, <1>2, <1>7, <1>9
  <2>2. /\ <<At(1)>> \in Seq([pose : Nat, waits : Seq(Int)]) /\ Len(<<At(1)>>) = 1
        /\ <<At(1)>>[1].pose = 1 /\ <<At(1)>>[1].waits = <<>>
    BY DEF At
  <2>3. \A n \in 1 .. 0 : FALSE
    OBVIOUS
  <2>4. 1 \in 1 .. k + 1 /\ \A n \in 1 .. 1 : n = 1
    BY <1>2
  <2> HIDE DEF k
  <2> QED
    BY <2>1, <2>2, <2>3, <2>4 DEF IsDone
<1>13. WaitsInv'
  BY <1>1 DEF PlanInv, WaitsInv
<1> QED
  BY <1>1, <1>11, <1>12, <1>13 DEF PlanInv

-----------------------------------------------------------------------------
(* The steps of the drive *)

LEMMA DriveEndPlan == ASSUME PlanInv, BreakOff \/ Arrive PROVE PlanInv'
<1>1. /\ stage = "drive" /\ stage' \in {"cancelled", "arrived"}
      /\ UNCHANGED <<path, starts, hooks, waits, firstWait, index, segments, durations, log>>
      /\ stage' = "arrived" => index \notin DOMAIN segments
  BY DEF BreakOff, Arrive, Driving, route, plan, goal
<1>2. IsGoal /\ IsDone /\ WaitsInv
  BY <1>1 DEF PlanInv
<1>3. IsCut(segments, durations, Len(segments) - 1)'
  BY <1>1, <1>2, PlannedSame DEF IsGoal
<1>4. \A n : HookWait(n)' = HookWait(n) /\ FirstWait(n)' = FirstWait(n) /\ Planned(n)' = Planned(n)
  BY <1>1, PlannedSame
<1>5. IsGoal'
  BY <1>1, <1>2, <1>3, <1>4 DEF IsGoal, StartOf, FreshOf
<1>6. IsDone'
  BY <1>1, <1>2, <1>4 DEF IsDone, StartOf
<1>7. WaitsInv'
  BY <1>1, <1>2 DEF WaitsInv
<1>8. stage' = "arrived" => index' = Len(segments') + 1
  BY <1>1, <1>2 DEF IsGoal, IsDone, IsCut
<1> QED
  BY <1>1, <1>5, <1>6, <1>7, <1>8 DEF PlanInv

\* The wait completes what was planned where the rover is, and the drives lead it
\* through poses without one to the end of the segment.
LEMMA ExecutePlan == ASSUME RouteInv, PlanInv, ExecuteSegment PROVE PlanInv'
<1> DEFINE last == Len(segments)
           here == StartOf(segments, index)
           fresh == FreshOf(segments, index)
           to == Last(segments[index])
           wait == IF durations[index] > 0 THEN <<durations[index]>> ELSE <<>>
           done == log[here].waits \o wait
           ahead == Tail(segments[index])
           before == [log EXCEPT ![here].waits = done]
           drive == [j \in DOMAIN ahead |-> At(ahead[j])]
           now == before \o drive
<1>1. /\ stage = "drive" /\ index \in DOMAIN segments /\ index' = index + 1
      /\ UNCHANGED <<stage, path, starts, hooks, waits, firstWait, segments, durations>>
      /\ IsGoal /\ IsDone /\ WaitsInv
  BY DEF ExecuteSegment, Driving, PlanInv, route, plan, goal
<1>2. /\ Len(path) \in Nat /\ Len(path) > 1 /\ firstWait \in Nat
  BY <1>1, HooksAre DEF Hooked, Graphed, WaitsInv
<1>3. /\ segments \in Seq(Seq(Nat)) /\ durations \in Seq(Int)
      /\ last \in Nat /\ last > 0 /\ Len(durations) = last /\ durations[1] = firstWait
      /\ index \in 1 .. last /\ durations[index] \in Int
  BY <1>1 DEF IsGoal, IsCut
<1>4. /\ to \in 1 .. Len(path) - 1 /\ here <= to
      /\ segments[index] = Stretch(here, to)
      /\ \A n \in Nat : fresh <= n /\ n < to => HookWait(n) = <<>>
      /\ index < last => fresh <= to
      /\ index = last => to = Len(path) - 1 /\ (fresh <= to => HookWait(to) = <<>>)
  <2>1. CASE index = last
    BY <1>1, <1>2, <2>1 DEF IsGoal
  <2>2. CASE index < last
    <3>1. index \in 1 .. last - 1
      BY <1>3, <2>2
    <3>2. /\ to \in 1 .. Len(path) - 1 /\ fresh <= to
          /\ segments[index] = Stretch(here, to)
          /\ \A n \in Nat : fresh <= n /\ n < to => HookWait(n) = <<>>
      BY <1>1, <3>1 DEF IsGoal, IsCut
    <3>3. here <= to
      <4>1. CASE index = 1
        BY <3>2, <4>1 DEF StartOf
      <4>2. CASE index # 1
        <5>1. index - 1 \in 1 .. last - 1
          BY <1>3, <3>1, <4>2
        <5>2. Last(segments[index - 1]) \in 1 .. Len(path) - 1
          BY <1>1, <5>1 DEF IsGoal, IsCut
        <5>3. here = Last(segments[index - 1]) /\ fresh = Last(segments[index - 1]) + 1
          BY <4>2 DEF StartOf, FreshOf
        <5> HIDE DEF here, fresh, to
        <5> QED
          BY <1>2, <3>2, <5>2, <5>3
      <4> QED
        BY <4>1, <4>2
    <3> QED
      BY <2>2, <3>2, <3>3
  <2> QED
    BY <1>3, <2>1, <2>2
<1>5. /\ here \in Nat /\ here >= 1
      /\ index = 1 => here = 1 /\ fresh = 1
      /\ index # 1 => /\ fresh = here + 1 /\ durations[index] > 0
                      /\ HookWait(here) = <<durations[index]>>
  <2>1. CASE index = 1
    BY <2>1 DEF StartOf, FreshOf
  <2>2. CASE index # 1
    <3>1. index - 1 \in 1 .. last - 1 /\ index - 1 + 1 = index
      BY <1>3, <2>2
    <3>2. /\ Last(segments[index - 1]) \in 1 .. Len(path) - 1
          /\ durations[index] > 0 /\ HookWait(Last(segments[index - 1])) = <<durations[index]>>
      BY <1>1, <3>1 DEF IsGoal, IsCut
    <3>3. here = Last(segments[index - 1]) /\ fresh = Last(segments[index - 1]) + 1
      BY <2>2 DEF StartOf, FreshOf
    <3> QED
      BY <1>2, <2>2, <3>2, <3>3
  <2> QED
    BY <2>1, <2>2
<1>6. /\ log \in Seq([pose : Nat, waits : Seq(Int)]) /\ Len(log) = here
      /\ \A n \in 1 .. here : log[n].pose = n
      /\ \A n \in 1 .. here - 1 : log[n].waits = Planned(n)
      /\ log[here].waits = IF index = 1 THEN <<>> ELSE FirstWait(here)
  <2>1. index <= Len(segments)
    BY <1>3
  <2> QED
    BY <1>1, <2>1 DEF IsDone
<1>7. /\ done \in Seq(Int)
      /\ index = 1 => done = FirstWait(1)
      /\ index # 1 => done = Planned(here)
  <2>1. wait \in Seq(Int)
    BY <1>3
  <2>2. FirstWait(here) \in Seq(Int)
    BY <1>2 DEF FirstWait
  <2>3. CASE index = 1
    <3>1. wait = FirstWait(1) /\ log[here].waits = <<>>
      BY <1>3, <1>6, <2>3 DEF FirstWait
    <3> QED
      BY <2>1, <2>3, <3>1
  <2>4. CASE index # 1
    <3>1. wait = HookWait(here) /\ log[here].waits = FirstWait(here)
      BY <1>5, <1>6, <2>4
    <3>2. done = FirstWait(here) \o HookWait(here)
      BY <3>1
    <3>3. HookWait(here) \in Seq(Int)
      BY <2>1, <3>1
    <3>4. done \in Seq(Int)
      <4> HIDE DEF here, wait, done
      <4> QED
        BY <2>2, <3>2, <3>3
    <3> HIDE DEF here, done
    <3> QED
      BY <2>4, <3>2, <3>4 DEF Planned
  <2> QED
    BY <2>3, <2>4
<1>8. /\ ahead \in Seq(Nat) /\ Len(ahead) = to - here
      /\ \A j \in 1 .. to - here : ahead[j] = here + j
  <2>1. /\ here \in Nat /\ to \in Nat /\ here <= to
        /\ segments[index] = Stretch(here, to)
    BY <1>2, <1>4, <1>5
  <2> HIDE DEF here, to
  <2>2. /\ segments[index] \in Seq(Nat) /\ Len(segments[index]) = to - here + 1
        /\ \A j \in 1 .. to - here + 1 : segments[index][j] = here + j - 1
    BY <2>1 DEF Stretch
  <2>3. segments[index] # <<>>
    BY <2>1, <2>2
  <2>4. /\ ahead \in Seq(Nat) /\ Len(ahead) = to - here
        /\ \A j \in 1 .. to - here : ahead[j] = segments[index][j + 1]
    BY <2>1, <2>2, <2>3
  <2>5. \A j \in 1 .. to - here : j + 1 \in 1 .. to - here + 1 /\ here + (j + 1) - 1 = here + j
    BY <2>1
  <2> HIDE DEF ahead
  <2> QED
    BY <2>2, <2>4, <2>5
<1>9. log' = now
  <2>1. index \in DOMAIN durations
    BY <1>3
  <2>2. log' = [log EXCEPT ![Len(log)].waits = @ \o wait] \o drive
    BY <2>1 DEF ExecuteSegment
  <2>3. [log EXCEPT ![here].waits = @ \o wait] = before
    OBVIOUS
  <2> QED
    BY <1>6, <2>2, <2>3
<1>10. /\ before \in Seq([pose : Nat, waits : Seq(Int)]) /\ Len(before) = here
       /\ before[here].pose = here /\ before[here].waits = done
       /\ \A n \in 1 .. here - 1 : before[n] = log[n]
  <2>1. here \in 1 .. Len(log) /\ log[here].pose = here
    BY <1>5, <1>6
  <2> DEFINE Rec == [pose : Nat, waits : Seq(Int)]
  <2>2. log \in Seq(Rec) /\ Len(log) = here /\ done \in Seq(Int)
    BY <1>6, <1>7
  <2> HIDE DEF done, here
  <2>3. log[here] \in Rec
    <3> HIDE DEF Rec
    <3> QED
      BY <2>1, <2>2
  <2> DEFINE rec == [log[here] EXCEPT !.waits = done]
  <2>4. rec \in [pose : Nat, waits : Seq(Int)] /\ rec.pose = here /\ rec.waits = done
    BY <2>1, <2>2, <2>3
  <2>5. before = [log EXCEPT ![here] = rec]
    OBVIOUS
  <2> HIDE DEF rec, before
  <2>6. /\ before \in Seq([pose : Nat, waits : Seq(Int)]) /\ Len(before) = here
        /\ before[here] = rec
        /\ \A n \in 1 .. here - 1 : before[n] = log[n]
    BY <2>1, <2>2, <2>4, <2>5
  <2> QED
    BY <2>4, <2>6
<1>11. /\ now \in Seq([pose : Nat, waits : Seq(Int)]) /\ Len(now) = to
       /\ \A n \in 1 .. here : now[n] = before[n]
       /\ \A n \in here + 1 .. to : now[n].pose = n /\ now[n].waits = <<>>
  <2>1. here \in Nat /\ to \in Nat /\ here <= to
    BY <1>2, <1>4, <1>5
  <2> HIDE DEF before, ahead, here, to
  <2> DEFINE m == to - here
             Rec == [pose : Nat, waits : Seq(Int)]
  <2>2. m \in Nat /\ here + m = to
    BY <2>1
  <2>3. drive = [j \in 1 .. m |-> At(here + j)]
    <3>1. DOMAIN ahead = 1 .. m
      BY <1>8, <2>2
    <3> QED
      BY <1>8, <3>1
  <2> HIDE DEF m, drive
  <2>4. \A j \in 1 .. m : At(here + j) \in Rec
    BY <2>1, <2>2 DEF At
  <2>5. before \in Seq(Rec) /\ Len(before) = here
    BY <1>10
  <2> HIDE DEF Rec
  <2>6. drive \in Seq(Rec) /\ Len(drive) = m /\ \A j \in 1 .. m : drive[j] = At(here + j)
    BY <2>2, <2>3, <2>4
  <2>7. /\ now \in Seq(Rec) /\ Len(now) = here + m
        /\ \A n \in 1 .. here : now[n] = before[n]
        /\ \A n \in here + 1 .. here + m : now[n] = drive[n - here]
    <3>1. /\ now \in Seq(Rec) /\ Len(now) = here + m
          /\ \A n \in 1 .. here : now[n] = before[n]
      BY <2>1, <2>2, <2>5, <2>6
    <3>2. ASSUME NEW n \in here + 1 .. here + m PROVE now[n] = drive[n - here]
      <4>1. n \in 1 .. Len(before) + Len(drive) /\ ~(n <= Len(before))
        BY <2>1, <2>2, <2>5, <2>6
      <4> QED
        BY <2>5, <2>6, <4>1
    <3> QED
      BY <3>1, <3>2
  <2> HIDE DEF now
  <2>8. ASSUME NEW n \in here + 1 .. to PROVE now[n].pose = n /\ now[n].waits = <<>>
    <3>1. n - here \in 1 .. m /\ here + (n - here) = n /\ n \in here + 1 .. here + m
      BY <2>1, <2>2
    <3>2. now[n] = At(n)
      BY <2>6, <2>7, <3>1
    <3> QED
      BY <3>2 DEF At
  <2> QED
    BY <2>2, <2>7, <2>8 DEF Rec
<1> HIDE DEF now, before, drive, ahead, done, wait, to, here, fresh, last
<1>12. \A n \in here + 1 .. to :
          FirstWait(n) = <<>> /\ (HookWait(n) = <<>> => Planned(n) = <<>>)
  BY <1>5 DEF FirstWait, Planned
<1>13. here = 1 /\ HookWait(1) = <<>> => Planned(1) = FirstWait(1)
  <2>1. FirstWait(1) \in Seq(Int)
    BY <1>2 DEF FirstWait
  <2> QED
    BY <2>1 DEF Planned
<1>14. to \in Nat
  BY <1>2, <1>4
<1>15. \A n \in 1 .. to - 1 : now[n].waits = Planned(n)
  <2> TAKE n \in 1 .. to - 1
  <2>1. CASE n < here
    BY <1>5, <1>6, <1>10, <1>11, <1>14, <2>1
  <2>2. CASE n = here
    <3>1. now[n].waits = done
      BY <1>5, <1>10, <1>11, <1>14, <2>2
    <3>2. index = 1 => HookWait(1) = <<>>
      BY <1>4, <1>5, <1>14, <2>2
    <3> QED
      BY <1>5, <1>7, <1>13, <2>2, <3>1, <3>2
  <2>3. CASE here < n
    <3>1. n \in here + 1 .. to /\ n \in Nat /\ n < to /\ fresh <= n
      BY <1>5, <1>14, <2>3
    <3> QED
      BY <1>4, <1>11, <1>12, <3>1
  <2> QED
    BY <1>5, <1>14, <2>1, <2>2, <2>3
<1>16. now[to].waits = IF index + 1 <= last THEN FirstWait(to) ELSE Planned(to)
  <2>1. CASE to = here
    <3>1. now[to].waits = done
      BY <1>5, <1>10, <1>11, <2>1
    <3>2. index < last => index = 1
      BY <1>4, <1>5, <2>1
    <3>3. index = 1 /\ index = last => HookWait(1) = <<>>
      BY <1>4, <1>5, <2>1
    <3> QED
      BY <1>3, <1>5, <1>7, <1>13, <2>1, <3>1, <3>2, <3>3
  <2>2. CASE to # here
    <3>1. to \in here + 1 .. to /\ fresh <= to
      BY <1>4, <1>5, <1>14, <2>2
    <3> QED
      BY <1>3, <1>4, <1>11, <1>12, <3>1
  <2> QED
    BY <2>1, <2>2
<1>17. \A n \in 1 .. to : now[n].pose = n
  <2> TAKE n \in 1 .. to
  <2>1. CASE n <= here
    <3>1. n \in 1 .. here /\ now[n] = before[n]
      BY <1>5, <1>11, <1>14, <2>1
    <3>2. n = here \/ n \in 1 .. here - 1
      BY <1>5, <3>1
    <3> QED
      BY <1>6, <1>10, <3>1, <3>2
  <2>2. CASE here < n
    BY <1>5, <1>11, <1>14, <2>2
  <2> QED
    BY <1>5, <1>14, <2>1, <2>2
<1>18. \A n : HookWait(n)' = HookWait(n) /\ FirstWait(n)' = FirstWait(n) /\ Planned(n)' = Planned(n)
  BY <1>1, PlannedSame
<1>19. IsGoal'
  <2>1. IsCut(segments, durations, Len(segments) - 1)'
    BY <1>1, PlannedSame DEF IsGoal
  <2> QED
    BY <1>1, <1>18, <2>1 DEF IsGoal, StartOf, FreshOf
<1>20. IsDone'
  <2>1. StartOf(segments', index + 1) = to /\ index' = index + 1
    BY <1>1, <1>3 DEF StartOf, to
  <2>2. index + 1 \in 1 .. Len(segments) + 1 /\ index + 1 # 1 /\ segments' = segments
    BY <1>1, <1>3
  <2> QED
    BY <1>9, <1>11, <1>15, <1>16, <1>17, <1>18, <2>1, <2>2 DEF IsDone, last
<1>21. WaitsInv'
  BY <1>1 DEF WaitsInv
<1> QED
  BY <1>1, <1>19, <1>20, <1>21 DEF PlanInv

LEMMA PlanStep == ASSUME RouteInv, PlanInv, [RouteNext]_routeVars PROVE PlanInv'
<1>1. CASE UNCHANGED routeVars
  <2>1. UNCHANGED <<stage, path, starts, hooks, waits, firstWait, index, sector, poses,
                    segments, durations, log>>
    BY <1>1 DEF routeVars
  <2>2. /\ \A n : HookWait(n)' = HookWait(n) /\ FirstWait(n)' = FirstWait(n)
                  /\ Planned(n)' = Planned(n)
        /\ IsCut(segments, durations, Len(segments)) => IsCut(segments, durations, Len(segments))'
        /\ IsCut(segments, durations, Len(segments) - 1)
             => IsCut(segments, durations, Len(segments) - 1)'
    BY <2>1, PlannedSame
  <2>3. (WaitsInv => WaitsInv') /\ (AtWork => AtWork') /\ (IsGoal => IsGoal') /\ (IsDone => IsDone')
    <3>1. AtWork => AtWork'
      BY <2>1, <2>2 DEF AtWork, StartOf, FreshOf
    <3>2. IsGoal => IsGoal'
      BY <2>1, <2>2 DEF IsGoal, StartOf, FreshOf
    <3>3. IsDone => IsDone'
      BY <2>1, <2>2 DEF IsDone, StartOf
    <3>4. WaitsInv => WaitsInv'
      BY <2>1 DEF WaitsInv
    <3> QED
      BY <3>1, <3>2, <3>3, <3>4
  <2> QED
    BY <2>1, <2>2, <2>3 DEF PlanInv, At
<1> QED
  BY <1>1, EarlyPlanStep, DeconflictPlan, ConvertStartPlan, ConvertSplitPlan,
     ConvertPosePlan, ConvertEndPlan, ExecutePlan, DriveEndPlan DEF RouteNext

-----------------------------------------------------------------------------
(* The theorem of the drive *)

\* The inductive invariant of the cut into segments and of their execution holds for
\* every path, every choice of hooks and all waits.
THEOREM PlanInvariant == RouteSpec => []PlanInv
<1>1. RouteInit => PlanInv
  BY PlanInvInit
<1>2. RouteInv /\ PlanInv /\ [RouteNext]_routeVars => PlanInv'
  BY PlanStep
<1> QED
  BY <1>1, <1>2, RouteInvariant, PTL DEF RouteSpec

\* From the converter's segments haphazard drives the whole path, pose after pose, and
\* waits where and as long as deconfliction planned, for every path and all waits.
THEOREM DrivenAlwaysAsPlanned == RouteSpec => []DrivenAsPlanned
<1>1. RouteInv /\ PlanInv => DrivenAsPlanned
  <2> SUFFICES ASSUME RouteInv, PlanInv, stage \in {"drive", "cancelled", "arrived"}
               PROVE  DrivenAsPlanned
    BY DEF DrivenAsPlanned
  <2> DEFINE last == Len(segments)
             here == StartOf(segments, index)
  <2>1. IsGoal /\ IsDone /\ (stage = "arrived" => index = last + 1)
    BY DEF PlanInv
  <2>2. Len(path) \in Nat /\ firstWait \in Nat
    BY HooksAre DEF Hooked, Graphed, PlanInv, WaitsInv
  <2>3. /\ last \in Nat /\ last > 0 /\ segments \in Seq(Seq(Nat))
        /\ Last(segments[last]) = Len(path) - 1
        /\ StartOf(segments, last + 1) = Len(path) - 1
    BY <2>1 DEF IsGoal, IsCut, StartOf
  <2>4. here < Len(path)
    <3>1. index = 1 \/ index = last + 1 \/ index - 1 \in 1 .. last - 1
      BY <2>1, <2>3 DEF IsDone
    <3>2. StartOf(segments, 1) = 1
      BY DEF StartOf
    <3>3. ASSUME index # 1, index - 1 \in 1 .. last - 1 PROVE here < Len(path)
      <4>1. Last(segments[index - 1]) \in 1 .. Len(path) - 1
        BY <2>1, <3>3 DEF IsGoal, IsCut
      <4> QED
        BY <2>2, <3>3, <4>1 DEF StartOf
    <3>4. Len(path) > 1
      BY DEF RouteInv, PathInv
    <3> QED
      BY <2>2, <2>3, <3>1, <3>2, <3>3, <3>4
  <2>5. /\ index \in 1 .. last + 1
        /\ log \in Seq([pose : Nat, waits : Seq(Int)]) /\ Len(log) = here /\ here \in Nat
        /\ DOMAIN log = 1 .. here
        /\ \A n \in 1 .. here : log[n].pose = n
        /\ \A n \in 1 .. here - 1 : log[n].waits = Planned(n)
        /\ log[here].waits = IF index = 1 THEN <<>>
                             ELSE IF index <= last THEN FirstWait(here) ELSE Planned(here)
    BY <2>1 DEF IsDone
  <2> HIDE DEF here, last
  <2>6. ASSUME NEW n PROVE /\ FirstWait(n) \in Seq(Int) /\ HookWait(n) \in Seq(Int)
                           /\ IsPrefix(<<>>, Planned(n)) /\ IsPrefix(FirstWait(n), Planned(n))
                           /\ IsPrefix(Planned(n), Planned(n))
    <3>1. FirstWait(n) \in Seq(Int)
      BY <2>2 DEF FirstWait
    <3>2. HookWait(n) \in Seq(Int)
      <4>1. /\ Hooked /\ waits \in [1 .. Len(starts) -> Int]
            /\ \A i \in 1 .. Len(starts) : waits[i] > 0 => hooks[i] # NoHook
        BY DEF Hooked, Graphed, PlanInv, WaitsInv
      <4>2. CASE \E i \in 1 .. Len(starts) : waits[i] > 0 /\ hooks[i] = n
        <5>1. PICK i \in 1 .. Len(starts) : waits[i] > 0 /\ hooks[i] = n
          BY <4>2
        <5>2. HookWait(n) = <<waits[i]>>
          BY <4>1, <5>1, HookWaitIs
        <5> QED
          BY <4>1, <5>2
      <4>3. CASE ~ \E i \in 1 .. Len(starts) : waits[i] > 0 /\ hooks[i] = n
        <5>1. HookWait(n) = <<>>
          BY <4>1, <4>3, HookWaitIs
        <5> QED
          BY <5>1
      <4> QED
        BY <4>2, <4>3
    <3>3. Planned(n) \in Seq(Int) /\ Len(FirstWait(n)) <= Len(Planned(n))
          /\ \A i \in 1 .. Len(FirstWait(n)) : Planned(n)[i] = FirstWait(n)[i]
      BY <3>1, <3>2 DEF Planned
    <3> QED
      BY <3>1, <3>2, <3>3 DEF IsPrefix
  <2>7. ASSUME NEW n \in DOMAIN log
        PROVE  /\ log[n].pose = n
               /\ IF n < Len(log) THEN log[n].waits = Planned(n)
                  ELSE IsPrefix(log[n].waits, Planned(n))
    <3>1. CASE n < here
      BY <2>5, <3>1
    <3>2. CASE n = here
      BY <2>5, <2>6, <3>2
    <3> QED
      BY <2>5, <3>1, <3>2
  <2>8. stage = "arrived" => Len(log) = Len(path) - 1 /\ Last(log).waits = Planned(Len(log))
    <3> HAVE stage = "arrived"
    <3>1. index = last + 1 /\ here = Len(path) - 1 /\ ~(index <= last) /\ index # 1
      BY <2>1, <2>3 DEF here, last
    <3> QED
      BY <2>5, <3>1 DEF Last
  <2> QED
    BY <2>4, <2>5, <2>7, <2>8 DEF DrivenAsPlanned
<1> QED
  BY <1>1, RouteInvariant, PlanInvariant, PTL
=============================================================================
