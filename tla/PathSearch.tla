----------------------------- MODULE PathSearch -----------------------------
(***************************************************************************)
(* The search for a path (src/proavo): hybrid A* over poses, with a shot   *)
(* along a Reeds-Shepp curve from every node it expands, one search after  *)
(* the other.                                                              *)
(*                                                                         *)
(* The nodes live in one static array that no search clears.  A counter    *)
(* says how many are taken; it is set back to 0 by a new search and a      *)
(* failed one, and rolled back when a step or a curve turns out useless,   *)
(* so a slot is used again with what its last user left in it.             *)
(*                                                                         *)
(* Where a rover may be is worked out from the heights of the map          *)
(* (src/gridmap).  A pose is a triple: column, row, heading; the motions,  *)
(* the curves and the energies are constants, and the bins of the closed   *)
(* set may hold several poses.  A node is the index of its slot.           *)
(***************************************************************************)
EXTENDS Integers, FiniteSets, Sequences

CONSTANTS
    Poses,      \* struct Location: x, y and heading
    Bin,        \* the cell of `visited` of each pose
    Columns,    \* the size of the map
    Rows,
    Height,     \* the layer "elevation": [Cells -> Nat]
    Rough,      \* the cells above MAX_ALLOWED_ROUGHNESS
    Ring,       \* the cells of the points around a rover, from its own
    TallHeight, \* 1.0 m, above which a cell is taken for a wall
    HavenGrade, \* SAFE_HAVEN_SLOPE_THRESHOLD, in heights over two cells
    CautiousGrade, \* HEURISTIC_SAFE_SLOPE
    MaxGrade,   \* MAX_ALLOWED_SLOPE
    Steerings,  \* steering angles
    Straight,   \* 0.0
    Potential,  \* POTENTIAL_STEERING, a sequence of steering angles
    Motion,     \* where a primitive takes a pose: [Poses -> [Steerings -> Poses]]
    Tips,       \* <<pose, steering>> where calculate_power sees a tip-over
    Energy,     \* what a step to a pose with a steering takes, in joules
    Estimate,   \* rs_heuristic * EST_METER_COST * RS_COST_WEIGHT
    Near,       \* the poses within the margins of an objective
    Curve,      \* the steps of the Reeds-Shepp curve between two poses
    Starts,     \* where a rover may be
    Objectives, \* where it may be sent
    MaxNodes,   \* MAX_NODES_IN_POOL, 50000 in the code
    MaxOpen,    \* MAX_OPEN_SET_SIZE, 20000 in the code
    MaxSearches,\* bound on the searches
    NoPose      \* a slot nothing was ever written to

Slots == 0 .. MaxNodes - 1
NoNode == -1
Steps == [pose : Poses, steer : Steerings]
Cells == (0 .. Columns - 1) \X (0 .. Rows - 1)

ASSUME PathAssumption ==
    /\ Poses \subseteq Int \X Int \X Int
    /\ Columns \in Nat /\ Rows \in Nat
    /\ Height \in [Cells -> Nat] /\ Rough \subseteq Cells
    /\ Ring \subseteq Int \X Int
    /\ HavenGrade \in Nat /\ CautiousGrade \in Nat /\ MaxGrade \in Nat
    /\ HavenGrade < CautiousGrade /\ CautiousGrade < MaxGrade /\ TallHeight \in Nat
    /\ Straight \in Steerings
    /\ Potential \in Seq(Steerings)
    /\ Motion \in [Poses -> [Steerings -> Poses]]
    /\ Tips \subseteq Poses \X Steerings
    /\ Energy \in [Poses -> [Steerings -> Nat]]
    /\ Starts \subseteq Poses /\ Objectives \subseteq Poses
    /\ Estimate \in [Poses -> [Objectives -> Nat]]
    /\ Near \in [Objectives -> SUBSET Poses]
    /\ Curve \in [Poses -> [Objectives -> Seq(Steps)]]
    /\ \A p \in Poses, o \in Objectives :
        /\ Curve[p][o] # <<>>
        /\ Curve[p][o][Len(Curve[p][o])].pose = o
    /\ \A o \in Objectives : o \in Near[o]
    /\ MaxNodes \in Nat \ {0} /\ MaxOpen \in Nat \ {0} /\ MaxSearches \in Nat
    /\ NoPose \notin Poses

VARIABLES
    pool,      \* state_node_pool
    taken,     \* pool_index
    visited,   \* visited, the bins that are set
    open,      \* the nodes of open_list
    openCount, \* open_list_count
    pc,        \* where the search is
    current,   \* curr_state
    next,      \* i: the next steering, or the next step of the curve
    curveAt,   \* start_index of getRSShot
    rover,     \* rover->position of the last search
    objective, \* its objective
    result,    \* what the last search returned
    searches,  \* the number of searches
    expanded,  \* the poses this search expanded (history)
    starved    \* whether it was ever refused a node (history)

memory == <<pool, taken>>
list == <<open, openCount>>
cursor == <<current, next, curveAt>>
task == <<rover, objective, searches>>
vars == <<pool, taken, visited, open, openCount, pc, current, next, curveAt,
          rover, objective, result, searches, expanded, starved>>

Nodes == [pose : Poses \cup {NoPose}, parent : Slots \cup {NoNode},
          haven : BOOLEAN, cost : Nat, rank : Nat]

Init ==
    /\ pool = [n \in Slots |-> [pose |-> NoPose, parent |-> NoNode,
                                haven |-> FALSE, cost |-> 0, rank |-> 0]]
    /\ taken = 0 /\ visited = {} /\ open = {} /\ openCount = 0
    /\ pc = "idle" /\ current = NoNode /\ next = 1 /\ curveAt = 0
    /\ rover = NoPose /\ objective = NoPose /\ result = NoNode /\ searches = 0
    /\ expanded = {} /\ starved = FALSE

-----------------------------------------------------------------------------
(* The map: init_gridmap, get_slope, check_collision *)

\* How much the ground rises over the two cells, in one direction; nothing at
\* the first and the last cell of a row or a column.
Rise(to, from, inner) == IF inner THEN Height[to] - Height[from] ELSE 0

\* The square of the slope: a tall cell is a wall whatever is around it.
Grade(c) ==
    LET x == c[1]
        y == c[2]
        dx == Rise(<<x + 1, y>>, <<x - 1, y>>, x \in 1 .. Columns - 2)
        dy == Rise(<<x, y + 1>>, <<x, y - 1>>, y \in 1 .. Rows - 2)
    IN  IF c \in Cells /\ Height[c] <= TallHeight THEN dx * dx + dy * dy
        ELSE MaxGrade * MaxGrade + 1

Cell(p) == <<p[1], p[2]>>
Around(p) == {<<p[1] + o[1], p[2] + o[2]>> : o \in Ring}
TooSteep(c) == c \notin Cells \/ Grade(c) > MaxGrade * MaxGrade

Blocked ==
    {p \in Poses : \/ TooSteep(Cell(p))
                   \/ \E c \in Around(p) : TooSteep(c) \/ c \in Rough}

Flat == {p \in Poses : Grade(Cell(p)) < HavenGrade * HavenGrade}
Gentle == {p \in Poses : Grade(Cell(p)) <= CautiousGrade * CautiousGrade}

-----------------------------------------------------------------------------
(* The pool *)

CanTake == taken < MaxNodes

\* Mutant: the slot before the one to go back to is given back too.
RollbackTooFar(top, index) == taken' = IF index \in 1 .. top - 1 THEN index - 1 ELSE top

\* pool_rollback, when `top` slots are taken.
Rollback(top, index) == taken' = IF index \in 0 .. top - 1 THEN index ELSE top

\* The energy is worked out from the node before; a step that is flat and
\* straight makes a haven, and no other step ever takes the mark away.
Arrive(node, from, pose, steer) ==
    [node EXCEPT !.pose = pose, !.parent = from,
                 !.haven = @ \/ (pose \in Flat /\ steer = Straight),
                 !.cost = pool[from].cost + Energy[pose][steer]]

-----------------------------------------------------------------------------
(* proavo_createpath *)

CreatePath(p, o) ==
    /\ pc = "idle" /\ searches < MaxSearches
    /\ pool' = [pool EXCEPT ![0] = [pose |-> p, parent |-> NoNode,
                                    haven |-> TRUE, cost |-> 0, rank |-> 0]]
    /\ taken' = 1
    /\ visited' = {} /\ open' = {0} /\ openCount' = 1
    /\ rover' = p /\ objective' = o /\ searches' = searches + 1
    /\ result' = NoNode /\ expanded' = {} /\ starved' = FALSE
    /\ pc' = "search" /\ UNCHANGED cursor

\* The search returns the node, and the list is gone with its stack frame.
Return(node) ==
    /\ result' = node /\ pc' = "idle"
    /\ open' = {} /\ openCount' = 0
    /\ current' = NoNode /\ next' = 1 /\ curveAt' = 0
    /\ UNCHANGED <<task, expanded, starved>>

\* No path: the pool is emptied.
Fail == Return(NoNode) /\ taken' = 0

-----------------------------------------------------------------------------
(* proavo_algo: the top of its loop *)

Cheapest == {n \in open : \A m \in open : pool[n].rank <= pool[m].rank}

\* Mutant: the count is left where it was.
TakeNoCount(n) == open' = open \ {n} /\ openCount' = openCount

Take(n) == open' = open \ {n} /\ openCount' = openCount - 1

Visited(n) == Bin[pool[n].pose] \in visited
AtObjective(n) == pool[n].pose \in Near[objective]
Mark(n) == visited' = visited \cup {Bin[pool[n].pose]}

GiveUp == pc = "search" /\ openCount = 0 /\ Fail /\ UNCHANGED <<visited, pool>>

\* Only a node already visited: the next one.
Skip(n) ==
    /\ pc = "search" /\ openCount > 0 /\ n \in Cheapest /\ Visited(n)
    /\ Take(n)
    /\ UNCHANGED <<memory, visited, pc, cursor, task, result, expanded, starved>>

\* At the objective; the rover itself may stand there, which is no path.
Arrived(n) ==
    /\ pc = "search" /\ openCount > 0 /\ n \in Cheapest
    /\ ~Visited(n) /\ AtObjective(n)
    /\ Mark(n) /\ UNCHANGED pool
    /\ IF pool[n].parent = NoNode THEN Fail ELSE Return(n) /\ UNCHANGED taken

Select(n) ==
    /\ pc = "search" /\ openCount > 0 /\ n \in Cheapest
    /\ ~Visited(n) /\ ~AtObjective(n)
    /\ Take(n) /\ Mark(n)
    /\ current' = n /\ expanded' = expanded \cup {pool[n].pose}
    /\ pc' = "aim"
    /\ UNCHANGED <<memory, next, curveAt, task, result, starved>>

-----------------------------------------------------------------------------
(* getRSShot *)

Shot == Curve[pool[current].pose][objective]

\* Mutant: only the end of the curve is looked at.
ClearEnd == Shot[Len(Shot)].pose \in Gentle \ Blocked

Clear == \A i \in DOMAIN Shot : Shot[i].pose \in Gentle \ Blocked

\* The whole curve is looked at before a node is taken for it.
Aim ==
    /\ pc = "aim"
    /\ pc' = IF Clear THEN "shoot" ELSE "expand"
    /\ next' = 1 /\ curveAt' = taken
    /\ UNCHANGED <<memory, visited, list, current, task, result, expanded, starved>>

\* The nodes of the curve are given back; the search goes on with its steps.
Abandon(top) ==
    /\ Rollback(top, curveAt)
    /\ pc' = "expand" /\ next' = 1
    /\ UNCHANGED <<visited, list, current, curveAt, task, result, expanded>>

\* The last node of the curve so far.
Tip == IF next = 1 THEN current ELSE taken - 1

ShotNode == Arrive(pool[taken], Tip, Shot[next].pose, Shot[next].steer)

ShootStarved == pc = "shoot" /\ ~CanTake /\ starved' = TRUE /\ Abandon(taken) /\ UNCHANGED pool

\* A tip-over: the node has its place and its parent, and no cost yet.
ShootTips ==
    /\ pc = "shoot" /\ CanTake
    /\ <<Shot[next].pose, Shot[next].steer>> \in Tips
    /\ pool' = [pool EXCEPT ![taken].pose = Shot[next].pose, ![taken].parent = Tip]
    /\ Abandon(taken + 1) /\ UNCHANGED starved

ShootStep ==
    /\ pc = "shoot" /\ CanTake
    /\ <<Shot[next].pose, Shot[next].steer>> \notin Tips
    /\ next < Len(Shot)
    /\ pool' = [pool EXCEPT ![taken] = ShotNode]
    /\ taken' = taken + 1 /\ next' = next + 1
    /\ UNCHANGED <<visited, list, pc, current, curveAt, task, result, expanded, starved>>

ShootHome ==
    /\ pc = "shoot" /\ CanTake
    /\ <<Shot[next].pose, Shot[next].steer>> \notin Tips
    /\ next = Len(Shot)
    /\ pool' = [pool EXCEPT ![taken] = ShotNode]
    /\ taken' = taken + 1
    /\ Return(taken) /\ UNCHANGED visited

-----------------------------------------------------------------------------
(* proavo_algo: the steps from the current node *)

Steer == Potential[next]
Ahead == Motion[pool[current].pose][Steer]

\* A step of no use: the slots are again those that were taken before it.
Useless(top) ==
    /\ Rollback(top, taken)
    /\ next' = next + 1
    /\ UNCHANGED <<visited, list, pc, current, curveAt, task, result, expanded>>

ExpandStarved ==
    /\ pc = "expand" /\ next <= Len(Potential) /\ ~CanTake
    /\ starved' = TRUE /\ Useless(taken) /\ UNCHANGED pool

\* Mutant: a node keeps the mark of the one that had its slot before.
SuccessorKeepsMark ==
    LET node == Arrive(pool[taken], current, Ahead, Steer)
    IN  [node EXCEPT !.rank = Estimate[Ahead][objective] + node.cost]

Successor ==
    LET node == Arrive([pool[taken] EXCEPT !.haven = FALSE], current, Ahead, Steer)
    IN  [node EXCEPT !.rank = Estimate[Ahead][objective] + node.cost]

\* Mutant: one step that is blocked ends the round of steps.
DeadEndBreaks ==
    /\ pc = "expand" /\ next <= Len(Potential) /\ CanTake
    /\ Ahead \in Blocked \/ <<Ahead, Steer>> \in Tips
    /\ next' = Len(Potential) + 1
    /\ UNCHANGED <<memory, visited, list, pc, current, curveAt, task, result, expanded, starved>>

\* A collision or a tip-over.
DeadEnd ==
    /\ pc = "expand" /\ next <= Len(Potential) /\ CanTake
    /\ Ahead \in Blocked \/ <<Ahead, Steer>> \in Tips
    /\ pool' = [pool EXCEPT ![taken].pose = Ahead, ![taken].parent = current,
                            ![taken].haven = @ /\ Ahead \in Blocked]
    /\ Useless(taken + 1) /\ UNCHANGED starved

\* Mutant: the array is taken to be one longer than it is.
FitsOneMore == openCount <= MaxOpen

\* The count points into the array.
Fits == openCount < MaxOpen

\* heap_push writes where the count points, wherever that is.
Expand ==
    /\ pc = "expand" /\ next <= Len(Potential) /\ CanTake
    /\ Ahead \notin Blocked /\ <<Ahead, Steer>> \notin Tips
    /\ pool' = [pool EXCEPT ![taken] = Successor]
    /\ taken' = taken + 1 /\ next' = next + 1
    /\ IF Fits
       THEN open' = open \cup {taken} /\ openCount' = openCount + 1 /\ UNCHANGED pc
       ELSE pc' = "overrun" /\ UNCHANGED list
    /\ UNCHANGED <<visited, current, curveAt, task, result, expanded, starved>>

Expanded ==
    /\ pc = "expand" /\ next > Len(Potential)
    /\ pc' = "search" /\ current' = NoNode /\ next' = 1
    /\ UNCHANGED <<memory, visited, list, curveAt, task, result, expanded, starved>>

Search ==
    \/ GiveUp
    \/ \E n \in open : Skip(n) \/ Arrived(n) \/ Select(n)
    \/ Aim \/ ShootStarved \/ ShootTips \/ ShootStep \/ ShootHome
    \/ ExpandStarved \/ DeadEnd \/ Expand \/ Expanded

Next == (\E p \in Starts, o \in Objectives : CreatePath(p, o)) \/ Search

Spec == Init /\ [][Next]_vars /\ WF_vars(Search)

-----------------------------------------------------------------------------
(* Properties *)

TypeOK ==
    /\ pool \in [Slots -> Nodes] /\ taken \in 0 .. MaxNodes
    /\ visited \subseteq {Bin[p] : p \in Poses}
    /\ open \subseteq Slots /\ openCount \in 0 .. MaxOpen
    /\ pc \in {"idle", "search", "aim", "shoot", "expand", "overrun"}
    /\ current \in Slots \cup {NoNode} /\ next \in Nat \ {0}
    /\ curveAt \in 0 .. MaxNodes
    /\ rover \in Poses \cup {NoPose} /\ objective \in Objectives \cup {NoPose}
    /\ result \in Slots \cup {NoNode} /\ searches \in 0 .. MaxSearches
    /\ expanded \subseteq Poses /\ starved \in BOOLEAN

\* The node is what a step of the search makes of its parent.
Stepped(n) ==
    LET node == pool[n]
        from == pool[node.parent]
    IN  /\ node.parent \in 0 .. n - 1
        /\ \E i \in DOMAIN Potential :
            /\ node.pose = Motion[from.pose][Potential[i]]
            /\ node.cost = from.cost + Energy[node.pose][Potential[i]]
        /\ node.pose \notin Blocked
        /\ node.rank = node.cost + Estimate[node.pose][objective]

\* Slots are handed out, rolled back and used again, and the list keeps bare
\* pointers: while a search runs every node on the list (and the one being
\* expanded) is in a taken slot of its own, still holds the step it was pushed
\* for, and so does every node on its way back to the rover.
TreeIntact ==
    pc \in {"search", "aim", "shoot", "expand"} =>
        /\ open \cup ({current} \ {NoNode}) \subseteq 0 .. taken - 1
        /\ openCount = Cardinality(open)
        /\ pool[0].pose = rover /\ pool[0].parent = NoNode
        /\ \A n \in 1 .. (IF pc = "shoot" THEN curveAt ELSE taken) - 1 : Stepped(n)

\* The k-th node before the one that was returned.
Back ==
    LET f[k \in 0 .. MaxNodes] ==
            IF k = 0 THEN result
            ELSE IF f[k - 1] = NoNode THEN NoNode ELSE pool[f[k - 1]].parent
    IN  f

\* What a search returns, after all the slots that were given back on the way,
\* leads back to the rover through free poses, by steps of the search and, at
\* its end, at most one curve, whole and from one of its nodes; it has a step at
\* least and ends within the margins of the objective.
PathSound ==
    result # NoNode => \E len \in 1 .. MaxNodes, shot \in 0 .. MaxNodes :
        LET pose(k) == pool[Back[k]].pose IN
        /\ Back[len] = 0 /\ pose(len) = rover
        /\ \A k \in 0 .. len - 1 : Back[k] \in 1 .. taken - 1 /\ pose(k) \notin Blocked
        /\ shot \in {0, Len(Curve[pose(shot)][objective])} /\ shot <= len
        /\ \A k \in 0 .. shot - 1 : pose(k) = Curve[pose(shot)][objective][shot - k].pose
        /\ \A k \in shot .. len - 1 : Stepped(Back[k])
        /\ pose(0) \in Near[objective]

\* A slot keeps the mark of the node that had it before.  On every node a step of
\* the search made, the mark means what it says: flat ground, reached straight.
StepHavensAreFlat ==
    \A n \in (open \cup {current}) \ {0, NoNode} :
        pool[n].haven => /\ pool[n].pose \in Flat
                         /\ pool[n].pose = Motion[pool[pool[n].parent].pose][Straight]

\* A search that was never refused a node gives up only when there is nothing
\* left: every bin that a step leads to, from a pose it expanded, was visited.
GivesUpExplored ==
    pc = "idle" /\ result = NoNode /\ ~starved =>
        \A p \in expanded, i \in DOMAIN Potential :
            LET q == Motion[p][Potential[i]]
            IN  q \in Blocked \/ <<q, Potential[i]>> \in Tips \/ Bin[q] \in visited

\* Every search comes to its end (a return, or the end of the list's array),
\* since a bin is expanded once and each expansion pushes a few nodes.
SearchEnds == pc # "idle" ~> pc \in {"idle", "overrun"}
=============================================================================
