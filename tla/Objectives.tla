----------------------------- MODULE Objectives -----------------------------
(***************************************************************************)
(* The assignment of objectives to rovers: the priority levels and their   *)
(* kd-trees (src/objectives/objective_kdtree.cpp), the choice, removal and *)
(* blacklisting of an objective (src/objectives/objectives_logic.c) and    *)
(* the calls request_handler.c and route_planner.c make while they handle  *)
(* one request of a rover without objective.  All of it runs on the main   *)
(* thread, one request at a time; an action is the whole of such a request.*)
(*                                                                         *)
(* route_provider answers NEED_NEW_INSTRUCTIONS when it has no stored      *)
(* path, so the branches of route_planner.c that blacklist an origin       *)
(* without reserving the objective are never taken.  Origins stands for    *)
(* positions further apart than LOCATION_EPSILON.                          *)
(***************************************************************************)
EXTENDS Integers, Sequences, FiniteSets

CONSTANTS
    NumObjectives,  \* objectives accepted from the file, in file order
    NumLevels,      \* MAX_OBJECTIVE_PRIORITY_LEVELS, 5 in the code
    Priority,       \* the level of each objective
    Origins,        \* positions rovers ask from
    Distance,       \* distance from an origin to an objective, in some unit
    PriorityWeight, \* PRIORITY_WEIGHT_MULTIPLIER
    DistanceWeight, \* DISTANCE_WEIGHT_MULTIPLIER, in the unit of Distance
    MaxBlacklisted, \* MAX_BLACKLISTED_ORIGINS, 50 in the code
    LeafSize,       \* leaf_max_size of the kd-trees, 10 in the code
    None            \* the NULL objective

ObjectiveIds == 1..NumObjectives
Levels == 0..(NumLevels - 1)

ASSUME ObjectivesAssumption ==
    /\ NumObjectives \in Nat
    /\ NumLevels \in Nat \ {0}
    /\ Priority \in [ObjectiveIds -> Levels]
    /\ Distance \in [Origins -> [ObjectiveIds -> Nat]]
    /\ PriorityWeight \in Nat /\ DistanceWeight \in Nat
    /\ MaxBlacklisted \in Nat
    /\ LeafSize \in Nat
    /\ None \notin ObjectiveIds

VARIABLES
    slots,      \* per level: the vector's slots the kd-tree index refers to
    live,       \* per level: the size of the vector
    reserved,   \* the objectives in reserved_kdtree
    counts,     \* objective_counts
    total,      \* total_objective_count
    highest,    \* current_highest_priority
    blacklist,  \* per objective: its blacklisted origins
    served,     \* history: the objectives a rover was given a route to
    returned    \* history: per level, how often an objective was given back to it

trees == <<slots, live, reserved>>
tallies == <<counts, total>>
vars == <<slots, live, reserved, counts, total, highest, blacklist, served,
          returned>>

-----------------------------------------------------------------------------
(* Loading *)

\* The vector of a level after init_objectives_from_file: its objectives in
\* file order.  (A set of one sequence.)
Loadings(level) ==
    {s \in UNION {[1..n -> ObjectiveIds] : n \in 0..NumObjectives} :
        /\ \A i, j \in DOMAIN s : i < j => s[i] < s[j]
        /\ \A o \in ObjectiveIds :
              Priority[o] = level <=> \E i \in DOMAIN s : s[i] = o}

Init ==
    /\ slots \in {f \in [Levels -> UNION {Loadings(p) : p \in Levels}] :
                     \A p \in Levels : f[p] \in Loadings(p)}
    /\ live = [p \in Levels |-> Len(slots[p])]
    /\ reserved = {}
    /\ counts = live
    /\ total = NumObjectives
    /\ highest = 0
    /\ blacklist = [o \in ObjectiveIds |-> {}]
    /\ served = {}
    /\ returned = [p \in Levels |-> 0]

-----------------------------------------------------------------------------
(* The search *)

\* The first index of I whose objective is nearest to the origin.
Nearest(s, I, origin) ==
    {i \in I : \A j \in I :
        \/ Distance[origin][s[i]] < Distance[origin][s[j]]
        \/ Distance[origin][s[i]] = Distance[origin][s[j]] /\ i <= j}

\* The slots the index may answer with.  It is built over all of DOMAIN
\* slots[p] and not rebuilt by a removal: with one leaf it compares every slot
\* it was built over, spare ones included; beyond a leaf it follows splits that
\* no longer fit once the objectives have moved.
IndexAnswers(p, origin) ==
    IF Len(slots[p]) <= LeafSize \/ live[p] = Len(slots[p])
    THEN {i \in DOMAIN slots[p] :
            \E j \in Nearest(slots[p], DOMAIN slots[p], origin) :
               /\ Distance[origin][slots[p][i]] = Distance[origin][slots[p][j]]
               /\ Len(slots[p]) <= LeafSize => i = j}
    ELSE DOMAIN slots[p]

\* objective_kdtree_find_nearest_in_priority: an answer past the end is NULL.
FindNearest(p, origin) ==
    IF live[p] = 0 THEN {None}
    ELSE {IF i <= live[p] THEN slots[p][i] ELSE None : i \in IndexAnswers(p, origin)}

\* objective_kdtree_find_next_nearest_in_priority, which compares all others.
FindNextNearest(p, origin, exclude) ==
    LET others == {i \in 1..live[p] : slots[p][i] # exclude}
    IN  IF others = {} THEN {None}
        ELSE {slots[p][i] : i \in Nearest(slots[p], others, origin)}

Blacklisted(o, origin) == origin \in blacklist[o]

\* Mutant: a level is searched whatever its count.
CandidatesUncounted(p, origin, from) ==
    IF p < from THEN {None}
    ELSE UNION {IF o = None \/ ~Blacklisted(o, origin) THEN {o}
                ELSE FindNextNearest(p, origin, o) : o \in FindNearest(p, origin)}

\* What find_best_objective may keep of one level: the nearest objective or,
\* when that one is blacklisted, the next nearest, whatever its blacklist says.
Candidates(p, origin, from) ==
    IF p < from \/ counts[p] = 0 THEN {None}
    ELSE UNION {IF o = None \/ ~Blacklisted(o, origin) THEN {o}
                ELSE FindNextNearest(p, origin, o) : o \in FindNearest(p, origin)}

\* calculate_objective_score, infinite at distance zero.
Score(o, origin) ==
    (NumLevels - Priority[o]) * PriorityWeight
        + DistanceWeight \div Distance[origin][o]

Beats(a, b, origin) ==
    /\ Distance[origin][b] # 0
    /\ Distance[origin][a] # 0 => Score(a, origin) > Score(b, origin)

\* Mutant: the level after the first one with objectives.
ShiftsPast(level) ==
    LET busy == {p \in Levels : p >= highest /\ counts[p] # 0}
    IN  IF busy = {} THEN level = 0
        ELSE /\ level \in Levels
             /\ level = highest + 1 \/ level = highest

\* shift_trees_if_needed: the first level from the current one on that has a
\* count, or level 0 when there is none.
ShiftsTo(level) ==
    LET busy == {p \in Levels : p >= highest /\ counts[p] # 0}
    IN  IF busy = {} THEN level = 0
        ELSE level \in busy /\ \A p \in busy : level <= p

\* check_objectives leaves level `from' as the highest and assigns o; None is
\* its answer FALSE.
Chooses(origin, from, o) ==
    IF total = 0 THEN o = None /\ from = highest
    ELSE /\ ShiftsTo(from)
         /\ \E found \in [Levels -> ObjectiveIds \cup {None}] :
               /\ \A p \in Levels : found[p] \in Candidates(p, origin, from)
               /\ \/ o = None /\ \A p \in Levels : found[p] = None
                  \/ /\ o # None
                     /\ \E p \in Levels :
                           /\ found[p] = o
                           /\ \A q \in Levels \ {p} : found[q] # None =>
                                 IF q > p THEN ~Beats(found[q], o, origin)
                                 ELSE Beats(o, found[q], origin)

-----------------------------------------------------------------------------
(* Reserving and giving back *)

\* vector::erase: what follows moves down by one, and the slot past the new end
\* keeps what it held.
Erase(s, n, i) == [j \in DOMAIN s |-> IF j \in i..(n - 1) THEN s[j + 1] ELSE s[j]]

\* Mutant: the objective is only counted out, not taken from its tree.
ReserveByCount(o, i) ==
    /\ i \in 1..live[Priority[o]]
    /\ slots[Priority[o]][i] = o
    /\ reserved' = reserved \cup {o}
    /\ UNCHANGED <<slots, live>>

\* objective_kdtree_remove, o being at index i of its level.
Reserve(o, i) ==
    LET p == Priority[o]
    IN  /\ i \in 1..live[p]
        /\ slots[p][i] = o
        /\ slots' = [slots EXCEPT ![p] = Erase(slots[p], live[p], i)]
        /\ live' = [live EXCEPT ![p] = @ - 1]
        /\ reserved' = reserved \cup {o}

\* Mutant: the objective stays in the reserved tree as well.
ReserveAndPushTwice(o, i) ==
    LET p == Priority[o]
    IN  /\ i \in 1..live[p]
        /\ slots[p][i] = o
        /\ slots' = [slots EXCEPT ![p] =
                        Append(SubSeq(Erase(slots[p], live[p], i), 1, live[p] - 1), o)]
        /\ reserved' = reserved \cup {o}
        /\ UNCHANGED live

\* The same, followed by objective_kdtree_push: the objective goes to the end of
\* its level, whose index is rebuilt over the vector.
ReserveAndPush(o, i) ==
    LET p == Priority[o]
    IN  /\ i \in 1..live[p]
        /\ slots[p][i] = o
        /\ slots' = [slots EXCEPT ![p] =
                        Append(SubSeq(Erase(slots[p], live[p], i), 1, live[p] - 1), o)]
        /\ reserved' = reserved \ {o}
        /\ UNCHANGED live

\* remove_objective_from_tree; nothing ever counts an objective in again.
CountOut(o) ==
    /\ counts' = [counts EXCEPT ![Priority[o]] = @ - 1]
    /\ total' = total - 1

-----------------------------------------------------------------------------
(* One request *)

\* check_objectives finds nothing: the rover is sent to a power station or told
\* to idle.
NothingFound(origin) ==
    /\ \E from \in Levels : Chooses(origin, from, None) /\ highest' = from
    /\ UNCHANGED <<trees, tallies, blacklist, served, returned>>

\* A path is found, turned into instructions and assigned.
RouteAccepted(origin, o) ==
    /\ \E from \in Levels : Chooses(origin, from, o) /\ highest' = from
    /\ \E i \in 1..live[Priority[o]] : Reserve(o, i)
    /\ CountOut(o)
    /\ served' = served \cup {o}
    /\ UNCHANGED <<blacklist, returned>>

\* One of the three fails: objective_kdtree_push_and_blacklist adds the origin
\* and gives the objective back ...
RouteFails(origin, o) ==
    /\ \E from \in Levels : Chooses(origin, from, o) /\ highest' = from
    /\ ~Blacklisted(o, origin)
    /\ blacklist' = [blacklist EXCEPT ![o] =
                        IF Cardinality(@) < MaxBlacklisted THEN @ \cup {origin} ELSE @]
    /\ \E i \in 1..live[Priority[o]] : ReserveAndPush(o, i)
    /\ CountOut(o)
    /\ returned' = [returned EXCEPT ![Priority[o]] = @ + 1]
    /\ UNCHANGED served

\* Mutant: the test for room on the blacklist returns when there is room.
RouteFailsForGood(origin, o) ==
    /\ \E from \in Levels : Chooses(origin, from, o) /\ highest' = from
    /\ Blacklisted(o, origin) \/ Cardinality(blacklist[o]) < MaxBlacklisted
    /\ \E i \in 1..live[Priority[o]] : Reserve(o, i)
    /\ CountOut(o)
    /\ UNCHANGED <<blacklist, served, returned>>

\* ... and returns before either if the origin is on the list.
RouteFailsAgain(origin, o) ==
    /\ \E from \in Levels : Chooses(origin, from, o) /\ highest' = from
    /\ Blacklisted(o, origin)
    /\ \E i \in 1..live[Priority[o]] : Reserve(o, i)
    /\ CountOut(o)
    /\ UNCHANGED <<blacklist, served, returned>>

Request(origin) ==
    \/ NothingFound(origin)
    \/ \E o \in ObjectiveIds :
          RouteAccepted(origin, o) \/ RouteFails(origin, o) \/ RouteFailsAgain(origin, o)

Next == \E origin \in Origins : Request(origin)

Spec == Init /\ [][Next]_vars

-----------------------------------------------------------------------------
(* Properties *)

Places(o) == {i \in 1..live[Priority[o]] : slots[Priority[o]][i] = o}

TypeOK ==
    /\ slots \in [Levels -> Seq(ObjectiveIds)]
    /\ live \in [Levels -> Nat]
    /\ \A p \in Levels : live[p] <= Len(slots[p])
    /\ reserved \subseteq ObjectiveIds /\ served \subseteq ObjectiveIds
    /\ counts \in [Levels -> Nat] /\ total \in Nat
    /\ returned \in [Levels -> Nat]
    /\ highest \in Levels
    /\ blacklist \in [ObjectiveIds -> SUBSET Origins]

\* An objective is in exactly one tree, once: its own level's or the reserved
\* one.
InOneTree ==
    \A o \in ObjectiveIds :
        IF o \in reserved THEN Places(o) = {}
        ELSE \E i \in 1..live[Priority[o]] : Places(o) = {i}

\* A level counts the objectives in its vector less those that ever came back to it.
CountsLackReturns == \A p \in Levels : live[p] = counts[p] + returned[p]

\* The search starts past a level only when that level counts none.
SkippedLevelsAreSpent == \A p \in Levels : p < highest => counts[p] = 0

\* A level that find_best_objective searches has an objective in it, and one that it
\* passes by, for its count or for current_highest_priority, holds as many as came
\* back to it, no more and no less.  Those are passed by from then on, although the
\* level is not the "empty" one its count is taken for; they need not be the ones
\* that failed, since the count of one that came back may be spent on another.
MissesByReturnsOnly == CountsLackReturns /\ SkippedLevelsAreSpent

\* An objective a rover has a route to is in no tree and stays out: no second
\* rover is sent there.
ServedIsGone == \A o \in served : o \in reserved /\ Places(o) = {}

\* An objective that is out of its tree with no rover on its way to it has been
\* given back before: a first failure never loses one.
LostHasFailedBefore == \A o \in reserved \ served : blacklist[o] # {}
=============================================================================
