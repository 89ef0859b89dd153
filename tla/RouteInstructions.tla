-------------------------- MODULE RouteInstructions --------------------------
(***************************************************************************)
(* From a found path to a driven one.  The path search leaves a chain of   *)
(* nodes from the goal back to the start (src/nav/nav_main.c reverses it). *)
(* src/nav/nav_reservationgraph.c cuts it into sectors,                    *)
(* src/nav/nav_generateinstructions_global.c makes an instruction of each  *)
(* node and hooks on which a rover may be told to wait, deconfliction      *)
(* fills in the waits, src/io/platform_specific_instructions_converter.cpp *)
(* cuts the instructions into segments at the waits, and haphazard waits   *)
(* and drives segment by segment.                                          *)
(*                                                                         *)
(* A pose is the number of its node; where the code counts from 0 the      *)
(* model counts from 1.  The duration of a sector is left out: only        *)
(* deconfliction reads it.                                                 *)
(***************************************************************************)
EXTENDS Integers, FiniteSets, SequencesExt

CONSTANTS
    Sectors,    \* the sectors of the grid
    MaxNodes,   \* bound on the nodes of a path
    Waits       \* what publish_reservations may make of a hook's wait, in slots

ASSUME RouteAssumption ==
    /\ MaxNodes \in Nat \ {0, 1}
    /\ Waits \subseteq Int /\ 0 \in Waits

\* struct VehicleState: its sector, and whether a rover may wait there.
Nodes == [sector : Sectors, safe : BOOLEAN]

NoHook == 0     \* instruction_index -1
Unused == -1    \* wait_duration without a hook

VARIABLES
    stage,      \* the function that runs next
    path,       \* the nodes, from the start
    sectors,    \* sectors_traversal->sectors
    starts,     \* sector_start_array
    hooks,      \* hooks[i].instruction_index
    waits,      \* hooks[i].wait_duration, in slots
    firstWait,  \* first_wait, in slots
    index,      \* the node a function is at; haphazard: the segment i
    sector,     \* currentSector; converter: sector_index
    haven,      \* safe_haven: the current sector has its hook
    poses,      \* converter: the segment under way
    segments,   \* goal.segments
    durations,  \* goal.wait_durations
    log         \* history: each pose the rover was at, with its waits there

route == <<path, sectors, starts>>
plan == <<hooks, haven, waits, firstWait>>
goal == <<segments, durations>>
routeVars == <<stage, path, sectors, starts, hooks, waits, firstWait, index, sector,
               haven, poses, segments, durations, log>>

\* A rover gets to a pose.
At(pose) == [pose |-> pose, waits |-> <<>>]

RouteInit ==
    /\ stage = "search"
    /\ path \in UNION {[1 .. n -> Nodes] : n \in 2 .. MaxNodes}
    /\ sectors = <<>> /\ starts = <<>>
    /\ hooks = <<>> /\ waits = <<>> /\ firstWait = 0
    /\ index = 1 /\ sector = 1 /\ haven = FALSE
    /\ poses = <<>> /\ segments = <<>> /\ durations = <<>>
    /\ log = <<At(1)>>

-----------------------------------------------------------------------------
(* reverse_to_path, generate_reservationgraph *)

ReverseToPath ==
    /\ stage = "search"
    /\ path' = Reverse(path)
    /\ stage' = "graph"
    /\ UNCHANGED <<sectors, starts, plan, index, sector, poses, goal, log>>

\* Mutant: a sector is entered when it was not seen before.
EntersNew(node) == ~Contains(sectors, path[node].sector)

\* A node whose sector is not the one of the node before begins an entry of the
\* traversal.
Enters(node) == node > 1 => path[node].sector # path[node - 1].sector

EnterSector ==
    /\ stage = "graph" /\ index \in DOMAIN path /\ Enters(index)
    /\ sectors' = Append(sectors, path[index].sector)
    /\ starts' = Append(starts, index)
    /\ index' = index + 1
    /\ UNCHANGED <<stage, path, plan, sector, poses, goal, log>>

StayInSector ==
    /\ stage = "graph" /\ index \in DOMAIN path /\ ~Enters(index)
    /\ index' = index + 1
    /\ UNCHANGED <<stage, route, plan, sector, poses, goal, log>>

\* The graph is done; generate_instructions_global begins without a hook.
GraphEnd ==
    /\ stage = "graph" /\ index \notin DOMAIN path
    /\ hooks' = [i \in DOMAIN sectors |-> NoHook]
    /\ stage' = "instruct" /\ index' = 1
    /\ UNCHANGED <<route, haven, waits, firstWait, sector, poses, goal, log>>

-----------------------------------------------------------------------------
(* generate_instructions_global *)

\* Every node has an instruction but the last: the loop ends with next NULL.
Instructions == 1 .. Len(path) - 1

\* The first node of a sector on which a rover may wait gets the sector's hook.
GetsHook(node) == ~haven /\ path[node].safe
HooksWith(node) == IF GetsHook(node) THEN [hooks EXCEPT ![sector] = node] ELSE hooks

IsNextStart(node) == sector < Len(sectors) /\ node = starts[sector + 1]

\* Mutant: the haven of a sector is not forgotten at its end.
InstructKeepsHaven ==
    /\ stage = "instruct" /\ index \in Instructions
    /\ hooks' = HooksWith(index)
    /\ haven' = (haven \/ GetsHook(index))
    /\ sector' = IF IsNextStart(index) THEN sector + 1 ELSE sector
    /\ index' = index + 1
    /\ UNCHANGED <<stage, route, waits, firstWait, poses, goal, log>>

\* One node of the loop.  The next sector begins after its first node was looked
\* at, so that this node may become the hook of the sector before.
Instruct ==
    /\ stage = "instruct" /\ index \in Instructions
    /\ hooks' = HooksWith(index)
    /\ haven' = ((haven \/ GetsHook(index)) /\ ~IsNextStart(index))
    /\ sector' = IF IsNextStart(index) THEN sector + 1 ELSE sector
    /\ index' = index + 1
    /\ UNCHANGED <<stage, route, waits, firstWait, poses, goal, log>>

InstructEnd ==
    /\ stage = "instruct" /\ index \notin Instructions
    /\ stage' = "deconflict" /\ index' = 1 /\ haven' = FALSE
    /\ UNCHANGED <<route, hooks, waits, firstWait, sector, poses, goal, log>>

\* Deconfliction delays the departure and publish_reservations adds to the waits
\* of the sectors with a hook.
Deconflict ==
    /\ stage = "deconflict"
    /\ firstWait' \in Waits \cap Nat
    /\ waits' \in [DOMAIN hooks -> Waits \cup {Unused}]
    /\ \A i \in DOMAIN hooks : hooks[i] = NoHook => waits'[i] = Unused
    /\ stage' = "convert"
    /\ UNCHANGED <<route, hooks, haven, index, sector, poses, goal, log>>

-----------------------------------------------------------------------------
(* convert_to_platform_specific *)

\* The sector index the converter's inner loops leave: the first hook from i on
\* that is used.
Used(i) ==
    LET used == {j \in i .. Len(waits) : waits[j] > 0}
    IN  IF used = {} THEN Len(waits) + 1 ELSE Min(used)

ConvertStart ==
    /\ stage = "convert" /\ durations = <<>>
    /\ durations' = <<firstWait>>
    /\ sector' = Used(1)
    /\ UNCHANGED <<stage, route, plan, index, poses, segments, log>>

Converting == stage = "convert" /\ durations # <<>>
AtHook == sector \in DOMAIN hooks /\ index = hooks[sector]

\* Mutant: the split goes on to the next instruction.
ConvertSplitAdvances ==
    /\ Converting /\ index \in Instructions /\ AtHook
    /\ segments' = Append(segments, Append(poses, index))
    /\ durations' = Append(durations, waits[sector])
    /\ poses' = <<>>
    /\ sector' = Used(sector + 1)
    /\ index' = index + 1
    /\ UNCHANGED <<stage, route, plan, log>>

\* A wait after this pose: it ends the segment, and begins the next one too,
\* since the loop continues with the same instruction.
ConvertSplit ==
    /\ Converting /\ index \in Instructions /\ AtHook
    /\ segments' = Append(segments, Append(poses, index))
    /\ durations' = Append(durations, waits[sector])
    /\ poses' = <<>>
    /\ sector' = Used(sector + 1)
    /\ UNCHANGED <<stage, route, plan, index, log>>

ConvertPose ==
    /\ Converting /\ index \in Instructions /\ ~AtHook
    /\ poses' = Append(poses, index)
    /\ index' = index + 1
    /\ UNCHANGED <<stage, route, plan, sector, goal, log>>

ConvertEnd ==
    /\ Converting /\ index \notin Instructions
    /\ segments' = IF poses = <<>> THEN segments ELSE Append(segments, poses)
    /\ poses' = <<>>
    /\ stage' = "drive" /\ index' = 1
    /\ UNCHANGED <<route, plan, sector, durations, log>>

-----------------------------------------------------------------------------
(* haphazard: execute, execute_segment *)

Driving == stage = "drive" /\ index \in DOMAIN segments

\* The wait of this number, when there is one, then the poses of the segment but
\* the first, where the rover already is.
ExecuteSegment ==
    /\ Driving
    /\ LET wait == IF index \in DOMAIN durations /\ durations[index] > 0
                   THEN <<durations[index]>> ELSE <<>>
           ahead == Tail(segments[index])
       IN  log' = [log EXCEPT ![Len(log)].waits = @ \o wait]
                      \o [k \in DOMAIN ahead |-> At(ahead[k])]
    /\ index' = index + 1
    /\ UNCHANGED <<stage, route, plan, sector, poses, goal>>

\* is_canceling is looked at before each segment.
BreakOff ==
    /\ Driving
    /\ stage' = "cancelled"
    /\ UNCHANGED <<route, plan, index, sector, poses, goal, log>>

Arrive ==
    /\ stage = "drive" /\ index \notin DOMAIN segments
    /\ stage' = "arrived"
    /\ UNCHANGED <<route, plan, index, sector, poses, goal, log>>

-----------------------------------------------------------------------------
RouteNext ==
    \/ ReverseToPath \/ EnterSector \/ StayInSector \/ GraphEnd
    \/ Instruct \/ InstructEnd \/ Deconflict
    \/ ConvertStart \/ ConvertSplit \/ ConvertPose \/ ConvertEnd
    \/ ExecuteSegment \/ BreakOff \/ Arrive

RouteSpec == RouteInit /\ [][RouteNext]_routeVars

-----------------------------------------------------------------------------
(* Properties *)

Graphed == stage \notin {"search", "graph"}
Hooked == Graphed /\ stage # "instruct"

\* The last node of sector i.
LastOf(i) == IF i < Len(starts) THEN starts[i + 1] - 1 ELSE Len(path)

\* The traversal that deconfliction lays on the grid is the path: every node lies
\* in the sector in whose stretch it is, one stretch ends where the next begins,
\* and neighbours are different sectors, also when the path comes back to one.
SectorsFollowPath ==
    Graphed =>
        /\ Len(starts) = Len(sectors) /\ starts[1] = 1
        /\ \A i \in DOMAIN starts :
            /\ starts[i] <= LastOf(i)
            /\ \A node \in starts[i] .. LastOf(i) : path[node].sector = sectors[i]
            /\ i > 1 => sectors[i] # sectors[i - 1]

\* A rover is told to wait only where it is safe, and may be told so wherever it
\* is: the hook of a sector is a node on which a rover may wait, in the sector or
\* the first of the next; no two hooks are on one node, and they are in the order
\* of their sectors; a sector without a hook has no such node but its first.
HooksAreHavens ==
    Hooked =>
        /\ \A i \in DOMAIN hooks :
            IF hooks[i] # NoHook
            THEN path[hooks[i]].safe /\ hooks[i] \in starts[i] .. LastOf(i) + 1
            ELSE \A node \in (starts[i] + 1 .. LastOf(i)) \cap Instructions :
                    ~path[node].safe
        /\ \A i, j \in DOMAIN hooks :
            i < j /\ hooks[i] # NoHook /\ hooks[j] # NoHook => hooks[i] < hooks[j]

\* What deconfliction planned for a pose: the first wait before the departure, and
\* the wait of the hook on the pose's instruction, when it is used.
FirstWait(node) == IF node = 1 /\ firstWait > 0 THEN <<firstWait>> ELSE <<>>

HookWait(node) ==
    LET used == {i \in DOMAIN hooks : hooks[i] = node /\ waits[i] > 0}
    IN  IF used = {} THEN <<>> ELSE <<waits[CHOOSE i \in used : TRUE]>>

Planned(node) == FirstWait(node) \o HookWait(node)

\* Through the cut into segments and haphazard's execution of them, a rover drives
\* to every pose once, in order, and waits exactly where and as long as it was
\* scheduled to; cancelled, it has done the beginning of that.
DrivenAsPlanned ==
    /\ stage \in {"drive", "cancelled", "arrived"} =>
        /\ Len(log) < Len(path)
        /\ \A n \in DOMAIN log :
            /\ log[n].pose = n
            /\ IF n < Len(log) THEN log[n].waits = Planned(n)
               ELSE IsPrefix(log[n].waits, Planned(n))
    /\ stage = "arrived" =>
        Len(log) = Len(path) - 1 /\ Last(log).waits = Planned(Len(log))
=============================================================================
