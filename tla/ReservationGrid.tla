--------------------------- MODULE ReservationGrid ---------------------------
(***************************************************************************)
(* The reservation grid: one row of time slots for each sector, the length *)
(* of the runs of free and busy slots beside it, the deconfliction of one  *)
(* route (src/deconf/deconf_algo.c) with its retries at later departures   *)
(* (src/deconf/deconf_main.c), and the shift of the grid as time goes by   *)
(* (shift_reservation_grid in src/initialization.c).                       *)
(*                                                                         *)
(* Both arrays are kept flat, row after row: the shift moves and clears    *)
(* rows of one-byte booleans by the size of an int, and so reaches into    *)
(* the rows that follow.  Indices count from 0, as in the code.            *)
(***************************************************************************)
EXTENDS Integers, FiniteSets, SequencesExt

CONSTANTS
    Rows,             \* g_sector_max, 1600 in the code
    ArrayRows,        \* SECTORS_ARR_SIZE, 100000 in the code
    MaxSlots,         \* MAX_TIME_SLOTS, 1000 in the code
    ShiftSlots,       \* MAX_TIME_SLOTS / 4
    IntSize,          \* sizeof(int), in booleans
    Smeared,          \* an int of MAX_TIME_SLOTS's lowest byte: 0xE8E8E8E8, negative
    Plans,            \* the routes that may be deconflicted
    Starts,           \* start slots of a batch
    MaxDeconfRetries, \* MAX_DECONF_RETRIES, 15 in the code
    MaxPublished,     \* bound on the routes that are given reservations
    MaxShifts,        \* bound on the shifts
    NoPlan            \* no route is being deconflicted

Memory == 0 .. ArrayRows * MaxSlots - 1
RouteIds == 1 .. MaxPublished

\* The positions of a traversal, and the cells of the array safe_wait.
Positions(p) == 0 .. p.count - 1
WaitCells(p) == 0 .. p.count

ASSUME GridAssumption ==
    /\ Rows \in Nat \ {0}
    /\ IntSize \in Nat \ {0} /\ ArrayRows \in Nat /\ ArrayRows >= Rows + IntSize
    /\ MaxSlots \in Nat \ {0} /\ ShiftSlots \in 1 .. MaxSlots - 1
    /\ Smeared \in Int /\ Smeared < -ArrayRows * MaxSlots - MaxSlots
    /\ \A p \in Plans :
        /\ p.count \in Nat \ {0}
        /\ p.sectors \in [Positions(p) -> 0 .. Rows - 1]
        /\ p.reservations \in [Positions(p) -> Nat] /\ p.reservations[0] = 0
        /\ p.sharesTail \in [Positions(p) -> BOOLEAN] /\ ~p.sharesTail[0]
        /\ p.havens \in [Positions(p) -> BOOLEAN]
        /\ p.hooked \in [Positions(p) -> BOOLEAN]
        /\ p.allowance \in 0 .. (ArrayRows - Rows - 2) * MaxSlots
    /\ Starts \subseteq 0 .. MaxSlots - 1
    /\ MaxDeconfRetries \in Nat /\ MaxPublished \in Nat /\ MaxShifts \in Nat
    /\ NoPlan \notin Plans

VARIABLES
    booked,     \* g_reservation_grid, with the routes each slot is reserved for
    intervals,  \* g_intervals
    deconf,     \* where the main thread is
    plan,       \* route
    start,      \* objective_start_time
    delay,      \* cumulative_initial_wait
    retries,    \* calls of deconf_standard for this route but the first
    safeWait,   \* safe_wait: [prev, slots, safe]
    position,   \* position
    free,       \* free
    wait,       \* time_to_wait
    back,       \* last_prev_safe_wait_index
    prevSlots,  \* prev_slots of publish_reservations, where position is its i
    waits,      \* the wait of each hook of the last route, in slots
    routes,     \* the number of routes that were given reservations
    shifts      \* the number of shifts

grid == <<booked, intervals>>
call == <<plan, start, delay, retries>>
search == <<safeWait, position, free, wait, back, prevSlots>>
bounds == <<routes, shifts>>
gridVars == <<booked, intervals, deconf, plan, start, delay, retries, safeWait,
              position, free, wait, back, prevSlots, waits, routes, shifts>>

Cell(sector, slot) == sector * MaxSlots + slot
InMemory(sector, slot) == Cell(sector, slot) \in Memory
Busy(sector, slot) == booked[Cell(sector, slot)] # {}
Interval(sector, slot) == intervals[Cell(sector, slot)]

Departure == start + delay
FirstCell == [prev |-> -1, slots |-> 0, safe |-> FALSE]

GridInit ==
    /\ booked = [c \in Memory |-> {}]
    /\ intervals = [c \in Memory |-> IF c < Rows * MaxSlots THEN MaxSlots ELSE 0]
    /\ deconf = "idle"
    /\ plan = NoPlan /\ start = 0 /\ delay = 0 /\ retries = 0
    /\ safeWait = <<>> /\ position = 0 /\ free = FALSE /\ wait = 0 /\ back = -1
    /\ prevSlots = 0 /\ waits = <<>>
    /\ routes = 0 /\ shifts = 0

\* The variables of deconf_standard and deconf_main are gone.
Return(there) ==
    /\ deconf' = there
    /\ plan' = NoPlan /\ start' = 0 /\ delay' = 0 /\ retries' = 0
    /\ safeWait' = <<>> /\ position' = 0 /\ free' = FALSE /\ wait' = 0 /\ back' = -1
    /\ prevSlots' = 0

\* An address outside the array.
Crash == Return("crashed") /\ UNCHANGED <<grid, waits, bounds>>

-----------------------------------------------------------------------------
(* find_next_free_interval and the retries of deconf_main *)

\* The length of the run at the slot or, when it is free, of the run and the next.
NextFreeInterval(sector, slot) ==
    LET length == Interval(sector, slot)
        both == length + Interval(sector, slot + length)
    IN  IF Busy(sector, slot)
        THEN IF length >= MaxSlots THEN -1 ELSE length
        ELSE IF 2 * length >= MaxSlots \/ both >= MaxSlots THEN -1 ELSE both

\* The route is tried again at a later departure, unless it lacks the battery, the
\* first answer is no later departure, or the retries are used up.
Fail ==
    LET later == NextFreeInterval(plan.sectors[0], Departure)
        again == /\ retries = 0 => later > 0
                 /\ delay + later <= plan.allowance
                 /\ retries < MaxDeconfRetries
    IN  /\ UNCHANGED <<grid, waits, bounds>>
        /\ IF again
           THEN /\ deconf' = "call"
                /\ delay' = delay + later /\ retries' = retries + 1
                /\ UNCHANGED <<plan, start, search>>
           ELSE Return("idle")

Take(p, s) ==
    /\ deconf = "idle" /\ routes < MaxPublished
    /\ plan' = p /\ start' = s /\ delay' = 0 /\ retries' = 0
    /\ deconf' = "call"
    /\ UNCHANGED <<grid, search, waits, bounds>>

-----------------------------------------------------------------------------
(* deconf_standard *)

Sector == plan.sectors[position]
Needed == plan.reservations[position]

Calling == deconf = "call" /\ InMemory(plan.sectors[0], Departure)

StartBusy ==
    /\ Calling
    /\ Busy(plan.sectors[0], Departure)
    /\ Fail

StartFree ==
    /\ Calling
    /\ ~Busy(plan.sectors[0], Departure)
    /\ safeWait' = [c \in WaitCells(plan) |-> FirstCell]
    /\ position' = 0 /\ free' = FALSE /\ wait' = 0 /\ back' = -1
    /\ deconf' = "walk"
    /\ UNCHANGED <<grid, call, prevSlots, waits, bounds>>

\* The slot, relative to the departure, in which the sector at a position is
\* looked at.
Entry(p) ==
    IF plan.sharesTail[p] /\ safeWait[p].slots > 0
    THEN safeWait[p].slots - 1 ELSE safeWait[p].slots

Here == Departure + Entry(position)
Walking == deconf = "walk" /\ position < plan.count /\ InMemory(Sector, Here)
Fits == ~Busy(Sector, Here) /\ Interval(Sector, Here) >= Needed

\* has_safe_haven has an element for each position and is read with the number of
\* a sector; its last element is never set.
HavenRead == IF Sector < plan.count - 1 THEN {plan.havens[Sector]} ELSE BOOLEAN

Pass ==
    /\ Walking /\ Fits
    /\ \E safe \in HavenRead :
        safeWait' = [safeWait EXCEPT ![position + 1] =
            [prev |-> IF safeWait[position].safe THEN position ELSE safeWait[position].prev,
             slots |-> Entry(position) + Needed,
             safe |-> safe]]
    /\ position' = position + 1
    /\ UNCHANGED <<grid, deconf, call, free, wait, back, prevSlots, waits, bounds>>

Block ==
    /\ Walking /\ ~Fits
    /\ free' = ~Busy(Sector, Here)
    /\ wait' = Entry(position) + Interval(Sector, Here)
    /\ back' = safeWait[position].prev
    /\ deconf' = "wait"
    /\ UNCHANGED <<grid, call, safeWait, position, prevSlots, waits, bounds>>

\* One turn of the loop that looks for a run that is long enough.
Waiting == deconf = "wait" /\ Departure + wait < MaxSlots

LookOn ==
    /\ Waiting /\ InMemory(Sector, Departure + wait)
    /\ wait' = Interval(Sector, Departure + wait)
    /\ free' = ~free
    /\ deconf' = IF free /\ wait' - wait >= Needed THEN "backtrack" ELSE "wait"
    /\ UNCHANGED <<grid, call, safeWait, position, back, prevSlots, waits, bounds>>

LookedThrough ==
    /\ deconf = "wait" /\ Departure + wait >= MaxSlots
    /\ deconf' = "backtrack"
    /\ UNCHANGED <<grid, call, search, waits, bounds>>

Look == LookOn \/ LookedThrough

\* The slot that is looked at is outside the array: what a shift left in g_intervals
\* led there.
Looked ==
    CASE deconf = "call" -> Cell(plan.sectors[0], Departure)
      [] deconf = "walk" -> Cell(Sector, Here)
      [] deconf = "wait" -> Cell(Sector, Departure + wait)

LookAway ==
    /\ deconf \in {"call", "walk", "wait"}
    /\ deconf = "walk" => position < plan.count
    /\ deconf = "wait" => Waiting
    /\ Looked \notin Memory
    /\ Crash

\* What is left of the run at the cell the search goes back to.
SlotsAfter ==
    LET slots == safeWait[back].slots
    IN  Interval(plan.sectors[back - 1], slots) - (slots + wait)

\* Mutant: the walk goes on after the sector whose entry was put off.
BacktrackSkips ==
    /\ deconf = "backtrack" /\ back > 0
    /\ SlotsAfter >= 0
    /\ safeWait' = [safeWait EXCEPT ![back] =
            [prev |-> @.prev, slots |-> @.slots + wait, safe |-> SlotsAfter > 0]]
    /\ deconf' = "walk"
    /\ UNCHANGED <<grid, call, position, free, wait, back, prevSlots, waits, bounds>>

\* The wait is put into a safe cell, and the walk goes on from there.  (The gate of
\* MAX_ITER_DECONFLICT turns, 10000, is left out.)
Backtrack ==
    /\ deconf = "backtrack" /\ back > 0
    /\ SlotsAfter >= 0
    /\ safeWait' = [safeWait EXCEPT ![back] =
            [prev |-> @.prev, slots |-> @.slots + wait, safe |-> SlotsAfter > 0]]
    /\ position' = back
    /\ deconf' = "walk"
    /\ UNCHANGED <<grid, call, free, wait, back, prevSlots, waits, bounds>>

BacktrackFurther ==
    /\ deconf = "backtrack" /\ back > 0
    /\ SlotsAfter < 0
    /\ back' = safeWait[back].prev
    /\ UNCHANGED <<grid, deconf, call, safeWait, position, free, wait, prevSlots, waits,
                   bounds>>

NoAcceptableTime ==
    /\ deconf = "backtrack" /\ back <= 0
    /\ Fail

Walked == deconf = "walk" /\ position = plan.count
Enough == safeWait[plan.count].slots + delay <= plan.allowance

LacksBattery ==
    /\ Walked /\ ~Enough
    /\ Return("idle")
    /\ UNCHANGED <<grid, waits, bounds>>

-----------------------------------------------------------------------------
(* publish_reservations *)

\* The loops that look for the ends of the run around what is reserved.  What a
\* shift left in g_intervals leads them away: back, past their beginning, or before it.
RunStart(lengths, sector) ==
    LET from[k \in Int] ==
            IF k > 0 /\ InMemory(sector, k - 1)
               /\ lengths[Cell(sector, k - 1)] # MaxSlots
            THEN from[k - lengths[Cell(sector, k - 1)]] ELSE k
    IN  from

RunEnd(lengths, sector) ==
    LET to[k \in Int] ==
            IF k < MaxSlots /\ InMemory(sector, k)
               /\ lengths[Cell(sector, k)] # MaxSlots
            THEN to[k + lengths[Cell(sector, k)]] ELSE k
    IN  to

Write(array, cell, value) == [array EXCEPT ![cell] = value]

\* The next sector of the route is given as many slots as the route has used when
\* it comes to it, after as many as all the sectors before it were given.
Given == safeWait[position].slots
LastGiven == prevSlots + Given

\* What is left of the run on either side.
Before == prevSlots - RunStart(intervals, Sector)[prevSlots]
After == RunEnd(intervals, Sector)[LastGiven] - LastGiven

Publishing ==
    /\ deconf = "publish" /\ position < plan.count
    /\ InMemory(Sector, prevSlots) /\ InMemory(Sector, LastGiven)
    /\ Before \in 0 .. Cell(Sector, prevSlots)
    /\ After \in Nat /\ (After > 1 => InMemory(Sector, LastGiven + 1))

PublishReservations ==
    /\ Walked /\ Enough
    /\ deconf' = "publish" /\ position' = 0 /\ prevSlots' = Departure
    /\ UNCHANGED <<grid, call, safeWait, free, wait, back, waits, bounds>>

PublishSector ==
    /\ Publishing
    /\ booked' = [c \in Memory |->
                    IF c \in Cell(Sector, prevSlots) .. Cell(Sector, LastGiven)
                    THEN booked[c] \cup {routes + 1} ELSE booked[c]]
    /\ LET left == IF Before > 0
                   THEN Write(intervals, Cell(Sector, prevSlots - Before), Before)
                   ELSE intervals
           own == Write(left, Cell(Sector, prevSlots), Given + 1)
       IN  intervals' = IF After > 1
                        THEN Write(own, Cell(Sector, LastGiven + 1), After - 1)
                        ELSE own
    /\ prevSlots' = LastGiven /\ position' = position + 1
    /\ UNCHANGED <<deconf, call, safeWait, free, wait, back, waits, bounds>>

PublishAway ==
    /\ deconf = "publish" /\ position < plan.count /\ ~Publishing
    /\ Crash

Published ==
    /\ deconf = "publish" /\ position = plan.count
    /\ waits' = [i \in Positions(plan) |->
                    IF plan.hooked[i] THEN safeWait[i].slots - plan.reservations[i] ELSE 0]
    /\ routes' = routes + 1
    /\ Return("idle")
    /\ UNCHANGED <<grid, shifts>>

-----------------------------------------------------------------------------
(* shift_reservation_grid *)

\* Row i: what follows its first ShiftSlots booleans, as many bytes as its slots
\* would take if they were integers, and likewise what is cleared.
ShiftRow(flat, i) ==
    LET moved == Cell(i, 0) .. Cell(i, 0) + IntSize * (MaxSlots - ShiftSlots) - 1
        tail == Cell(i, MaxSlots - ShiftSlots)
        cleared == tail .. tail + IntSize * ShiftSlots - 1
    IN  [c \in Memory |->
            IF c \in cleared THEN {}
            ELSE IF c \in moved THEN flat[c + ShiftSlots] ELSE flat[c]]

Shift ==
    /\ deconf = "idle" /\ shifts < MaxShifts
    /\ booked' = FoldLeft(ShiftRow, booked, [k \in 1 .. Rows |-> k - 1])
    /\ intervals' = [c \in Memory |->
                        IF c >= Rows * MaxSlots THEN intervals[c]
                        ELSE IF c % MaxSlots < MaxSlots - ShiftSlots
                        THEN intervals[c + ShiftSlots] ELSE Smeared]
    /\ shifts' = shifts + 1
    /\ UNCHANGED <<deconf, call, search, waits, routes>>

\* The process is gone.
Gone == deconf = "crashed" /\ UNCHANGED gridVars

-----------------------------------------------------------------------------
Deconf ==
    \/ StartBusy \/ StartFree
    \/ Pass \/ Block
    \/ Look \/ LookAway
    \/ Backtrack \/ BacktrackFurther \/ NoAcceptableTime
    \/ LacksBattery
    \/ PublishReservations \/ PublishSector \/ PublishAway \/ Published

GridNext ==
    \/ \E p \in Plans, s \in Starts : Take(p, s)
    \/ Deconf
    \/ Shift
    \/ Gone

GridSpec == GridInit /\ [][GridNext]_gridVars

-----------------------------------------------------------------------------
(* Properties *)

\* Wherever the walk has come, and however often it has gone back to put a wait
\* in: each sector behind it is free in the slot in which it was looked at, and
\* is not looked at before the slots of the one before it are over.
WalkedIsFree ==
    deconf \in {"walk", "wait", "backtrack"} =>
        \A p \in 0 .. position - 1 :
            /\ ~Busy(plan.sectors[p], Departure + Entry(p))
            /\ safeWait[p + 1].slots >= Entry(p) + plan.reservations[p]

\* README.md: deconfliction lays the schedules "along a discretized spacetime
\* grid" so that a later route must wait "to avoid conflicts": no slot is reserved
\* for two routes.
KeptApart == \A c \in Memory : Cardinality(booked[c]) <= 1
=============================================================================
