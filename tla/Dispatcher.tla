----------------------------- MODULE Dispatcher -----------------------------
(***************************************************************************)
(* The main loop: run_system_loop and handle_timer_events                  *)
(* (src/dispatcher.c), the time base of the reservation grid               *)
(* (shift_reservation_grid in src/initialization.c), the start slot        *)
(* create_and_send_rover_schedules computes (src/send/send_main.c) and the *)
(* signal handler that stops it all (src/main.c).                          *)
(*                                                                         *)
(* Time is kept relative, in an arbitrary unit, so that the states are     *)
(* finitely many without a bound on the clock: left[j] is how far the      *)
(* deadline of job j is ahead of the clock, negative once it has passed.   *)
(* The monotonic and the wall clock advance together.  Of what one round   *)
(* does, planning (process_requests) and sending take time, at most        *)
(* MaxWork together; the rest takes none.                                  *)
(*                                                                         *)
(* One reserved slot is followed, twice: by the server's own count of      *)
(* slots, which gives it a time (reservation), and by where its mark is in *)
(* the memory of g_reservation_grid (marks).  A shift moves the count and  *)
(* the entries of g_intervals by ShiftSlots, but the rows of one-byte      *)
(* booleans by the size of an int: only in the first row does the mark     *)
(* stay with the count.                                                    *)
(***************************************************************************)
EXTENDS Integers

CONSTANTS
    Interval,       \* PROACTIVE_MONITORING_INTERVAL, the period of the timer
    SchedulePeriod, \* SCHEDULING_PACE * PROACTIVE_MONITORING_INTERVAL
    SyncPeriod,     \* TIME_BEFORE_SYNC_MS
    SlotSize,       \* TIME_SLOT_SIZE
    ShiftSlots,     \* MAX_TIME_SLOTS / 4
    MaxSlots,       \* MAX_TIME_SLOTS
    Rows,           \* g_sector_max
    IntSize,        \* sizeof(int), in booleans
    MaxMissed,      \* MAX_ALLOWED_JITTER_TICKS
    MaxWork,        \* how long one round may plan and block on sending
    MaxStart,       \* time from system_initialization to run_system_loop
    MaxDelay,       \* largest time_delay added to the dispatch time
    None            \* no reservation is being watched

ASSUME DispatcherAssumption ==
    /\ Interval \in Nat \ {0}
    /\ SchedulePeriod \in Nat \ {0} /\ SyncPeriod \in Nat \ {0}
    /\ SlotSize \in Nat \ {0} /\ MaxSlots \in Nat
    /\ ShiftSlots \in 1 .. MaxSlots - 1
    /\ Rows \in Nat \ {0} /\ IntSize \in Nat \ {0}
    /\ MaxMissed \in Nat \ {0}
    /\ MaxWork \in Nat /\ MaxStart \in Nat /\ MaxDelay \in Nat
    /\ None \notin [sector : Int, slot : Int, lag : Int]

Jobs == {"schedule", "shift", "sync"}

ShiftPeriod == ShiftSlots * SlotSize

Periods(shift) ==
    [j \in Jobs |-> IF j = "schedule" THEN SchedulePeriod
                    ELSE IF j = "shift" THEN shift ELSE SyncPeriod]

\* Mutant: the grid is shifted by a quarter when all of it has passed.
PeriodOfWholeGrid == Periods(MaxSlots * SlotSize)

Period == Periods(ShiftPeriod)

VARIABLES
    pc,          \* where the main thread is
    running,     \* keep_running
    phase,       \* time since the timer last expired
    expired,     \* expirations of the timer not read yet
    age,         \* time since the snapshot now, 0 outside handle_timer_events
    left,        \* per job: its deadline, relative to the clock
    sinceFirst,  \* time since g_first_slot_wall_time
    reservation, \* one slot of a schedule sent: its sector, its number less what
                 \* g_current_time_slot_offset has grown by since, and the lag of
                 \* the rover behind the time that number stands for
    marks,       \* the cells of g_reservation_grid its mark is in
    row          \* i of shift_reservation_grid, 0 outside

timer == <<phase, expired>>
grid == <<sinceFirst, reservation, marks, row>>
vars == <<pc, running, timer, age, left, grid>>

Init ==
    /\ pc = "loop"
    /\ running = TRUE
    /\ phase = 0
    /\ expired = 0
    /\ age = 0
    /\ left = Period
    /\ sinceFirst \in 0..MaxStart
    /\ reservation = None
    /\ marks = {}
    /\ row = 0

Cell(sector, slot) == sector * MaxSlots + slot

\* How far ahead of the clock the rover is in the sector of reservation r.
Ahead(r) == r.slot * SlotSize + r.lag - sinceFirst

-----------------------------------------------------------------------------
(* Time *)

Waiting == pc = "poll" /\ expired = 0
Working == pc \in {"requests", "send"} /\ age < MaxWork

TimePasses ==
    /\ Waiting \/ Working
    /\ phase' = (phase + 1) % Interval
    /\ expired' = IF phase' = 0 THEN expired + 1 ELSE expired
    /\ age' = IF pc = "poll" THEN age ELSE age + 1
    /\ left' = [j \in Jobs |-> left[j] - 1]
    /\ sinceFirst' = sinceFirst + 1
    /\ UNCHANGED <<pc, running, reservation, marks, row>>

-----------------------------------------------------------------------------
(* The loop *)

Loop ==
    /\ pc = "loop"
    /\ pc' = IF running THEN "poll" ELSE "out"
    /\ UNCHANGED <<running, timer, age, left, grid>>

\* Mutant: the loop ends when handle_timer_events returns false.
OverrunHalts ==
    /\ pc = "poll" /\ expired > MaxMissed
    /\ expired' = 0
    /\ pc' = "out"
    /\ UNCHANGED <<running, phase, age, left, grid>>

\* The timer is read, and handle_timer_events(missed) returns false, which
\* run_system_loop does not look at.
Overrun ==
    /\ pc = "poll" /\ expired > MaxMissed
    /\ expired' = 0
    /\ pc' = "loop"
    /\ UNCHANGED <<running, phase, age, left, grid>>

\* The timer is read and handle_timer_events takes its snapshot of the clock.
Snapshot ==
    /\ pc = "poll" /\ expired \in 1..MaxMissed
    /\ expired' = 0
    /\ age' = 0
    /\ pc' = "requests"
    /\ UNCHANGED <<running, phase, left, grid>>

ProcessRequests ==
    /\ pc = "requests"
    /\ pc' = "schedule"
    /\ UNCHANGED <<running, timer, age, left, grid>>

\* timespec_ge(&now, &next_..._time): against the snapshot, not the clock.
Due(j) == left[j] + age <= 0

\* Mutant: the age of the snapshot is added instead of taken off.
RearmedLate(j) == [left EXCEPT ![j] = Period[j] + age]

\* next_..._time = now + the period of the job.
Rearmed(j) == [left EXCEPT ![j] = Period[j] - age]

NotDue(j, there) ==
    /\ pc = j /\ ~Due(j)
    /\ pc' = there
    /\ UNCHANGED <<running, timer, age, left, grid>>

SkipSchedule == NotDue("schedule", "shift")

\* create_and_send_rover_schedules finds something pending or not.  A route it
\* schedules holds slots from the start slot on; one of them is watched.  The
\* rover is told the dispatch time that was rounded down to the start slot.
Reserve ==
    /\ pc = "schedule" /\ Due("schedule")
    /\ pc' = "send"
    /\ \/ UNCHANGED <<reservation, marks>>
       \/ \E delay \in 0..MaxDelay, sector \in 0..(Rows - 1) :
             LET dispatch == sinceFirst + delay
             IN  \E slot \in (dispatch \div SlotSize)..(MaxSlots - 1) :
                    /\ reservation' = [sector |-> sector, slot |-> slot,
                                       lag |-> dispatch % SlotSize]
                    /\ marks' = {Cell(sector, slot)}
    /\ UNCHANGED <<running, timer, age, left, sinceFirst, row>>

Sent ==
    /\ pc = "send"
    /\ left' = Rearmed("schedule")
    /\ pc' = "shift"
    /\ UNCHANGED <<running, timer, age, grid>>

-----------------------------------------------------------------------------
(* Shifting the grid *)

SkipShift == NotDue("shift", "sync")

BeginShift ==
    /\ pc = "shift" /\ Due("shift")
    /\ pc' = "rows"
    /\ UNCHANGED <<running, timer, age, left, grid>>

\* Mutant: the row is cleared from the first slot that was moved.
RowClearedEarly(i) ==
    LET moved == Cell(i, 0) .. Cell(i, 0) + IntSize * (MaxSlots - ShiftSlots) - 1
        cleared == Cell(i, ShiftSlots) .. Cell(i, ShiftSlots) + IntSize * ShiftSlots - 1
        copies == {c - ShiftSlots : c \in marks} \cap moved
    IN  ((marks \ moved) \cup copies) \ cleared

\* What is left of the marks when row i has been moved left by memmove and its tail
\* been cleared by memset, each with IntSize times as many bytes as the row has.
RowShifted(i) ==
    LET moved == Cell(i, 0) .. Cell(i, 0) + IntSize * (MaxSlots - ShiftSlots) - 1
        tail == Cell(i, MaxSlots - ShiftSlots)
        cleared == tail .. tail + IntSize * ShiftSlots - 1
        copies == {c - ShiftSlots : c \in marks} \cap moved
    IN  ((marks \ moved) \cup copies) \ cleared

ShiftRow ==
    /\ pc = "rows" /\ row < Rows
    /\ marks' = RowShifted(row)
    /\ row' = row + 1
    /\ UNCHANGED <<pc, running, timer, age, left, sinceFirst, reservation>>

\* The offset has grown by ShiftSlots, and slot 0 stands for the time of the shift,
\* whatever time the slot that became it stood for.
Shifted(r) ==
    IF r = None \/ r.slot < ShiftSlots THEN None
    ELSE [r EXCEPT !.slot = @ - ShiftSlots, !.lag = @ + ShiftPeriod - sinceFirst]

\* Mutant: the time of slot 0 is left as it was.
ShiftedInPlace(r) ==
    IF r = None \/ r.slot < ShiftSlots THEN None
    ELSE [r EXCEPT !.slot = @ - ShiftSlots]

\* A slot that is out of the grid is followed no longer.
Ended(r) == IF r = None THEN {} ELSE marks

\* Mutant: the next shift is due a period after the last deadline.
ShiftToCatchUp ==
    /\ pc = "rows" /\ row = Rows
    /\ left' = [left EXCEPT !["shift"] = @ + Period["shift"]]
    /\ sinceFirst' = 0
    /\ reservation' = Shifted(reservation)
    /\ marks' = Ended(reservation')
    /\ row' = 0
    /\ pc' = "sync"
    /\ UNCHANGED <<running, timer, age>>

\* Mutant: g_first_slot_wall_time is left as it was.
ShiftKeepsFirstSlot ==
    /\ pc = "rows" /\ row = Rows
    /\ left' = Rearmed("shift")
    /\ reservation' = ShiftedInPlace(reservation)
    /\ marks' = Ended(reservation')
    /\ row' = 0
    /\ pc' = "sync"
    /\ UNCHANGED <<running, timer, age, sinceFirst>>

Shift ==
    /\ pc = "rows" /\ row = Rows
    /\ left' = Rearmed("shift")
    /\ sinceFirst' = 0
    /\ reservation' = Shifted(reservation)
    /\ marks' = Ended(reservation')
    /\ row' = 0
    /\ pc' = "sync"
    /\ UNCHANGED <<running, timer, age>>

\* The snapshot is local to handle_timer_events.
SkipSync ==
    /\ pc = "sync" /\ ~Due("sync")
    /\ pc' = "loop"
    /\ age' = 0
    /\ UNCHANGED <<running, timer, left, grid>>

Sync ==
    /\ pc = "sync" /\ Due("sync")
    /\ left' = Rearmed("sync")
    /\ pc' = "loop"
    /\ age' = 0
    /\ UNCHANGED <<running, timer, grid>>

-----------------------------------------------------------------------------
(* Stopping *)

\* SIGINT or SIGTERM.  Taken by the main thread inside poll, it makes poll fail
\* and the loop break; taken by another thread, it only clears the flag.
Signal ==
    /\ running /\ pc # "out"
    /\ running' = FALSE
    /\ pc' \in IF Waiting THEN {"poll", "out"} ELSE {pc}
    /\ UNCHANGED <<timer, age, left, grid>>

Round ==
    \/ Loop \/ Overrun \/ Snapshot \/ ProcessRequests
    \/ SkipSchedule \/ Reserve \/ Sent
    \/ SkipShift \/ BeginShift \/ ShiftRow \/ Shift
    \/ SkipSync \/ Sync

Next == TimePasses \/ Round \/ Signal

\* Time passes, the timer fires and the main thread is scheduled; a signal need
\* not come.
Spec == Init /\ [][Next]_vars /\ WF_vars(TimePasses \/ Round)

-----------------------------------------------------------------------------
(* Properties *)

Places == {"loop", "poll", "requests", "schedule", "send", "shift", "rows",
           "sync", "out"}

Reservations == [sector : 0..(Rows - 1), slot : Nat, lag : Int]

\* The variables have their types; a deadline is never more than a period away,
\* and one round never works longer than it may.
TypeOK ==
    /\ pc \in Places
    /\ running \in BOOLEAN
    /\ phase \in 0..(Interval - 1)
    /\ expired \in Nat
    /\ age \in 0..MaxWork
    /\ left \in [Jobs -> Int] /\ \A j \in Jobs : left[j] <= Period[j]
    /\ sinceFirst \in Nat
    /\ reservation \in Reservations \cup {None}
    /\ marks \in SUBSET Nat
    /\ row \in 0..Rows

\* A reserved slot has a time by the server's count: the slots
\* shift_reservation_grid has counted off, from the time it last gave to slot 0.
\* However late rounds run and however long sending blocks, a shift never brings
\* that time forward by more than the work of one round: a rover lags it by less
\* than MaxWork and the slot its dispatch time was rounded down by.
LagBounded ==
    reservation # None => reservation.lag < SlotSize + MaxWork

\* Shifts that come late put the time of a reserved slot off, at most by a timer
\* period and the work of one round each: with k shifts behind it, as its number
\* shows, a rover is not ahead of the slot's time by more than k times that, give
\* or take the work of one round and the time between initialization and the loop.
LeadBounded ==
    reservation # None =>
        LET shifts == (MaxSlots - 1 - reservation.slot) \div ShiftSlots
        IN  -reservation.lag <= shifts * (Interval + MaxWork) + MaxWork + MaxStart

\* In the first row of the grid the mark of a reserved slot is where the count says
\* after any number of shifts, though each moves and clears several rows at once
\* and every later row writes over its neighbours.  Of other rows this is false:
\* shift_reservation_grid ("Shift each sector's reservation grid left") moves their
\* marks too far, or clears them.
FirstRowKept ==
    reservation # None /\ reservation.sector = 0 /\ pc # "rows"
        => marks = {Cell(0, reservation.slot)}

\* The grid outlasts the time from one shift to the next, at its latest, and the
\* delay of a dispatch.  In config.c a shift takes off 250 of 1000 seconds.
GridOutlastsRounds ==
    ShiftPeriod + Interval + 2 * MaxWork + MaxStart + MaxDelay <= MaxSlots * SlotSize

\* No schedule starts past the end of the grid: g_reservation_grid is never
\* indexed out of its bounds by the start slot, because the shift that is due is
\* never later than a timer period and the work of two rounds, the planning of
\* this one included.
StartInGrid ==
    pc = "schedule" => sinceFirst + MaxDelay < MaxSlots * SlotSize

\* The mark of a slot in the first row is lost only when the rover has left the
\* sector, or will be there within the time one round may work.  Marks of other
\* rows are cleared while their time is still to come.
OnlyPastIsForgotten ==
    [][marks # {} /\ marks' = {} /\ reservation.sector = 0
         => Ahead(reservation) < MaxWork]_vars

\* After an overrun the loop goes on to make schedules, unless a signal ends it:
\* run_system_loop does not look at what handle_timer_events returns.  The comment
\* ("halt as missing too many ticks indicates system overload") and the message
\* ("Timing overrun detected. Halting for safety.") say that it halts.
OverrunHaltsNothing ==
    pc = "poll" /\ expired > MaxMissed ~> pc = "send" \/ ~running
=============================================================================
