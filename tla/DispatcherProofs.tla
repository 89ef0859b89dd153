-------------------------- MODULE DispatcherProofs --------------------------
(***************************************************************************)
(* What the main loop guarantees of the grid's time base for every timer   *)
(* period, slot size and amount of work: the time of a slot may drift, but *)
(* a rover never lags it by more than one round's work, however many       *)
(* shifts it lives through, and the mark of a slot in the first row goes   *)
(* with its number.                                                        *)
(***************************************************************************)
EXTENDS Dispatcher, TLAPS

\* How old the snapshot was when the grid was last shifted: the deadline of the
\* next shift counts from the snapshot, g_first_slot_wall_time from the clock.
\* Negative before the first shift.
Stale == ShiftPeriod - sinceFirst - left["shift"]

StaleInv == Stale <= MaxWork

\* Every shift takes from the lag what it adds to Stale, or more.
LagInv ==
    reservation # None =>
        /\ reservation.lag + Stale < SlotSize + MaxWork
        /\ Stale < 0 => reservation.lag < SlotSize

\* Where the mark of a slot in the first row is while the rows are moved, and that
\* a shift under way was due.
RowInv ==
    /\ pc # "rows" => row = 0
    /\ pc = "rows" => left["shift"] + age <= 0
    /\ reservation = None => marks = {}
    /\ reservation # None /\ reservation.sector = 0 =>
          /\ reservation.slot < MaxSlots
          /\ row = 0 => marks = {reservation.slot}
          /\ row # 0 => marks = {reservation.slot - ShiftSlots} \cap Nat

DispatcherInv == TypeOK /\ StaleInv /\ LagInv /\ RowInv

\* A snapshot is taken at most the work of one round and a timer period after the
\* one before, which left no shift overdue: an overrun, which skips a round, reads
\* at least two expirations that came during the work.
LateInv ==
    /\ pc \in {"loop", "poll"} =>
          left["shift"] + MaxWork > -(IF expired = 0 THEN phase
                                      ELSE IF expired = 1 THEN Interval ELSE 0)
    /\ pc \in {"requests", "schedule", "send", "shift", "rows"} =>
          left["shift"] + age + MaxWork + Interval > 0
    /\ pc = "sync" => left["shift"] + age > 0

\* The shifts behind the watched reservation, as its number shows them.
Shifts(slot) == (MaxSlots - 1 - slot) \div ShiftSlots

\* Every shift puts the reservation off by as much as it comes late.
LeadInv ==
    reservation # None =>
        /\ reservation.slot < MaxSlots
        /\ -reservation.lag - Stale
              <= Shifts(reservation.slot) * (Interval + MaxWork) + MaxStart

LatenessInv == Stale >= -MaxStart /\ LateInv /\ LeadInv

-----------------------------------------------------------------------------
(* Arithmetic *)

LEMMA Types ==
    /\ ShiftPeriod \in Nat \ {0}
    /\ Period \in [Jobs -> Nat \ {0}]
    /\ Period["shift"] = ShiftPeriod
    /\ "schedule" \in Jobs /\ "shift" \in Jobs /\ "sync" \in Jobs
<1>1. ShiftPeriod \in Nat \ {0}
  BY DispatcherAssumption, SMT DEF ShiftPeriod
<1> QED
  BY <1>1, DispatcherAssumption DEF Period, Periods, Jobs

\* A slot that leaves the grid ends by the shift.
LEMMA LeavingSlot ==
    ASSUME NEW slot \in Nat, slot < ShiftSlots
    PROVE  slot * SlotSize <= ShiftPeriod - SlotSize
<1>1. ShiftSlots \in Nat /\ SlotSize \in Nat /\ slot + 1 <= ShiftSlots
  BY DispatcherAssumption
<1>2. (slot + 1) * SlotSize <= ShiftSlots * SlotSize
  BY <1>1, SMT
<1>3. (slot + 1) * SlotSize = slot * SlotSize + SlotSize
  BY <1>1, SMT
<1>4. slot * SlotSize \in Int /\ ShiftSlots * SlotSize \in Int
  BY <1>1, SMT
<1> QED
  BY <1>1, <1>2, <1>3, <1>4 DEF ShiftPeriod

\* Re-arming a deadline keeps the types of the deadlines.
LEMMA RearmedTypes ==
    ASSUME TypeOK, NEW j \in Jobs
    PROVE  /\ Rearmed(j) \in [Jobs -> Int]
           /\ \A k \in Jobs : Rearmed(j)[k] <= Period[k]
           /\ \A k \in Jobs : Rearmed(j)[k] = IF k = j THEN Period[j] - age ELSE left[k]
<1>1. Period[j] \in Int /\ age \in Int /\ age >= 0 /\ left \in [Jobs -> Int]
  BY Types, DispatcherAssumption DEF TypeOK
<1>2. Period[j] - age \in Int /\ Period[j] - age <= Period[j]
  BY <1>1
<1>3. \A k \in Jobs : Rearmed(j)[k] = IF k = j THEN Period[j] - age ELSE left[k]
  BY <1>1 DEF Rearmed
<1>4. Rearmed(j) \in [Jobs -> Int]
  BY <1>1, <1>2 DEF Rearmed
<1> QED
  BY <1>1, <1>2, <1>3, <1>4 DEF TypeOK

-----------------------------------------------------------------------------
(* The types *)

\* Rows begin where the one before ends.
LEMMA RowStarts ==
    ASSUME NEW i \in Nat
    PROVE  /\ Cell(i, 0) \in Nat
           /\ \A slot \in Int : Cell(i, slot) = Cell(i, 0) + slot
           /\ i = 0 => Cell(i, 0) = 0
           /\ i # 0 => Cell(i, 0) >= MaxSlots
<1>1. MaxSlots \in Nat /\ i * MaxSlots \in Nat
  BY DispatcherAssumption, SMT
<1>2. i = 0 => i * MaxSlots = 0
  BY <1>1, SMT
<1>3. i # 0 => i * MaxSlots >= MaxSlots
  <2> SUFFICES ASSUME i # 0 PROVE i * MaxSlots >= MaxSlots
    OBVIOUS
  <2>1. PICK k \in Nat : i = k + 1
    <3>1. i - 1 \in Nat /\ i = (i - 1) + 1
      OBVIOUS
    <3> QED
      BY <3>1
  <2>2. (k + 1) * MaxSlots = k * MaxSlots + MaxSlots /\ k * MaxSlots \in Nat
    BY <1>1, SMT
  <2> QED
    BY <1>1, <2>1, <2>2
<1> QED
  BY <1>1, <1>2, <1>3 DEF Cell

LEMMA RowsStayInMemory ==
    ASSUME NEW i \in Nat, marks \in SUBSET Nat
    PROVE  RowShifted(i) \in SUBSET Nat
<1>1. \A j \in Int : Cell(i, 0) .. j \subseteq Nat
  BY RowStarts
<1>2. IntSize * (MaxSlots - ShiftSlots) \in Int
  BY DispatcherAssumption, SMT
<1>3. Cell(i, 0) + IntSize * (MaxSlots - ShiftSlots) - 1 \in Int
  BY <1>2, RowStarts
<1>4. Cell(i, 0) .. Cell(i, 0) + IntSize * (MaxSlots - ShiftSlots) - 1 \subseteq Nat
  BY <1>1, <1>3
<1> QED
  BY <1>4 DEF RowShifted

LEMMA TypeInit == Init => TypeOK
  BY Types, DispatcherAssumption DEF Init, TypeOK, Places

\* A slot that stays in the grid is followed on.
LEMMA ShiftedTypes ==
    ASSUME TypeOK, reservation # None, ~(reservation.slot < ShiftSlots)
    PROVE  Shifted(reservation) \in Reservations /\ Shifted(reservation) # None
<1>1. /\ reservation \in Reservations
      /\ reservation.slot - ShiftSlots \in Nat
      /\ reservation.lag + ShiftPeriod - sinceFirst \in Int
  BY Types, DispatcherAssumption DEF TypeOK, Reservations
<1>2. Shifted(reservation) = [reservation EXCEPT !.slot = @ - ShiftSlots,
                                                 !.lag = @ + ShiftPeriod - sinceFirst]
  BY DEF Shifted
<1>3. Shifted(reservation) = [sector |-> reservation.sector,
                              slot |-> reservation.slot - ShiftSlots,
                              lag |-> reservation.lag + ShiftPeriod - sinceFirst]
  BY <1>1, <1>2 DEF Reservations
<1>4. reservation.sector \in 0..(Rows - 1) /\ reservation.sector \in Int
  BY <1>1 DEF Reservations
<1> QED
  BY <1>1, <1>3, <1>4, DispatcherAssumption DEF Reservations

\* Only Reserve, Shift and the passing of time do more than move pc, re-arm a
\* deadline, read the timer or forget the snapshot.
LEMMA TypeStep == ASSUME TypeOK, [Next]_vars PROVE TypeOK'
<1> USE Types, DispatcherAssumption DEF TypeOK, Places, Reservations
<1>1. CASE TimePasses
  <2> USE <1>1 DEF TimePasses, Waiting, Working
  <2>1. phase' \in 0..(Interval - 1)
    BY SMT
  <2>2. expired' \in Nat /\ sinceFirst' \in Nat /\ age' \in 0..MaxWork
    OBVIOUS
  <2>3. left' \in [Jobs -> Int] /\ \A j \in Jobs : left'[j] <= Period[j]
    OBVIOUS
  <2> QED
    BY <2>1, <2>2, <2>3
<1>2. CASE Loop \/ Overrun \/ Snapshot \/ ProcessRequests
  <2>1. UNCHANGED <<running, phase, left, sinceFirst, reservation, marks, row>>
    BY <1>2 DEF Loop, Overrun, Snapshot, ProcessRequests, timer, grid
  <2>2. pc' \in Places /\ expired' \in Nat /\ age' \in 0..MaxWork
    BY <1>2 DEF Loop, Overrun, Snapshot, ProcessRequests, timer
  <2> QED
    BY <2>1, <2>2
<1>3. CASE SkipSchedule \/ SkipShift \/ SkipSync
  <2>1. /\ UNCHANGED <<running, phase, expired, left, sinceFirst, reservation>>
        /\ UNCHANGED <<marks, row>>
    BY <1>3 DEF SkipSchedule, SkipShift, SkipSync, NotDue, timer, grid
  <2>2. pc' \in Places /\ age' \in 0..MaxWork
    BY <1>3 DEF SkipSchedule, SkipShift, SkipSync, NotDue
  <2> QED
    BY <2>1, <2>2
<1>4. CASE Reserve
  <2> USE <1>4 DEF Reserve, timer
  <2>1. CASE UNCHANGED <<reservation, marks>>
    BY <2>1
  <2>2. ASSUME NEW delay \in 0..MaxDelay,
               NEW sector \in 0..(Rows - 1),
               NEW slot \in ((sinceFirst + delay) \div SlotSize)..(MaxSlots - 1),
               reservation' = [sector |-> sector, slot |-> slot,
                               lag |-> (sinceFirst + delay) % SlotSize],
               marks' = {Cell(sector, slot)}
        PROVE  TypeOK'
    <3>1. (sinceFirst + delay) \div SlotSize \in Nat
      BY SMT
    <3>2. (sinceFirst + delay) % SlotSize \in Int
      BY SMT
    <3>3. slot \in Nat /\ sector \in Nat
      BY <3>1
    <3>4. Cell(sector, slot) \in Nat
      <4>0. sector \in Nat /\ slot \in Int
        BY <3>3
      <4>1. Cell(sector, 0) \in Nat /\ Cell(sector, slot) = Cell(sector, 0) + slot
        BY <4>0, RowStarts, Zenon
      <4> QED
        BY <3>3, <4>1
    <3>5. reservation' \in Reservations
      BY <2>2, <3>2, <3>3 DEF Reservations
    <3> QED
      BY <2>2, <3>4, <3>5
  <2> QED
    BY <2>1, <2>2
<1>5. CASE Sent
  BY <1>5, RearmedTypes DEF Sent, timer, grid
<1>6. CASE Shift
  <2>1. reservation' \in Reservations \cup {None}
    BY <1>6, ShiftedTypes DEF Shift, Shifted
  <2>2. marks' \in SUBSET Nat /\ row' \in 0..Rows
    BY <1>6 DEF Shift, Ended
  <2> QED
    BY <1>6, <2>1, <2>2, RearmedTypes DEF Shift, timer
<1>10. CASE BeginShift
  BY <1>10 DEF BeginShift, timer, grid
<1>11. CASE ShiftRow
  <2>1. marks' \in SUBSET Nat
    BY <1>11, RowsStayInMemory DEF ShiftRow
  <2> QED
    BY <1>11, <2>1 DEF ShiftRow, timer
<1>7. CASE Sync
  BY <1>7, RearmedTypes DEF Sync, timer, grid
<1>8. CASE Signal
  BY <1>8 DEF Signal, Waiting, timer, grid
<1>9. CASE UNCHANGED vars
  BY <1>9 DEF vars, timer, grid
<1> QED
  BY <1>1, <1>2, <1>3, <1>4, <1>5, <1>6, <1>7, <1>8, <1>9, <1>10, <1>11
     DEF Next, Round

-----------------------------------------------------------------------------
(* The drift *)

\* A step that leaves the grid and the deadline of the shift alone, or moves both
\* with the clock, leaves Stale as it is.
LEMMA StaleFrame ==
    ASSUME TypeOK, TypeOK', StaleInv, LagInv, Stale' = Stale, UNCHANGED reservation
    PROVE  StaleInv' /\ LagInv'
  BY DEF StaleInv, LagInv

LEMMA DriftStep ==
    ASSUME TypeOK, TypeOK', StaleInv, LagInv, RowInv, [Next]_vars
    PROVE  StaleInv' /\ LagInv'
<1> USE Types, DispatcherAssumption
<1>t. /\ sinceFirst \in Int /\ age \in Int /\ age >= 0 /\ age <= MaxWork
      /\ left \in [Jobs -> Int] /\ left["shift"] \in Int /\ Stale \in Int
  BY DEF TypeOK, Stale
<1>1. CASE TimePasses
  <2>1. Stale' = Stale
    BY <1>1, <1>t DEF TimePasses, Stale
  <2> QED
    BY <1>1, <2>1, StaleFrame DEF TimePasses
<1>2. CASE Loop \/ Overrun \/ Snapshot \/ ProcessRequests
  <2>1. Stale' = Stale /\ UNCHANGED reservation
    BY <1>2 DEF Loop, Overrun, Snapshot, ProcessRequests, grid, Stale
  <2> QED
    BY <2>1, StaleFrame
<1>3. CASE SkipSchedule \/ SkipShift \/ SkipSync
  <2>1. Stale' = Stale /\ UNCHANGED reservation
    BY <1>3 DEF SkipSchedule, SkipShift, SkipSync, NotDue, grid, Stale
  <2> QED
    BY <2>1, StaleFrame
<1>4. CASE Reserve
  <2>1. Stale' = Stale
    BY <1>4 DEF Reserve, Stale
  <2>2. CASE UNCHANGED reservation
    BY <2>1, <2>2, StaleFrame
  <2>3. ASSUME NEW delay \in 0..MaxDelay,
               NEW sector \in 0..(Rows - 1),
               NEW slot \in ((sinceFirst + delay) \div SlotSize)..(MaxSlots - 1),
               reservation' = [sector |-> sector, slot |-> slot,
                               lag |-> (sinceFirst + delay) % SlotSize]
        PROVE  StaleInv' /\ LagInv'
    <3>1. /\ (sinceFirst + delay) % SlotSize \in Int
          /\ (sinceFirst + delay) % SlotSize < SlotSize
      BY <1>t, SMT
    <3>2. reservation'.lag = (sinceFirst + delay) % SlotSize
      BY <2>3
    <3> QED
      BY <1>t, <2>1, <3>1, <3>2 DEF StaleInv, LagInv
  <2> QED
    BY <1>4, <2>2, <2>3 DEF Reserve
<1>5. CASE Sent
  <2>1. Stale' = Stale /\ UNCHANGED reservation
    BY <1>5, <1>t, RearmedTypes DEF Sent, grid, Stale, Jobs
  <2> QED
    BY <2>1, StaleFrame
<1>6. CASE Shift
  <2>1. left'["shift"] = ShiftPeriod - age /\ sinceFirst' = 0
    BY <1>6, RearmedTypes DEF Shift
  <2>2. Stale' = age
    BY <1>t, <2>1 DEF Stale
  <2>3. left["shift"] + age <= 0
    BY <1>6 DEF Shift, RowInv
  <2>4. CASE reservation' = None
    BY <1>t, <2>2, <2>4 DEF StaleInv, LagInv
  <2>5. CASE reservation' # None
    <3>1. /\ reservation # None
          /\ reservation'.lag = reservation.lag + ShiftPeriod - sinceFirst
      BY <1>6, <2>5 DEF Shift, Shifted, TypeOK, Reservations
    <3>2. reservation.lag \in Int
      BY <3>1 DEF TypeOK, Reservations
    <3>3. reservation'.lag + Stale' <= reservation.lag + Stale
      BY <1>t, <2>2, <2>3, <3>1, <3>2 DEF Stale
    <3> QED
      BY <1>t, <2>2, <3>1, <3>2, <3>3 DEF StaleInv, LagInv
  <2> QED
    BY <2>4, <2>5
<1>7. CASE Sync
  <2>1. Stale' = Stale /\ UNCHANGED reservation
    BY <1>7, <1>t, RearmedTypes DEF Sync, grid, Stale, Jobs
  <2> QED
    BY <2>1, StaleFrame
<1>8. CASE Signal
  <2>1. Stale' = Stale /\ UNCHANGED reservation
    BY <1>8 DEF Signal, grid, Stale
  <2> QED
    BY <2>1, StaleFrame
<1>9. CASE UNCHANGED vars
  <2>1. Stale' = Stale /\ UNCHANGED reservation
    BY <1>9 DEF vars, grid, Stale
  <2> QED
    BY <2>1, StaleFrame
<1>10. CASE BeginShift \/ ShiftRow
  <2>1. Stale' = Stale /\ UNCHANGED reservation
    BY <1>10 DEF BeginShift, ShiftRow, grid, Stale
  <2> QED
    BY <2>1, StaleFrame
<1> QED
  BY <1>1, <1>2, <1>3, <1>4, <1>5, <1>6, <1>7, <1>8, <1>9, <1>10 DEF Next, Round

\* Nothing but a late shift makes Stale smaller than it was, and then it is the
\* age of the snapshot.
LEMMA StaleStep ==
    ASSUME TypeOK, [Next]_vars
    PROVE  /\ ~Shift => Stale' = Stale
           /\ Shift => Stale' = age
<1> USE Types, DispatcherAssumption
<1>t. /\ sinceFirst \in Int /\ age \in Int
      /\ left \in [Jobs -> Int] /\ left["shift"] \in Int
  BY DEF TypeOK
<1>1. CASE TimePasses
  BY <1>1, <1>t DEF TimePasses, Shift, Waiting, Working, Stale
<1>2. CASE Loop \/ Overrun \/ Snapshot \/ ProcessRequests
  BY <1>2 DEF Loop, Overrun, Snapshot, ProcessRequests, Shift, grid, Stale
<1>3. CASE SkipSchedule \/ SkipShift \/ SkipSync
  BY <1>3 DEF SkipSchedule, SkipShift, SkipSync, NotDue, Shift, grid, Stale
<1>4. CASE Reserve
  BY <1>4 DEF Reserve, Shift, Stale
<1>5. CASE Sent
  BY <1>5, <1>t, RearmedTypes DEF Sent, Shift, grid, Stale, Jobs
<1>6. CASE Shift
  <2>1. left'["shift"] = ShiftPeriod - age /\ sinceFirst' = 0
    BY <1>6, RearmedTypes DEF Shift
  <2> QED
    BY <1>6, <1>t, <2>1 DEF Stale
<1>7. CASE Sync
  BY <1>7, <1>t, RearmedTypes DEF Sync, Shift, grid, Stale, Jobs
<1>8. CASE Signal
  BY <1>8, <1>t DEF Signal, Shift, grid, Stale
<1>9. CASE UNCHANGED vars
  BY <1>9, <1>t DEF vars, Shift, grid, Stale
<1>10. CASE BeginShift \/ ShiftRow
  BY <1>10, <1>t DEF BeginShift, ShiftRow, Shift, grid, Stale
<1> QED
  BY <1>1, <1>2, <1>3, <1>4, <1>5, <1>6, <1>7, <1>8, <1>9, <1>10 DEF Next, Round

-----------------------------------------------------------------------------
(* The lateness *)

LEMMA LateStep ==
    ASSUME TypeOK, TypeOK', LateInv, [Next]_vars
    PROVE  LateInv'
<1> USE Types, DispatcherAssumption
<1>t. /\ phase \in 0..(Interval - 1) /\ expired \in Nat
      /\ age \in Int /\ age >= 0 /\ age <= MaxWork
      /\ left \in [Jobs -> Int] /\ left["shift"] \in Int
  BY DEF TypeOK
<1>1. CASE TimePasses
  <2>1. left'["shift"] = left["shift"] - 1 /\ pc' = pc
    BY <1>1, <1>t DEF TimePasses
  <2>2. CASE Waiting
    <3>1. /\ pc = "poll" /\ expired = 0
          /\ left["shift"] + MaxWork > -phase
      BY <1>t, <2>2 DEF Waiting, LateInv
    <3>2. \/ phase' = phase + 1 /\ expired' = 0
          \/ phase = Interval - 1 /\ expired' = 1
      <4>1. CASE phase + 1 < Interval
        <5>1. (phase + 1) % Interval = phase + 1
          BY <1>t, <4>1, SMT
        <5> QED
          BY <1>1, <1>t, <3>1, <5>1 DEF TimePasses
      <4>2. CASE phase + 1 = Interval
        <5>1. Interval % Interval = 0
          BY SMT
        <5> QED
          BY <1>1, <1>t, <3>1, <4>2, <5>1 DEF TimePasses
      <4> QED
        BY <1>t, <4>1, <4>2
    <3>3. CASE phase' = phase + 1 /\ expired' = 0
      BY <1>t, <2>1, <3>1, <3>3 DEF LateInv
    <3>4. CASE phase = Interval - 1 /\ expired' = 1
      BY <1>t, <2>1, <3>1, <3>4 DEF LateInv
    <3> QED
      BY <3>2, <3>3, <3>4
  <2>3. CASE Working
    <3>1. pc \in {"requests", "send"} /\ age' = age + 1
      BY <1>1, <1>t, <2>3 DEF TimePasses, Working
    <3> QED
      BY <1>t, <2>1, <3>1 DEF LateInv
  <2> QED
    BY <1>1, <2>2, <2>3 DEF TimePasses
<1>2. CASE Loop
  BY <1>2, <1>t DEF Loop, timer, LateInv
<1>3. CASE Overrun
  <2>1. pc = "poll" /\ expired > 1 /\ expired' = 0 /\ left' = left
        /\ phase' = phase /\ pc' = "loop"
    BY <1>3, <1>t DEF Overrun
  <2> QED
    BY <1>t, <2>1 DEF LateInv
<1>4. CASE Snapshot
  <2>1. pc = "poll" /\ expired >= 1 /\ age' = 0 /\ left' = left /\ pc' = "requests"
    BY <1>4, <1>t DEF Snapshot
  <2> QED
    BY <1>t, <2>1 DEF LateInv
<1>5. CASE ProcessRequests \/ SkipSchedule \/ Reserve
  BY <1>5, <1>t DEF ProcessRequests, SkipSchedule, NotDue, Reserve, timer, LateInv
<1>6. CASE Sent
  <2>1. left'["shift"] = left["shift"] /\ pc = "send" /\ pc' = "shift" /\ age' = age
    BY <1>6, <1>t, RearmedTypes DEF Sent, Jobs
  <2> QED
    BY <1>t, <2>1 DEF LateInv
<1>7. CASE SkipShift \/ BeginShift \/ ShiftRow
  BY <1>7, <1>t DEF SkipShift, BeginShift, ShiftRow, NotDue, Due, LateInv
<1>8. CASE Shift
  <2>1. left'["shift"] = ShiftPeriod - age /\ age' = age /\ pc' = "sync"
    BY <1>8, RearmedTypes DEF Shift
  <2> QED
    BY <1>t, <2>1 DEF LateInv
<1>9. CASE SkipSync \/ Sync
  <2>1. /\ pc = "sync" /\ pc' = "loop" /\ phase' = phase /\ expired' = expired
        /\ left'["shift"] = left["shift"]
    BY <1>9, <1>t, RearmedTypes DEF SkipSync, Sync, timer, Jobs
  <2> QED
    BY <1>t, <2>1 DEF LateInv
<1>10. CASE Signal
  BY <1>10, <1>t DEF Signal, Waiting, timer, LateInv
<1>11. CASE UNCHANGED vars
  BY <1>11, <1>t DEF vars, timer, LateInv
<1> QED
  BY <1>1, <1>2, <1>3, <1>4, <1>5, <1>6, <1>7, <1>8, <1>9, <1>10, <1>11
     DEF Next, Round

\* Bringing a slot forward by a shift counts one shift more.
LEMMA ShiftsCount ==
    ASSUME NEW slot \in Nat, slot < MaxSlots
    PROVE  /\ Shifts(slot) \in Nat
           /\ slot >= ShiftSlots => Shifts(slot - ShiftSlots) = Shifts(slot) + 1
<1> DEFINE rest == MaxSlots - 1 - slot
<1>1. rest \in Nat /\ ShiftSlots \in Nat \ {0}
  BY DispatcherAssumption
<1>2. MaxSlots - 1 - (slot - ShiftSlots) = rest + ShiftSlots
  BY DispatcherAssumption
<1> HIDE DEF rest
<1>3. rest \div ShiftSlots \in Nat
  BY <1>1, SMT
<1>4. (rest + ShiftSlots) \div ShiftSlots = (rest \div ShiftSlots) + 1
  BY <1>1, SMT
<1> QED
  BY <1>2, <1>3, <1>4 DEF Shifts, rest

LEMMA OneMore ==
    ASSUME NEW a \in Nat, NEW b \in Nat
    PROVE  (a + 1) * b = a * b + b /\ a * b \in Int
<1>1. a * b \in Int
  BY SMT
<1>2. (a + 1) * b = a * b + b
  BY SMT
<1> QED
  BY <1>1, <1>2

LEMMA LeadStep ==
    ASSUME TypeOK, TypeOK', StaleInv, LatenessInv, [Next]_vars
    PROVE  LatenessInv'
<1> USE Types, DispatcherAssumption
<1>t. /\ sinceFirst \in Int /\ age \in Int /\ age >= 0 /\ left["shift"] \in Int
      /\ Stale \in Int
  BY DEF TypeOK, Stale
<1>1. LateInv'
  BY LateStep DEF LatenessInv
<1>2. Stale' \in Int /\ Stale' >= -MaxStart
  BY <1>t, StaleStep DEF LatenessInv
<1>3. CASE UNCHANGED reservation /\ ~Shift
  BY <1>3, <1>1, <1>2, StaleStep DEF LatenessInv, LeadInv
<1>4. CASE Reserve /\ reservation' # reservation
  <2>0. PICK delay \in 0..MaxDelay, sector \in 0..(Rows - 1) :
               \E slot \in ((sinceFirst + delay) \div SlotSize)..(MaxSlots - 1) :
                  reservation' = [sector |-> sector, slot |-> slot,
                                  lag |-> (sinceFirst + delay) % SlotSize]
    BY <1>4 DEF Reserve
  <2>1. PICK slot \in ((sinceFirst + delay) \div SlotSize)..(MaxSlots - 1) :
               reservation' = [sector |-> sector, slot |-> slot,
                               lag |-> (sinceFirst + delay) % SlotSize]
    BY <2>0
  <2> DEFINE lag == (sinceFirst + delay) % SlotSize
  <2>2. (sinceFirst + delay) \div SlotSize \in Nat /\ lag \in Nat
    BY SMT DEF TypeOK
  <2>3. slot \in Nat /\ slot < MaxSlots
    BY <2>2
  <2>4. Shifts(slot) \in Nat
    BY <2>3, ShiftsCount
  <2>5. Shifts(slot) * (Interval + MaxWork) \in Nat
    BY <2>4, SMT
  <2>6. Stale' = Stale
    BY <1>4, StaleStep DEF Reserve, Shift
  <2>7. -lag - Stale <= MaxStart
    BY <1>t, <2>2 DEF LatenessInv
  <2>8. reservation'.slot = slot /\ reservation'.lag = lag
    BY <2>1
  <2> HIDE DEF lag
  <2>9. -lag - Stale <= Shifts(slot) * (Interval + MaxWork) + MaxStart
    BY <1>t, <2>2, <2>5, <2>7
  <2>10. LeadInv'
    BY <2>3, <2>6, <2>8, <2>9 DEF LeadInv, Shifts
  <2> QED
    BY <1>1, <1>2, <2>10 DEF LatenessInv
<1>5. CASE Shift /\ reservation' = None
  BY <1>1, <1>2, <1>5 DEF LatenessInv, LeadInv
<1>6. CASE Shift /\ reservation' # None
  <2>1. /\ reservation # None /\ ~(reservation.slot < ShiftSlots)
        /\ reservation'.slot = reservation.slot - ShiftSlots
        /\ reservation'.lag = reservation.lag + ShiftPeriod - sinceFirst
    BY <1>6 DEF Shift, Shifted, TypeOK, Reservations
  <2> DEFINE slot == reservation.slot
             lag == reservation.lag
             step == Interval + MaxWork
  <2>2. /\ slot \in Nat /\ lag \in Int /\ slot >= ShiftSlots
        /\ reservation'.slot = slot - ShiftSlots
        /\ reservation'.lag = lag + ShiftPeriod - sinceFirst
    BY <2>1 DEF TypeOK, Reservations
  <2>3. slot < MaxSlots /\ -lag - Stale <= Shifts(slot) * step + MaxStart
    BY <2>1 DEF LatenessInv, LeadInv
  <2>4. left["shift"] + age + step > 0
    BY <1>6, <1>t DEF LatenessInv, LateInv, Shift
  <2>5. Stale' = age
    BY <1>6, StaleStep
  <2>6. -reservation'.lag - Stale' <= -lag - Stale + step
    BY <1>t, <2>2, <2>4, <2>5 DEF Stale
  <2>7. Shifts(slot) \in Nat /\ Shifts(slot - ShiftSlots) = Shifts(slot) + 1
    BY <2>2, <2>3, ShiftsCount
  <2>8. reservation'.lag \in Int /\ reservation'.slot < MaxSlots
    BY <1>t, <2>2, <2>3
  <2> HIDE DEF slot, lag
  <2>9. step \in Nat
    OBVIOUS
  <2> HIDE DEF step
  <2>10. (Shifts(slot) + 1) * step = Shifts(slot) * step + step
         /\ Shifts(slot) * step \in Int
    BY <2>7, <2>9, OneMore
  <2>11. -reservation'.lag - Stale' <= (Shifts(slot) + 1) * step + MaxStart
    <3>1. lag \in Int /\ Stale' \in Int
      BY <2>2, <1>2
    <3>2. -lag - Stale + step <= Shifts(slot) * step + step + MaxStart
      BY <1>t, <2>3, <2>9, <2>10, <3>1
    <3> QED
      BY <1>t, <2>6, <2>8, <2>9, <2>10, <3>1, <3>2
  <2>12. Shifts(reservation'.slot) = Shifts(slot) + 1
    BY <2>2, <2>7
  <2>13. LeadInv'
    BY <2>8, <2>11, <2>12 DEF LeadInv, Shifts, step
  <2> QED
    BY <1>1, <1>2, <2>13 DEF LatenessInv
<1>7. Reserve \/ Shift \/ UNCHANGED reservation
  BY DEF Next, Round, TimePasses, Loop, Overrun, Snapshot, ProcessRequests,
     SkipSchedule, SkipShift, BeginShift, ShiftRow, SkipSync, NotDue, Sent, Sync,
     Signal, vars, grid
<1> QED
  BY <1>3, <1>4, <1>5, <1>6, <1>7 DEF Reserve, Shift

-----------------------------------------------------------------------------
(* The first row *)

\* The first turn brings a mark of the first row forward by ShiftSlots, or over
\* the start of the row, where the others write over it.
LEMMA FirstRowShifts ==
    ASSUME NEW slot \in Nat, slot < MaxSlots, marks = {slot}
    PROVE  RowShifted(0) = {slot - ShiftSlots} \cap Nat
<1> DEFINE size == IntSize * (MaxSlots - ShiftSlots)
           gone == IntSize * ShiftSlots
<1>1. /\ MaxSlots \in Nat /\ ShiftSlots \in Nat /\ MaxSlots - ShiftSlots \in Nat
      /\ IntSize \in Nat /\ IntSize >= 1
  BY DispatcherAssumption
<1>2. \A n \in Nat : IntSize * n \in Nat /\ IntSize * n >= n
  <2> SUFFICES ASSUME NEW n \in Nat PROVE IntSize * n \in Nat /\ IntSize * n >= n
    OBVIOUS
  <2>1. PICK k \in Nat : IntSize = k + 1
    <3>1. IntSize - 1 \in Nat /\ IntSize = (IntSize - 1) + 1
      BY <1>1
    <3> QED
      BY <3>1
  <2>2. (k + 1) * n = k * n + n /\ k * n \in Nat
    BY SMT
  <2> QED
    BY <2>1, <2>2
<1>3. /\ size \in Nat /\ size >= MaxSlots - ShiftSlots
      /\ gone \in Nat /\ gone >= ShiftSlots
  BY <1>1, <1>2
<1>4. Cell(0, 0) = 0 /\ Cell(0, MaxSlots - ShiftSlots) = MaxSlots - ShiftSlots
  BY <1>1, RowStarts
<1>5. RowShifted(0) = (({slot} \ (0 .. size - 1))
                          \cup ({slot - ShiftSlots} \cap (0 .. size - 1)))
                        \ (MaxSlots - ShiftSlots .. MaxSlots - ShiftSlots + gone - 1)
  <2>1. {c - ShiftSlots : c \in marks} = {slot - ShiftSlots}
    OBVIOUS
  <2>2. 0 + size - 1 = size - 1
    BY <1>3
  <2> HIDE DEF size, gone
  <2>3. RowShifted(0) = ((marks \ (0 .. 0 + size - 1))
                          \cup ({c - ShiftSlots : c \in marks} \cap (0 .. 0 + size - 1)))
                        \ (MaxSlots - ShiftSlots .. MaxSlots - ShiftSlots + gone - 1)
    BY <1>4 DEF RowShifted, size, gone
  <2> QED
    BY <2>1, <2>2, <2>3
<1> HIDE DEF size, gone
<1>6. slot \in 0 .. size - 1
         \/ slot \in MaxSlots - ShiftSlots .. MaxSlots - ShiftSlots + gone - 1
  BY <1>1, <1>3
<1>7. slot - ShiftSlots
         \notin MaxSlots - ShiftSlots .. MaxSlots - ShiftSlots + gone - 1
  BY <1>1, <1>3
<1>8. slot - ShiftSlots \in Nat <=> slot - ShiftSlots \in 0 .. size - 1
  BY <1>1, <1>3
<1> QED
  BY <1>5, <1>6, <1>7, <1>8

\* The later turns leave the first row alone.
LEMMA LaterRowsShift ==
    ASSUME NEW i \in Nat, i # 0, \A c \in marks : c \in Nat /\ c < MaxSlots
    PROVE  RowShifted(i) = marks
<1> DEFINE base == Cell(i, 0)
           moved == base .. base + IntSize * (MaxSlots - ShiftSlots) - 1
           tail == Cell(i, MaxSlots - ShiftSlots)
           cleared == tail .. tail + IntSize * ShiftSlots - 1
<1>1. /\ MaxSlots \in Nat /\ ShiftSlots \in Nat /\ MaxSlots - ShiftSlots \in Nat
      /\ base \in Nat /\ base >= MaxSlots /\ tail = base + (MaxSlots - ShiftSlots)
  BY DispatcherAssumption, RowStarts
<1>2. IntSize * (MaxSlots - ShiftSlots) \in Nat /\ IntSize * ShiftSlots \in Nat
  BY <1>1, DispatcherAssumption, SMT
<1>3. RowShifted(i) = ((marks \ moved) \cup ({c - ShiftSlots : c \in marks} \cap moved))
                        \ cleared
  BY DEF RowShifted
<1>4. \A c \in moved \cup cleared : c \in Int /\ c >= MaxSlots
  <2> HIDE DEF base, tail
  <2> QED
    BY <1>1, <1>2
<1> HIDE DEF moved, cleared
<1>5. \A c \in marks : c \notin moved /\ c \notin cleared /\ c - ShiftSlots \notin moved
  BY <1>1, <1>4
<1> QED
  BY <1>3, <1>5

LEMMA RowStep ==
    ASSUME TypeOK, TypeOK', RowInv, [Next]_vars
    PROVE  RowInv'
<1> USE Types, DispatcherAssumption
<1>t. /\ left["shift"] \in Int /\ age \in Int /\ row \in Nat
      /\ reservation # None => reservation.slot \in Nat
  BY DEF TypeOK, Reservations
<1>1. CASE TimePasses
  <2>1. pc # "rows" /\ pc' = pc
    BY <1>1 DEF TimePasses, Waiting, Working
  <2> QED
    BY <1>1, <2>1 DEF TimePasses, RowInv
<1>2. CASE \/ Loop \/ Overrun \/ Snapshot \/ ProcessRequests
           \/ SkipSchedule \/ SkipShift \/ SkipSync \/ Sent \/ Sync
  <2>1. UNCHANGED <<reservation, marks, row>> /\ pc # "rows" /\ pc' # "rows"
    BY <1>2 DEF Loop, Overrun, Snapshot, ProcessRequests, SkipSchedule, SkipShift,
       SkipSync, NotDue, Sent, Sync, grid
  <2> QED
    BY <2>1 DEF RowInv
<1>3. CASE Signal \/ UNCHANGED vars
  <2>1. /\ UNCHANGED <<reservation, marks, row, left, age>>
        /\ pc' = "rows" <=> pc = "rows"
    BY <1>3 DEF Signal, Waiting, vars, grid
  <2> QED
    BY <2>1 DEF RowInv
<1>4. CASE Reserve
  <2>1. pc = "schedule" /\ pc' = "send" /\ row' = row /\ row = 0
    BY <1>4 DEF Reserve, RowInv
  <2>2. CASE UNCHANGED <<reservation, marks>>
    BY <2>1, <2>2 DEF RowInv
  <2>3. ASSUME NEW delay \in 0..MaxDelay, NEW sector \in 0..(Rows - 1),
               NEW slot \in ((sinceFirst + delay) \div SlotSize)..(MaxSlots - 1),
               reservation' = [sector |-> sector, slot |-> slot,
                               lag |-> (sinceFirst + delay) % SlotSize],
               marks' = {Cell(sector, slot)}
        PROVE  RowInv'
    <3>1. (sinceFirst + delay) \div SlotSize \in Nat
      BY SMT DEF TypeOK
    <3>2. slot \in Nat /\ slot < MaxSlots
      BY <3>1
    <3>3. /\ (sinceFirst + delay) % SlotSize \in Int
          /\ sector \in Int
      BY SMT DEF TypeOK
    <3>4. reservation' # None
      BY <2>3, <3>2, <3>3
    <3>5. sector = 0 => Cell(sector, slot) = slot
      <4>1. /\ \A s \in Int : Cell(0, s) = Cell(0, 0) + s
            /\ Cell(0, 0) = 0
        BY RowStarts
      <4> QED
        BY <3>2, <4>1
    <3>6. reservation'.sector = sector /\ reservation'.slot = slot
      BY <2>3
    <3> QED
      BY <2>1, <2>3, <3>2, <3>4, <3>5, <3>6 DEF RowInv
  <2> QED
    BY <1>4, <2>2, <2>3 DEF Reserve
<1>5. CASE BeginShift
  BY <1>5 DEF BeginShift, Due, grid, RowInv
<1>6. CASE ShiftRow
  <2>1. /\ pc = "rows" /\ pc' = "rows" /\ UNCHANGED <<left, age, reservation>>
        /\ marks' = RowShifted(row) /\ row' = row + 1
    BY <1>6 DEF ShiftRow
  <2>2. reservation = None => marks' = {}
    BY <2>1 DEF RowInv, RowShifted
  <2>3. ASSUME reservation # None, reservation.sector = 0
        PROVE  marks' = {reservation.slot - ShiftSlots} \cap Nat
    <3>1. CASE row = 0
      BY <1>t, <2>1, <2>3, <3>1, FirstRowShifts DEF RowInv
    <3>2. CASE row # 0
      <4>1. /\ marks = {reservation.slot - ShiftSlots} \cap Nat
            /\ reservation.slot < MaxSlots
        BY <2>3, <3>2 DEF RowInv
      <4>2. \A c \in marks : c \in Nat /\ c < MaxSlots
        BY <1>t, <2>3, <4>1
      <4> QED
        BY <1>t, <2>1, <3>2, <4>1, <4>2, LaterRowsShift
    <3> QED
      BY <3>1, <3>2
  <2>4. row' # 0
    BY <1>t, <2>1
  <2> QED
    BY <2>1, <2>2, <2>3, <2>4 DEF RowInv
<1>7. CASE Shift
  <2>1. /\ pc = "rows" /\ pc' = "sync" /\ row' = 0 /\ row # 0
        /\ reservation' = Shifted(reservation) /\ marks' = Ended(reservation')
    BY <1>7 DEF Shift
  <2>2. CASE reservation' = None
    BY <2>1, <2>2 DEF RowInv, Ended
  <2>3. CASE reservation' # None
    <3>1. /\ reservation # None /\ ~(reservation.slot < ShiftSlots)
          /\ reservation'.slot = reservation.slot - ShiftSlots
          /\ reservation'.sector = reservation.sector
          /\ marks' = marks
      BY <2>1, <2>3 DEF Shifted, Ended, TypeOK, Reservations
    <3>2. reservation.slot - ShiftSlots \in Nat
      BY <1>t, <3>1
    <3>3. reservation.sector = 0 =>
             /\ marks = {reservation.slot - ShiftSlots}
             /\ reservation.slot - ShiftSlots < MaxSlots
      BY <1>t, <2>1, <3>1, <3>2 DEF RowInv
    <3> QED
      BY <2>1, <2>3, <3>1, <3>3 DEF RowInv
  <2> QED
    BY <2>2, <2>3
<1> QED
  BY <1>1, <1>2, <1>3, <1>4, <1>5, <1>6, <1>7 DEF Next, Round

\* The inductive invariant holds in every behaviour of the main loop.
THEOREM DispatcherInvariant == Spec => []DispatcherInv
<1>1. Init => DispatcherInv
  <2> SUFFICES ASSUME Init PROVE DispatcherInv
    OBVIOUS
  <2>1. /\ left["shift"] = ShiftPeriod /\ sinceFirst \in Nat
        /\ reservation = None /\ marks = {} /\ row = 0 /\ pc = "loop"
    BY Types, DispatcherAssumption DEF Init
  <2>2. Stale = -sinceFirst
    BY <2>1, Types DEF Stale
  <2>3. RowInv
    BY <2>1 DEF RowInv
  <2> QED
    BY <2>1, <2>2, <2>3, TypeInit, DispatcherAssumption
       DEF DispatcherInv, StaleInv, LagInv
<1>2. DispatcherInv /\ [Next]_vars => DispatcherInv'
  <2> SUFFICES ASSUME DispatcherInv, [Next]_vars PROVE DispatcherInv'
    OBVIOUS
  <2>1. TypeOK'
    BY TypeStep DEF DispatcherInv
  <2> QED
    BY <2>1, DriftStep, RowStep DEF DispatcherInv
<1> QED
  BY <1>1, <1>2, PTL DEF Spec

\* The variables of the main loop keep their types (dispatcher.c).
THEOREM DispatcherTypeCorrect == Spec => []TypeOK
<1>1. DispatcherInv => TypeOK
  BY DEF DispatcherInv
<1> QED
  BY <1>1, DispatcherInvariant, PTL

\* shift_reservation_grid never brings the time of a reserved slot forward by more
\* than the work of one round, over any number of shifts.
THEOREM LagAlwaysBounded == Spec => []LagBounded
<1>1. DispatcherInv => LagBounded
  <2> SUFFICES ASSUME DispatcherInv, reservation # None
               PROVE  reservation.lag < SlotSize + MaxWork
    BY DEF LagBounded
  <2>1. reservation.lag \in Int /\ Stale \in Int
    BY Types DEF DispatcherInv, TypeOK, Reservations, Stale
  <2> QED
    BY <2>1, DispatcherAssumption DEF DispatcherInv, LagInv
<1> QED
  BY <1>1, DispatcherInvariant, PTL

\* The mark of a reserved slot in the first row stays where the count of slots has
\* it through any number of shifts (shift_reservation_grid).
THEOREM FirstRowAlwaysKept == Spec => []FirstRowKept
<1>1. DispatcherInv => FirstRowKept
  <2> SUFFICES ASSUME DispatcherInv, reservation # None, reservation.sector = 0,
                      pc # "rows"
               PROVE  marks = {Cell(0, reservation.slot)}
    BY DEF FirstRowKept
  <2>1. reservation.slot \in Nat
    BY DEF DispatcherInv, TypeOK, Reservations
  <2>2. Cell(0, reservation.slot) = reservation.slot
    <3>1. /\ \A slot \in Int : Cell(0, slot) = Cell(0, 0) + slot
          /\ Cell(0, 0) = 0
      BY RowStarts
    <3> QED
      BY <2>1, <3>1
  <2> QED
    BY <2>2 DEF DispatcherInv, RowInv
<1> QED
  BY <1>1, DispatcherInvariant, PTL

\* shift_reservation_grid clears no mark of the first row that lies further ahead
\* than the work of one round.
THEOREM ForgottenIsPast == Spec => OnlyPastIsForgotten
<1>1. DispatcherInv /\ [Next]_vars
        => (marks # {} /\ marks' = {} /\ reservation.sector = 0
              => Ahead(reservation) < MaxWork)
  <2> SUFFICES ASSUME DispatcherInv, [Next]_vars,
                      marks # {}, marks' = {}, reservation.sector = 0
               PROVE  Ahead(reservation) < MaxWork
    OBVIOUS
  <2> USE Types, DispatcherAssumption
  <2>0. reservation # None
    BY DEF DispatcherInv, RowInv
  <2>1. /\ reservation # None
        /\ reservation.slot \in Nat /\ reservation.lag \in Int
        /\ sinceFirst \in Int /\ left["shift"] \in Int
        /\ age \in Int /\ age >= 0 /\ row \in Nat
    BY <2>0 DEF DispatcherInv, TypeOK, Reservations
  <2>2. ShiftRow \/ Shift
    BY DEF Next, Round, TimePasses, Loop, Overrun, Snapshot, ProcessRequests,
       Reserve, SkipSchedule, SkipShift, BeginShift, SkipSync, NotDue, Sent, Sync,
       Signal, vars, grid
  <2>3. left["shift"] + age <= 0
    BY <2>2 DEF ShiftRow, Shift, DispatcherInv, RowInv
  <2>4. reservation.slot < ShiftSlots
    <3> SUFFICES ASSUME ~(reservation.slot < ShiftSlots) PROVE FALSE
      OBVIOUS
    <3>1. reservation.slot - ShiftSlots \in Nat
      BY <2>1
    <3>2. CASE ShiftRow
      <4>1. RowInv'
        <5>1. TypeOK'
          BY TypeStep DEF DispatcherInv
        <5> QED
          BY <5>1, RowStep DEF DispatcherInv
      <4>2. reservation' = reservation /\ row' # 0
        BY <2>1, <3>2 DEF ShiftRow
      <4> QED
        BY <2>1, <3>1, <4>1, <4>2 DEF RowInv
    <3>3. CASE Shift
      <4>1. reservation' # None
        BY <2>1, <3>3, ShiftedTypes DEF Shift, DispatcherInv
      <4> QED
        BY <3>3, <4>1 DEF Shift, Ended
    <3> QED
      BY <2>2, <3>2, <3>3
  <2>5. reservation.slot * SlotSize <= ShiftPeriod - SlotSize
    BY <2>1, <2>4, LeavingSlot
  <2>6. reservation.slot * SlotSize \in Int
    BY <2>1, SMT
  <2>7. reservation.lag + Stale < SlotSize + MaxWork
    BY <2>1 DEF DispatcherInv, LagInv
  <2> QED
    BY <2>1, <2>3, <2>5, <2>6, <2>7 DEF Ahead, Stale
<1> QED
  BY <1>1, DispatcherInvariant, PTL DEF Spec, OnlyPastIsForgotten

\* However rounds overrun, a snapshot finds the shift overdue by less than a timer
\* period and the work of one round, and a reserved slot has been put off by no
\* more than that per shift.
THEOREM LatenessInvariant == Spec => []LatenessInv
<1>1. Init => LatenessInv
  <2> SUFFICES ASSUME Init PROVE LatenessInv
    OBVIOUS
  <2>1. /\ left["shift"] = ShiftPeriod /\ sinceFirst \in 0..MaxStart
        /\ reservation = None /\ pc = "loop" /\ expired = 0 /\ phase = 0
    BY Types, DispatcherAssumption DEF Init
  <2>2. Stale = -sinceFirst
    BY <2>1, Types DEF Stale
  <2> QED
    BY <2>1, <2>2, Types, DispatcherAssumption DEF LatenessInv, LateInv, LeadInv
<1>2. DispatcherInv /\ DispatcherInv' /\ LatenessInv /\ [Next]_vars => LatenessInv'
  BY LeadStep DEF DispatcherInv
<1> QED
  BY <1>1, <1>2, DispatcherInvariant, PTL DEF Spec

\* Late shifts put a reserved slot off by at most a timer period and the work of
\* one round each, over any number of shifts (shift_reservation_grid).
THEOREM LeadAlwaysBounded == Spec => []LeadBounded
<1>1. DispatcherInv /\ LatenessInv => LeadBounded
  <2> SUFFICES ASSUME DispatcherInv, LatenessInv, reservation # None
               PROVE  -reservation.lag <= Shifts(reservation.slot) * (Interval + MaxWork)
                                              + MaxWork + MaxStart
    BY DEF LeadBounded, Shifts
  <2>1. /\ reservation.lag \in Int /\ reservation.slot \in Nat /\ Stale \in Int
        /\ reservation.slot < MaxSlots
    BY Types DEF DispatcherInv, TypeOK, Reservations, Stale, LatenessInv, LeadInv
  <2>2. Shifts(reservation.slot) \in Nat
    BY <2>1, ShiftsCount
  <2>3. Shifts(reservation.slot) * (Interval + MaxWork) \in Int
    BY <2>2, DispatcherAssumption, SMT
  <2> QED
    BY <2>1, <2>3, DispatcherAssumption
       DEF DispatcherInv, StaleInv, LatenessInv, LeadInv
<1> QED
  BY <1>1, DispatcherInvariant, LatenessInvariant, PTL

\* With a grid longer than the time between two shifts at its latest and the delay
\* of a dispatch, create_and_send_rover_schedules never indexes past its end.
THEOREM StartAlwaysInGrid == GridOutlastsRounds => (Spec => []StartInGrid)
<1> SUFFICES ASSUME GridOutlastsRounds PROVE Spec => []StartInGrid
  OBVIOUS
<1>1. DispatcherInv /\ LatenessInv => StartInGrid
  <2> SUFFICES ASSUME DispatcherInv, LatenessInv, pc = "schedule"
               PROVE  sinceFirst + MaxDelay < MaxSlots * SlotSize
    BY DEF StartInGrid
  <2>1. /\ sinceFirst \in Int /\ left["shift"] \in Int /\ ShiftPeriod \in Int
        /\ age \in Int /\ age <= MaxWork
    BY Types, DispatcherAssumption DEF DispatcherInv, TypeOK
  <2>2. left["shift"] + age + MaxWork + Interval > 0
    BY DEF LatenessInv, LateInv
  <2>3. ShiftPeriod - sinceFirst - left["shift"] >= -MaxStart
    BY DEF LatenessInv, Stale
  <2>4. sinceFirst + MaxDelay < ShiftPeriod + Interval + 2 * MaxWork + MaxStart + MaxDelay
    BY <2>1, <2>2, <2>3, DispatcherAssumption
  <2>5. MaxSlots * SlotSize \in Int
    BY DispatcherAssumption, SMT
  <2> QED
    BY <2>1, <2>4, <2>5, DispatcherAssumption DEF GridOutlastsRounds
<1> QED
  BY <1>1, DispatcherInvariant, LatenessInvariant, PTL
=============================================================================
