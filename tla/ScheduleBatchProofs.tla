------------------------ MODULE ScheduleBatchProofs ------------------------
(***************************************************************************)
(* What a scheduling batch guarantees for every number of rovers and every *)
(* setting of the two limits: its heaps stay within the capacity they were *)
(* allocated with, and its work is bounded.                                *)
(*                                                                         *)
(* The second part is about the calls of deconf_standard, whose answers    *)
(* the batch takes as they come: ReservationGrid, for every grid and every *)
(* set of routes.  What a shift leaves in the grid may make a call crash,  *)
(* but a walk that goes on has only free sectors behind it.                *)
(***************************************************************************)
EXTENDS ScheduleBatch, ReservationGrid, FiniteSetTheorems, TLAPS

InBatch == {"loop", "retry", "retried"}
InHand == IF route = NoRoute THEN 0 ELSE 1

\* Every route of a batch came out of the pending heap, so the two heaps and the
\* route in hand never exceed the capacity together.  Once a retry has ended, the
\* route in hand is either in completed or freed and counts no more.
RoomInv ==
    /\ IsFiniteSet(pending) /\ IsFiniteSet(completed)
    /\ Cardinality(pending) <= Capacity
    /\ pc = "idle" => completed = {}
    /\ pc \in {"loop", "retry"} =>
          Cardinality(pending) + Cardinality(completed) + InHand <= Capacity
    /\ pc = "retried" =>
          Cardinality(pending) + Cardinality(completed) <= Capacity

\* Where the counters stand at each place of the loop.
CountInv ==
    /\ pc = "retry" => route # NoRoute /\ retry < MaxRetries
    /\ pc \in {"retry", "retried"} => tries \in 1..MaxTries

BatchInv == TypeOK /\ CountInv /\ RoomInv

-----------------------------------------------------------------------------
(* The heap operations *)

\* instrpack_heap_push adds at most one route, and none to a full heap.
LEMMA HeapPushBounded ==
    ASSUME NEW heap, IsFiniteSet(heap), Cardinality(heap) <= Capacity,
           NEW r, NEW h \in HeapPush(heap, r)
    PROVE  /\ IsFiniteSet(h)
           /\ h \subseteq heap \cup {r}
           /\ Cardinality(h) <= Capacity
           /\ Cardinality(h) <= Cardinality(heap) + 1
<1> USE BatchAssumption
<1>n. Cardinality(heap) \in Nat
  BY FS_CardinalityType
<1>1. CASE Cardinality(heap) < Capacity
  <2>1. h = heap \cup {r}
    BY <1>1 DEF HeapPush
  <2>a. IsFiniteSet(h) /\ \/ Cardinality(h) = Cardinality(heap)
                          \/ Cardinality(h) = Cardinality(heap) + 1
    BY <2>1, FS_AddElement
  <2>2. IsFiniteSet(h) /\ Cardinality(h) <= Cardinality(heap) + 1
    BY <2>a, <1>n
  <2>3. Cardinality(h) \in Nat
    BY <2>2, FS_CardinalityType
  <2> QED
    BY <1>1, <1>n, <2>1, <2>2, <2>3
<1>2. CASE ~(Cardinality(heap) < Capacity)
  <2>1. h = heap \/ \E d \in heap : h = (heap \ {d}) \cup {r}
    BY <1>2 DEF HeapPush
  <2>2. CASE h = heap
    BY <2>2, <1>n
  <2>3. ASSUME NEW d \in heap, h = (heap \ {d}) \cup {r}
        PROVE  IsFiniteSet(h) /\ Cardinality(h) <= Cardinality(heap)
    <3>1. IsFiniteSet(heap \ {d}) /\ Cardinality(heap \ {d}) = Cardinality(heap) - 1
      BY FS_RemoveElement
    <3>2. Cardinality(heap \ {d}) \in Nat
      BY <3>1, FS_CardinalityType
    <3>3. IsFiniteSet(h) /\ \/ Cardinality(h) = Cardinality(heap \ {d})
                            \/ Cardinality(h) = Cardinality(heap \ {d}) + 1
      BY <2>3, <3>1, FS_AddElement
    <3> QED
      BY <3>1, <3>2, <3>3, <1>n
  <2>4. CASE \E d \in heap : h = (heap \ {d}) \cup {r}
    <3>1. PICK d \in heap : h = (heap \ {d}) \cup {r}
      BY <2>4
    <3>2. IsFiniteSet(h) /\ Cardinality(h) <= Cardinality(heap)
      BY <2>3, <3>1
    <3>3. Cardinality(h) \in Nat
      BY <3>2, FS_CardinalityType
    <3>4. h \subseteq heap \cup {r}
      BY <3>1
    <3> QED
      BY <3>2, <3>3, <3>4, <1>n
  <2> QED
    BY <2>1, <2>2, <2>4
<1> QED
  BY <1>1, <1>2

\* instrpack_heap_pop takes one route out, or none when there is none.
LEMMA PopBounded ==
    ASSUME NEW next, Pop(next), IsFiniteSet(pending), pending \subseteq Routes
    PROVE  /\ IsFiniteSet(pending') /\ pending' \subseteq pending
           /\ next \in Routes \cup {NoRoute}
           /\ Cardinality(pending') <= Cardinality(pending)
           /\ next # NoRoute =>
                 Cardinality(pending') + 1 = Cardinality(pending)
<1>n. Cardinality(pending) \in Nat
  BY FS_CardinalityType
<1>1. CASE pending = {} /\ next = NoRoute /\ UNCHANGED pending
  BY <1>1, <1>n
<1>2. CASE next \in pending /\ pending' = pending \ {next}
  <2>1. IsFiniteSet(pending') /\ Cardinality(pending') = Cardinality(pending) - 1
    BY <1>2, FS_RemoveElement
  <2> QED
    BY <1>2, <2>1, <1>n
<1> QED
  BY <1>1, <1>2 DEF Pop

LEMMA PopRouteBounded ==
    ASSUME PopRoute, IsFiniteSet(pending), pending \subseteq Routes
    PROVE  /\ IsFiniteSet(pending') /\ pending' \subseteq pending
           /\ route' \in Routes \cup {NoRoute}
           /\ Cardinality(pending') + InHand' <= Cardinality(pending)
<1>1. PICK next \in pending \cup {NoRoute} : Pop(next) /\ route' = next
  BY DEF PopRoute
<1>2. /\ IsFiniteSet(pending') /\ pending' \subseteq pending
      /\ next \in Routes \cup {NoRoute}
      /\ Cardinality(pending') <= Cardinality(pending)
      /\ next # NoRoute => Cardinality(pending') + 1 = Cardinality(pending)
  BY <1>1, PopBounded
<1>3. Cardinality(pending) \in Nat /\ Cardinality(pending') \in Nat
  BY <1>2, FS_CardinalityType
<1>4. CASE next = NoRoute
  BY <1>1, <1>2, <1>3, <1>4 DEF InHand
<1>5. CASE next # NoRoute
  BY <1>1, <1>2, <1>3, <1>5 DEF InHand
<1> QED
  BY <1>1, <1>2, <1>4, <1>5

-----------------------------------------------------------------------------
(* The invariant *)

LEMMA BatchInvInit == Init => BatchInv
<1> SUFFICES ASSUME Init PROVE BatchInv
  OBVIOUS
<1> USE BatchAssumption
<1>1. TypeOK
  BY DEF Init, TypeOK, Locations
<1>2. CountInv
  BY DEF Init, CountInv
<1>3. RoomInv
  BY FS_EmptySet DEF Init, RoomInv
<1> QED
  BY <1>1, <1>2, <1>3 DEF BatchInv

\* A new route has the type of a route.
LEMMA NewRoute ==
    ASSUME TypeOK, arrived < MaxRoutes, NEW rover \in Rovers, NEW time \in Times
    PROVE  [id |-> arrived + 1, rover |-> rover, time |-> time] \in Routes
BY BatchAssumption DEF TypeOK, Routes

LEMMA ArriveStep ==
    ASSUME BatchInv, NEW rover \in Rovers, NEW time \in Times, Arrive(rover, time)
    PROVE  BatchInv'
<1> DEFINE r == [id |-> arrived + 1, rover |-> rover, time |-> time]
<1> USE BatchAssumption DEF BatchInv, RoomInv, Arrive, counters, fates
<1>1. r \in Routes
  BY NewRoute
<1>2. pending' \in HeapPush(pending, r)
  OBVIOUS
<1>3. IsFiniteSet(pending') /\ pending' \subseteq pending \cup {r}
      /\ Cardinality(pending') <= Capacity
  BY <1>2, HeapPushBounded
<1> HIDE DEF r
<1>4. TypeOK'
  BY <1>1, <1>3 DEF TypeOK
<1>5. CountInv'
  BY DEF CountInv
<1>6. RoomInv'
  BY <1>3
<1> QED
  BY <1>4, <1>5, <1>6

LEMMA StartBatchStep == BatchInv /\ StartBatch => BatchInv'
<1> SUFFICES ASSUME BatchInv, StartBatch PROVE BatchInv'
  OBVIOUS
<1> USE BatchAssumption DEF BatchInv, RoomInv, StartBatch, fates
<1>1. /\ IsFiniteSet(pending') /\ pending' \subseteq pending
      /\ route' \in Routes \cup {NoRoute}
      /\ Cardinality(pending') + InHand' <= Cardinality(pending)
  BY PopRouteBounded DEF TypeOK
<1>2. Cardinality(pending) \in Nat /\ Cardinality(pending') \in Nat /\ InHand' \in Nat
  BY <1>1, FS_CardinalityType DEF InHand
<1>3. completed' = {} /\ Cardinality(completed') = 0
  BY FS_EmptySet
<1>4. TypeOK'
  BY <1>1 DEF TypeOK, Locations
<1>5. CountInv'
  BY DEF CountInv
<1>6. Cardinality(pending') <= Capacity
      /\ Cardinality(pending') + Cardinality(completed') + InHand' <= Capacity
  BY <1>1, <1>2, <1>3
<1>7. RoomInv'
  BY <1>1, <1>3, <1>6, FS_EmptySet
<1> QED
  BY <1>4, <1>5, <1>7

LEMMA Sizes ==
    ASSUME BatchInv
    PROVE  /\ Cardinality(pending) \in Nat /\ Cardinality(completed) \in Nat
           /\ InHand \in Nat
           /\ (route # NoRoute => InHand = 1)
BY FS_CardinalityType DEF BatchInv, RoomInv, InHand

\* While a route is in hand, completed has room for it: pushing it adds it.
LEMMA CompletedPush ==
    ASSUME BatchInv, pc \in {"loop", "retry"}, route # NoRoute,
           completed' \in HeapPush(completed, route)
    PROVE  /\ IsFiniteSet(completed') /\ completed' \subseteq Routes
           /\ Cardinality(completed') \in Nat
           /\ Cardinality(completed') <= Cardinality(completed) + 1
           /\ Cardinality(pending) + Cardinality(completed') <= Capacity
<1> USE BatchAssumption
<1>1. Cardinality(pending) + Cardinality(completed) + 1 <= Capacity
  BY Sizes DEF BatchInv, RoomInv, InHand
<1>2. Cardinality(completed) <= Capacity
  BY <1>1, Sizes
<1>3. IsFiniteSet(completed)
  BY DEF BatchInv, RoomInv
<1>4. /\ IsFiniteSet(completed') /\ completed' \subseteq completed \cup {route}
      /\ Cardinality(completed') <= Cardinality(completed) + 1
  BY <1>2, <1>3, HeapPushBounded
<1>5. Cardinality(completed') \in Nat
  BY <1>4, FS_CardinalityType
<1> QED
  BY <1>1, <1>4, <1>5, Sizes DEF BatchInv, TypeOK

\* The pop that ends an iteration.
LEMMA NextPop ==
    ASSUME BatchInv, PopRoute
    PROVE  /\ IsFiniteSet(pending') /\ pending' \subseteq Routes
           /\ route' \in Routes \cup {NoRoute}
           /\ Cardinality(pending') \in Nat /\ InHand' \in Nat
           /\ Cardinality(pending') + InHand' <= Cardinality(pending)
<1>1. IsFiniteSet(pending) /\ pending \subseteq Routes
  BY DEF BatchInv, RoomInv, TypeOK
<1>2. /\ IsFiniteSet(pending') /\ pending' \subseteq pending
      /\ route' \in Routes \cup {NoRoute}
      /\ Cardinality(pending') + InHand' <= Cardinality(pending)
  BY <1>1, PopRouteBounded
<1> QED
  BY <1>1, <1>2, FS_CardinalityType DEF InHand

LEMMA FirstTryFitsStep == BatchInv /\ FirstTryFits => BatchInv'
<1> SUFFICES ASSUME BatchInv, FirstTryFits PROVE BatchInv'
  OBVIOUS
<1> USE BatchAssumption DEF FirstTryFits, Looping
<1>1. /\ IsFiniteSet(completed') /\ completed' \subseteq Routes
      /\ Cardinality(completed') \in Nat
      /\ Cardinality(pending) + Cardinality(completed') <= Capacity
  BY CompletedPush
<1>2. /\ IsFiniteSet(pending') /\ pending' \subseteq Routes
      /\ route' \in Routes \cup {NoRoute}
      /\ Cardinality(pending') \in Nat /\ InHand' \in Nat
      /\ Cardinality(pending') + InHand' <= Cardinality(pending)
  BY NextPop
<1>3. TypeOK'
  BY <1>1, <1>2 DEF BatchInv, TypeOK, Locations
<1>4. CountInv'
  BY DEF CountInv
<1>5. RoomInv'
  BY <1>1, <1>2, Sizes DEF BatchInv, RoomInv
<1> QED
  BY <1>3, <1>4, <1>5 DEF BatchInv

LEMMA FirstTryRefusedStep == BatchInv /\ FirstTryRefused => BatchInv'
<1> SUFFICES ASSUME BatchInv, FirstTryRefused PROVE BatchInv'
  OBVIOUS
<1> USE BatchAssumption DEF FirstTryRefused, Looping
<1>1. /\ IsFiniteSet(pending') /\ pending' \subseteq Routes
      /\ route' \in Routes \cup {NoRoute}
      /\ Cardinality(pending') \in Nat /\ InHand' \in Nat
      /\ Cardinality(pending') + InHand' <= Cardinality(pending)
  BY NextPop
<1>2. TypeOK'
  BY <1>1 DEF BatchInv, TypeOK, Locations
<1>3. CountInv'
  BY DEF CountInv
<1>4. RoomInv'
  BY <1>1, Sizes DEF BatchInv, RoomInv
<1> QED
  BY <1>2, <1>3, <1>4 DEF BatchInv

LEMMA FirstTryLacksBatteryStep == BatchInv /\ FirstTryLacksBattery => BatchInv'
<1> SUFFICES ASSUME BatchInv, FirstTryLacksBattery PROVE BatchInv'
  OBVIOUS
<1> USE BatchAssumption DEF FirstTryLacksBattery, Looping
<1>1. PICK next \in pending \cup {NoRoute} : Pop(next)
  OBVIOUS
<1>2. IsFiniteSet(pending) /\ pending \subseteq Routes
  BY DEF BatchInv, RoomInv, TypeOK
<1>3. /\ IsFiniteSet(pending') /\ pending' \subseteq pending
      /\ Cardinality(pending') <= Cardinality(pending)
  BY <1>1, <1>2, PopBounded
<1>4. Cardinality(pending') \in Nat
  BY <1>3, FS_CardinalityType
<1>p. plain' \in BOOLEAN
  OBVIOUS
<1>5. TypeOK'
  BY <1>2, <1>3, <1>p DEF BatchInv, TypeOK, Locations
<1>6. CountInv'
  BY DEF CountInv
<1>7. RoomInv'
  BY <1>3, <1>4, Sizes DEF BatchInv, RoomInv
<1> QED
  BY <1>5, <1>6, <1>7 DEF BatchInv

LEMMA FirstTryDelayedStep == BatchInv /\ FirstTryDelayed => BatchInv'
<1> SUFFICES ASSUME BatchInv, FirstTryDelayed PROVE BatchInv'
  OBVIOUS
<1> USE BatchAssumption DEF FirstTryDelayed, Looping, queues, fates
<1>p. plain' \in BOOLEAN
  OBVIOUS
<1>1. TypeOK'
  BY <1>p DEF BatchInv, TypeOK, Locations
<1>2. CountInv'
  BY DEF BatchInv, TypeOK, CountInv
<1>3. RoomInv'
  BY DEF BatchInv, RoomInv, InHand
<1> QED
  BY <1>1, <1>2, <1>3 DEF BatchInv

LEMMA RetryFitsStep == BatchInv /\ RetryFits => BatchInv'
<1> SUFFICES ASSUME BatchInv, RetryFits PROVE BatchInv'
  OBVIOUS
<1> USE BatchAssumption DEF RetryFits
<1>r. route # NoRoute
  BY DEF BatchInv, CountInv
<1>1. /\ IsFiniteSet(completed') /\ completed' \subseteq Routes
      /\ Cardinality(completed') \in Nat
      /\ Cardinality(pending) + Cardinality(completed') <= Capacity
  BY <1>r, CompletedPush
<1>2. TypeOK'
  BY <1>1, <1>r DEF BatchInv, TypeOK, Locations
<1>3. CountInv'
  BY DEF BatchInv, CountInv
<1>4. RoomInv'
  BY <1>1 DEF BatchInv, RoomInv
<1> QED
  BY <1>2, <1>3, <1>4 DEF BatchInv

LEMMA RetryRefusedStep == BatchInv /\ RetryRefused => BatchInv'
<1> SUFFICES ASSUME BatchInv, RetryRefused PROVE BatchInv'
  OBVIOUS
<1> USE BatchAssumption DEF RetryRefused
<1>r. route # NoRoute
  BY DEF BatchInv, CountInv
<1>1. /\ IsFiniteSet(pending') /\ pending' \subseteq Routes
      /\ route' \in Routes \cup {NoRoute}
      /\ Cardinality(pending') \in Nat /\ InHand' \in Nat
      /\ Cardinality(pending') + InHand' <= Cardinality(pending)
  BY NextPop
<1>2. TypeOK'
  BY <1>1, <1>r DEF BatchInv, TypeOK, Locations
<1>3. CountInv'
  BY DEF BatchInv, CountInv
<1>4. RoomInv'
  BY <1>1, Sizes DEF BatchInv, RoomInv
<1> QED
  BY <1>2, <1>3, <1>4 DEF BatchInv

LEMMA RetryDelayedStep == BatchInv /\ RetryDelayed => BatchInv'
<1> SUFFICES ASSUME BatchInv, RetryDelayed PROVE BatchInv'
  OBVIOUS
<1> USE BatchAssumption DEF RetryDelayed, queues, fates
<1>c. retry < MaxRetries /\ route # NoRoute /\ tries \in 1..MaxTries
  BY DEF BatchInv, CountInv
<1>1. TypeOK'
  BY <1>c DEF BatchInv, TypeOK, Locations
<1>2. CountInv'
  BY <1>c DEF BatchInv, TypeOK, CountInv
<1>3. RoomInv'
  BY Sizes DEF BatchInv, RoomInv, InHand
<1> QED
  BY <1>1, <1>2, <1>3 DEF BatchInv

LEMMA RetriedStep ==
    BatchInv /\ (RetriesOver \/ NullRoute \/ NextRoute) => BatchInv'
<1> SUFFICES ASSUME BatchInv, RetriesOver \/ NullRoute \/ NextRoute PROVE BatchInv'
  OBVIOUS
<1> USE BatchAssumption
<1>1. ASSUME NullRoute PROVE BatchInv'
  BY <1>1 DEF NullRoute, queues, counters, fates, BatchInv, TypeOK, CountInv,
              RoomInv, Locations
<1>2. ASSUME RetriesOver \/ NextRoute PROVE BatchInv'
  <2>1. /\ IsFiniteSet(pending') /\ pending' \subseteq Routes
        /\ route' \in Routes \cup {NoRoute}
        /\ Cardinality(pending') \in Nat /\ InHand' \in Nat
        /\ Cardinality(pending') + InHand' <= Cardinality(pending)
    BY <1>2, NextPop DEF RetriesOver, NextRoute
  <2>2. pc = "retried" /\ pc' = "loop" /\ completed' = completed
    BY <1>2 DEF RetriesOver, NextRoute
  <2>3. tries \in 1..MaxTries
    BY <2>2 DEF BatchInv, CountInv
  <2>4. TypeOK'
    BY <1>2, <2>1, <2>3 DEF RetriesOver, NextRoute, counters, fates, BatchInv,
                            TypeOK, Locations
  <2>5. CountInv'
    BY <2>2 DEF CountInv
  <2>6. RoomInv'
    BY <2>1, <2>2, Sizes DEF BatchInv, RoomInv
  <2> QED
    BY <2>4, <2>5, <2>6 DEF BatchInv
<1> QED
  BY <1>1, <1>2

LEMMA DispatchStep ==
    /\ BatchInv
    /\ EndLoop \/ Convert \/ ConvertFreed \/ EndBatch \/ \E r \in completed : Send(r)
    => BatchInv'
<1> SUFFICES ASSUME BatchInv,
                    \/ EndLoop \/ Convert \/ ConvertFreed \/ EndBatch
                    \/ \E r \in completed : Send(r)
             PROVE  BatchInv'
  OBVIOUS
<1> USE BatchAssumption
<1>1. ASSUME EndLoop \/ Convert \/ ConvertFreed \/ EndBatch PROVE BatchInv'
  BY <1>1 DEF EndLoop, Convert, ConvertFreed, EndBatch, queues, counters, fates, BatchInv, TypeOK,
              CountInv, RoomInv, Locations
<1>2. ASSUME NEW r \in completed, Send(r) PROVE BatchInv'
  <2>1. IsFiniteSet(completed')
    BY <1>2, FS_RemoveElement DEF Send, BatchInv, RoomInv
  <2>2. TypeOK'
    BY <1>2 DEF Send, counters, BatchInv, TypeOK
  <2>3. CountInv'
    BY <1>2 DEF Send, counters, BatchInv, CountInv
  <2>4. RoomInv'
    BY <1>2, <2>1 DEF Send, BatchInv, RoomInv
  <2> QED
    BY <2>2, <2>3, <2>4 DEF BatchInv
<1> QED
  BY <1>1, <1>2

LEMMA BatchInvStep == BatchInv /\ [Next]_vars => BatchInv'
<1> SUFFICES ASSUME BatchInv, [Next]_vars PROVE BatchInv'
  OBVIOUS
<1>1. ASSUME NothingPending \/ Crashed \/ UNCHANGED vars PROVE BatchInv'
  BY <1>1 DEF NothingPending, Crashed, vars, BatchInv, TypeOK, CountInv, RoomInv,
              InHand
<1>2. ASSUME NEW rover \in Rovers, NEW time \in Times, Arrive(rover, time)
      PROVE  BatchInv'
  BY <1>2, ArriveStep
<1>3. ASSUME FirstTry PROVE BatchInv'
  BY <1>3, FirstTryFitsStep, FirstTryLacksBatteryStep, FirstTryRefusedStep,
     FirstTryDelayedStep DEF FirstTry
<1>4. ASSUME Retry PROVE BatchInv'
  BY <1>4, RetryFitsStep, RetryRefusedStep, RetryDelayedStep DEF Retry
<1>5. ASSUME Batch PROVE BatchInv'
  BY <1>3, <1>4, <1>5, StartBatchStep, RetriedStep, DispatchStep DEF Batch
<1> QED
  BY <1>1, <1>2, <1>5 DEF Next

\* The inductive invariant holds at every step of a batch (deconf_main.c).
THEOREM BatchInvariant == Spec => []BatchInv
<1>1. Init => BatchInv
  BY BatchInvInit
<1>2. BatchInv /\ [Next]_vars => BatchInv'
  BY BatchInvStep
<1> QED
  BY <1>1, <1>2, PTL DEF Spec

\* Type correctness of the batch; in particular try_count passes MAX_DECONF_TRIES
\* by one at most.
THEOREM BatchTypeCorrect == Spec => []TypeOK
<1>1. BatchInv => TypeOK
  BY DEF BatchInv
<1> QED
  BY <1>1, BatchInvariant, PTL

\* For every number of rovers, the completed heap of create_and_send_rover_schedules
\* has room for each route that deconf_standard puts on the grid.
THEOREM CompletedAlwaysHasRoom == Spec => []CompletedHasRoom
<1>1. BatchInv => CompletedHasRoom
  BY Sizes, BatchAssumption DEF BatchInv, RoomInv, CompletedHasRoom
<1> QED
  BY <1>1, BatchInvariant, PTL

-----------------------------------------------------------------------------
(* The bound on the work *)

\* The calls of deconf_standard that n iterations may make.
Budget(n) == n * (MaxRetries + 1)

\* Every completed iteration spent one try and at most one first call and
\* MaxRetries further ones.
WorkInv ==
    /\ WorkBounded
    /\ pc \in {"loop", "retried"} => calls <= Budget(tries)
    /\ pc = "retry" => calls <= Budget(tries - 1) + 1 + retry

LEMMA BudgetStep ==
    ASSUME NEW n \in Nat
    PROVE  Budget(n) \in Nat /\ Budget(n + 1) = Budget(n) + MaxRetries + 1
BY BatchAssumption DEF Budget

LEMMA BudgetGrows ==
    ASSUME NEW m \in Nat, NEW n \in Nat, m <= n
    PROVE  Budget(m) <= Budget(n)
<1>1. PICK k \in Nat : n = m + k
  <2>1. n - m \in Nat /\ n = m + (n - m)
    OBVIOUS
  <2> QED
    BY <2>1
<1>2. Budget(n) = Budget(m) + k * (MaxRetries + 1)
  BY <1>1, BatchAssumption DEF Budget
<1>3. k * (MaxRetries + 1) \in Nat /\ Budget(m) \in Nat
  BY BatchAssumption DEF Budget
<1> QED
  BY <1>2, <1>3

LEMMA WorkInit == Init => WorkInv
<1> SUFFICES ASSUME Init PROVE WorkInv
  OBVIOUS
<1>1. Budget(MaxTries) \in Nat
  BY BudgetStep, BatchAssumption
<1> QED
  BY <1>1 DEF Init, WorkInv, WorkBounded, Budget

LEMMA WorkStep == BatchInv /\ WorkInv /\ [Next]_vars => WorkInv'
<1> SUFFICES ASSUME BatchInv, WorkInv, [Next]_vars PROVE WorkInv'
  OBVIOUS
<1>t. /\ tries \in Nat /\ calls \in Nat /\ retry \in Nat
      /\ MaxTries \in Nat /\ MaxRetries \in Nat \ {0}
      /\ Budget(tries) \in Nat /\ Budget(MaxTries) \in Nat
  BY BudgetStep, BatchAssumption DEF BatchInv, TypeOK
<1>w. calls <= Budget(MaxTries)
  BY DEF WorkInv, WorkBounded, Budget
<1>suff. ASSUME calls' <= Budget(MaxTries),
                pc' \in {"loop", "retried"} => calls' <= Budget(tries'),
                pc' = "retry" => calls' <= Budget(tries' - 1) + 1 + retry'
         PROVE  WorkInv'
  BY <1>suff DEF WorkInv, WorkBounded, Budget
\* An iteration that begins is within the budget of one more.
<1>first. ASSUME Looping
          PROVE  /\ Budget(tries + 1) = Budget(tries) + MaxRetries + 1
                 /\ Budget(tries + 1) <= Budget(MaxTries)
                 /\ calls + 1 <= Budget(tries) + 1
                 /\ Budget(tries + 1) <= Budget(tries + 2)
  <2>1. tries + 1 \in Nat /\ tries + 2 \in Nat /\ tries + 1 <= MaxTries
    BY <1>first, <1>t DEF Looping
  <2>2. calls <= Budget(tries)
    BY <1>first DEF Looping, WorkInv
  <2> QED
    BY <2>1, <2>2, <1>t, BudgetStep, BudgetGrows
<1>1. ASSUME FirstTryFits PROVE WorkInv'
  <2>1. calls' = calls + 1 /\ tries' = tries + 2 /\ pc' = "loop" /\ Looping
    BY <1>1 DEF FirstTryFits, Looping
  <2>2. calls' <= Budget(MaxTries) /\ calls' <= Budget(tries + 2)
    <3>1. Budget(tries + 2) \in Nat /\ Budget(tries + 1) \in Nat
      BY BudgetStep, <1>t
    <3> QED
      BY <2>1, <3>1, <1>first, <1>t
  <2> QED
    BY <2>1, <2>2, <1>suff
<1>2. ASSUME FirstTryLacksBattery \/ FirstTryRefused \/ FirstTryDelayed
      PROVE  WorkInv'
  <2>1. calls' = calls + 1 /\ tries' = tries + 1 /\ Looping
    BY <1>2 DEF FirstTryLacksBattery, FirstTryRefused, FirstTryDelayed
  <2>2. (pc' \in {"convert", "loop"}) \/ (pc' = "retry" /\ retry' = 0)
    BY <1>2, <2>1 DEF FirstTryLacksBattery, FirstTryRefused, FirstTryDelayed,
                      Looping
  <2>3. calls' <= Budget(MaxTries) /\ calls' <= Budget(tries + 1)
        /\ calls' <= Budget(tries) + 1
    BY <2>1, <1>first, <1>t
  <2>4. Budget(tries' - 1) = Budget(tries)
    BY <2>1, <1>t
  <2> QED
    BY <2>1, <2>2, <2>3, <2>4, <1>suff, <1>t
<1>3. ASSUME Retry PROVE WorkInv'
  <2>1. /\ pc = "retry" /\ calls' = calls + 1 /\ tries' = tries
        /\ (pc' = "retried") \/ (pc' = "retry" /\ retry' = retry + 1)
    BY <1>3 DEF Retry, RetryFits, RetryRefused, RetryDelayed
  <2>2. tries \in 1..MaxTries /\ retry < MaxRetries
    BY <2>1 DEF BatchInv, CountInv
  <2>3. calls <= Budget(tries - 1) + 1 + retry
    BY <2>1 DEF WorkInv
  <2>4. tries - 1 \in Nat /\ (tries - 1) + 1 = tries
    BY <2>2
  <2>5. Budget(tries) = Budget(tries - 1) + MaxRetries + 1
        /\ Budget(tries - 1) \in Nat
    BY <2>4, BudgetStep
  <2>6. Budget(tries) <= Budget(MaxTries)
    BY <2>2, <1>t, BudgetGrows
  <2>7. calls' <= Budget(tries) /\ calls' <= Budget(tries - 1) + 1 + (retry + 1)
    BY <2>1, <2>2, <2>3, <2>5, <1>t
  <2> QED
    BY <2>1, <2>6, <2>7, <1>suff, <1>t
<1>4. ASSUME RetriesOver \/ NextRoute PROVE WorkInv'
  <2>1. /\ pc = "retried" /\ pc' = "loop" /\ calls' = calls
        /\ tries' = tries \/ tries' = tries + 1
    BY <1>4 DEF RetriesOver, NextRoute, counters
  <2>2. calls <= Budget(tries)
    BY <2>1 DEF WorkInv
  <2>3. Budget(tries) <= Budget(tries + 1) /\ Budget(tries + 1) \in Nat
    BY <1>t, BudgetStep, BudgetGrows
  <2> QED
    BY <2>1, <2>2, <2>3, <1>suff, <1>t, <1>w
<1>5. ASSUME StartBatch PROVE WorkInv'
  <2>1. calls' = 0 /\ tries' = 0 /\ pc' = "loop"
    BY <1>5 DEF StartBatch
  <2>2. Budget(0) \in Nat
    BY BudgetStep
  <2> QED
    BY <2>1, <2>2, <1>suff, <1>t
<1>6. ASSUME \/ EndLoop \/ NullRoute \/ EndBatch \/ \E r \in completed : Send(r)
             \/ Convert \/ ConvertFreed
             \/ \E rover \in Rovers, time \in Times : Arrive(rover, time)
      PROVE  WorkInv'
  <2>1. calls' = calls /\ pc' \in {"convert", "send", "crashed", "idle"}
    BY <1>6 DEF EndLoop, Convert, ConvertFreed, queues, NullRoute, EndBatch, Send, Arrive, counters
  <2> QED
    BY <2>1, <1>w, <1>suff
<1>7. ASSUME NothingPending \/ Crashed \/ UNCHANGED vars PROVE WorkInv'
  BY <1>7 DEF NothingPending, Crashed, vars, WorkInv, WorkBounded
<1> QED
  BY <1>1, <1>2, <1>3, <1>4, <1>5, <1>6, <1>7 DEF Next, Batch, FirstTry

\* Whatever deconf_standard answers, a batch calls it at most
\* MAX_DECONF_TRIES * (MAX_DECONF_RETRIES + 1) times.
THEOREM WorkAlwaysBounded == Spec => []WorkBounded
<1>1. Init => WorkInv
  BY WorkInit
<1>2. BatchInv /\ WorkInv /\ [Next]_vars => WorkInv'
  BY WorkStep
<1>3. WorkInv => WorkBounded
  BY DEF WorkInv
<1> QED
  BY <1>1, <1>2, <1>3, BatchInvariant, PTL DEF Spec

-----------------------------------------------------------------------------
(* Small plain batches *)

\* As long as no route lacks battery or is delayed the loop turns once per route,
\* which costs two tries at most: what is left of the batch and the tries spent
\* together never cost more than two per route, and nothing is in between.
PlainInv ==
    /\ IsFiniteSet(batch)
    /\ plain =>
        /\ pc \in {"idle", "loop", "convert", "send", "crashed"}
        /\ pc = "loop" =>
            /\ batch \subseteq Answered \cup pending \cup {route}
            /\ route = NoRoute => pending = {}
            /\ tries + 2 * (Cardinality(pending) + InHand) <= 2 * Cardinality(batch)
    /\ SmallPlainBatchAnswered

\* The pop finds a route unless there is none, and takes nothing else.
LEMMA PopRouteTakes ==
    ASSUME PopRoute, pending \subseteq Routes
    PROVE  /\ pending \subseteq pending' \cup {route'}
           /\ route' = NoRoute => pending' = {}
<1>1. PICK next \in pending \cup {NoRoute} : Pop(next) /\ route' = next
  BY DEF PopRoute
<1>2. NoRoute \notin pending
  BY BatchAssumption
<1> QED
  BY <1>1, <1>2 DEF Pop

\* The routes a batch has answered are not forgotten before the next batch.
LEMMA AnswersStay ==
    ASSUME BatchInv, PlainInv, UNCHANGED <<batch, plain>>,
           pc' \in {"send", "idle", "crashed"}, pc \in {"convert", "send", "idle"},
           Answered \subseteq Answered'
    PROVE  PlainInv'
BY DEF PlainInv, SmallPlainBatchAnswered

LEMMA PlainStep == BatchInv /\ PlainInv /\ [Next]_vars => PlainInv'
<1> SUFFICES ASSUME BatchInv, PlainInv, [Next]_vars PROVE PlainInv'
  OBVIOUS
<1>t. /\ pending \subseteq Routes /\ IsFiniteSet(pending) /\ tries \in Nat
      /\ Cardinality(pending) \in Nat /\ InHand \in Nat
      /\ (route # NoRoute => InHand = 1) /\ MaxTries \in Nat
      /\ IsFiniteSet(batch) /\ Cardinality(batch) \in Nat /\ NoRoute \notin Routes
  BY Sizes, FS_CardinalityType, BatchAssumption DEF BatchInv, RoomInv, TypeOK, PlainInv
\* A turn of the loop: the route in hand is answered, and the next one popped.
<1>turn. ASSUME Looping, PopRoute, pc' = "loop", UNCHANGED <<batch, plain>>,
                Answered \cup {route} \subseteq Answered',
                tries' \in Nat, tries' <= tries + 2
         PROVE  PlainInv'
  <2> SUFFICES ASSUME plain
               PROVE  /\ batch \subseteq Answered' \cup pending' \cup {route'}
                      /\ route' = NoRoute => pending' = {}
                      /\ tries' + 2 * (Cardinality(pending') + InHand')
                            <= 2 * Cardinality(batch)
    BY <1>turn DEF PlainInv, SmallPlainBatchAnswered
  <2>1. /\ batch \subseteq Answered \cup pending \cup {route}
        /\ tries + 2 * (Cardinality(pending) + InHand) <= 2 * Cardinality(batch)
    BY <1>turn DEF Looping, PlainInv
  <2>2. /\ pending \subseteq pending' \cup {route'}
        /\ route' = NoRoute => pending' = {}
    BY <1>t, <1>turn, PopRouteTakes
  <2>3. /\ Cardinality(pending') \in Nat /\ InHand' \in Nat
        /\ Cardinality(pending') + InHand' <= Cardinality(pending)
    BY <1>turn, NextPop
  <2>4. InHand = 1
    BY <1>t, <1>turn DEF Looping
  <2>5. tries' + 2 * (Cardinality(pending') + InHand') <= 2 * Cardinality(batch)
    BY <1>t, <1>turn, <2>1, <2>3, <2>4
  <2> QED
    BY <1>turn, <2>1, <2>2, <2>5
<1>1. ASSUME FirstTryFits PROVE PlainInv'
  <2>1. Looping /\ PopRoute /\ pc' = "loop" /\ tries' = tries + 2
        /\ completed' \in HeapPush(completed, route)
        /\ UNCHANGED <<batch, plain, requeued, sent, unsent>>
    BY <1>1 DEF FirstTryFits, Looping
  <2>2. Cardinality(completed) < Capacity
    BY <1>t, <2>1, Sizes, BatchAssumption DEF Looping, BatchInv, RoomInv
  <2>3. completed' = completed \cup {route}
    BY <2>1, <2>2 DEF HeapPush
  <2>4. Answered \cup {route} \subseteq Answered'
    BY <2>1, <2>3 DEF Answered
  <2> QED
    BY <1>t, <1>turn, <2>1, <2>4
<1>2. ASSUME FirstTryRefused PROVE PlainInv'
  <2>1. Looping /\ PopRoute /\ pc' = "loop" /\ tries' = tries + 1
        /\ requeued' = requeued \cup {route}
        /\ UNCHANGED <<batch, plain, completed, sent, unsent>>
    BY <1>2 DEF FirstTryRefused, Looping
  <2>2. Answered \cup {route} \subseteq Answered'
    BY <2>1 DEF Answered
  <2> QED
    BY <1>t, <1>turn, <2>1, <2>2
<1>3. ASSUME FirstTryLacksBattery \/ FirstTryDelayed PROVE PlainInv'
  <2>1. plain' = FALSE /\ UNCHANGED batch
    BY <1>3 DEF FirstTryLacksBattery, FirstTryDelayed
  <2> QED
    BY <2>1 DEF PlainInv, SmallPlainBatchAnswered
\* Retries come after a delay only.
<1>4. ASSUME Retry \/ RetriesOver \/ NullRoute \/ NextRoute PROVE PlainInv'
  <2>1. pc \in {"retry", "retried"} /\ UNCHANGED <<batch, plain>>
    BY <1>4 DEF Retry, RetryFits, RetryRefused, RetryDelayed, RetriesOver, NullRoute,
                NextRoute
  <2> QED
    BY <2>1 DEF PlainInv, SmallPlainBatchAnswered
<1>5. ASSUME StartBatch PROVE PlainInv'
  <2>1. PopRoute /\ pc' = "loop" /\ tries' = 0 /\ batch' = pending
    BY <1>5 DEF StartBatch
  <2>2. /\ pending \subseteq pending' \cup {route'}
        /\ route' = NoRoute => pending' = {}
    BY <1>t, <2>1, PopRouteTakes
  <2>3. /\ Cardinality(pending') \in Nat /\ InHand' \in Nat
        /\ Cardinality(pending') + InHand' <= Cardinality(pending)
    BY <2>1, NextPop
  <2>4. tries' + 2 * (Cardinality(pending') + InHand') <= 2 * Cardinality(batch')
    BY <1>t, <2>1, <2>3
  <2> QED
    BY <1>t, <2>1, <2>2, <2>4 DEF PlainInv, SmallPlainBatchAnswered
\* A loop that ends over its tries with a route in hand had a larger batch.
<1>6. ASSUME EndLoop PROVE PlainInv'
  <2>1. /\ pc = "loop" /\ pc' = "convert"
        /\ route = NoRoute \/ tries >= MaxTries
        /\ UNCHANGED <<batch, plain, completed, requeued, sent, unsent>>
    BY <1>6 DEF EndLoop, fates
  <2> SUFFICES ASSUME plain, 2 * Cardinality(batch) <= MaxTries
               PROVE  batch \subseteq Answered'
    BY <2>1 DEF PlainInv, SmallPlainBatchAnswered
  <2>2. /\ batch \subseteq Answered \cup pending \cup {route}
        /\ route = NoRoute => pending = {}
        /\ tries + 2 * (Cardinality(pending) + InHand) <= 2 * Cardinality(batch)
    BY <2>1 DEF PlainInv
  <2>3. route = NoRoute
    BY <1>t, <2>1, <2>2
  <2>4. batch \subseteq Routes
    BY DEF BatchInv, TypeOK
  <2>5. Answered' = Answered
    BY <2>1 DEF Answered
  <2> QED
    BY <1>t, <2>2, <2>3, <2>4, <2>5
<1>7. ASSUME NEW r \in completed, Send(r) PROVE PlainInv'
  <2>1. /\ pc = "send" /\ pc' = "send" /\ UNCHANGED <<batch, plain, requeued>>
        /\ completed' = completed \ {r}
        /\ \/ sent' = sent \cup {r} /\ unsent' = unsent
           \/ unsent' = unsent \cup {r} /\ sent' = sent
    BY <1>7 DEF Send
  <2>2. Answered \subseteq Answered'
    BY <2>1 DEF Answered
  <2> QED
    BY <2>1, <2>2, AnswersStay
<1>8. ASSUME EndBatch \/ \E rover \in Rovers, time \in Times : Arrive(rover, time)
      PROVE  PlainInv'
  <2>1. /\ pc \in {"send", "idle"} /\ pc' = "idle"
        /\ UNCHANGED <<batch, plain, completed, requeued, sent, unsent>>
    BY <1>8 DEF EndBatch, Arrive, queues, counters, fates
  <2>2. Answered' = Answered
    BY <2>1 DEF Answered
  <2> QED
    BY <2>1, <2>2, AnswersStay
<1>10. ASSUME Convert \/ ConvertFreed PROVE PlainInv'
  <2>1. /\ pc = "convert" /\ pc' \in {"send", "crashed"}
        /\ UNCHANGED <<batch, plain, completed, requeued, sent, unsent>>
    BY <1>10 DEF Convert, ConvertFreed, queues, fates
  <2>2. Answered' = Answered
    BY <2>1 DEF Answered
  <2> QED
    BY <2>1, <2>2, AnswersStay
<1>9. ASSUME NothingPending \/ Crashed \/ UNCHANGED vars PROVE PlainInv'
  BY <1>9 DEF NothingPending, Crashed, vars, PlainInv, SmallPlainBatchAnswered,
              Answered, InHand
<1> QED
  BY <1>1, <1>2, <1>3, <1>4, <1>5, <1>6, <1>7, <1>8, <1>9, <1>10
     DEF Next, Batch, FirstTry

\* A batch of at most half MAX_DECONF_TRIES routes, none of which lacks battery or
\* is delayed, answers every one of them, for every number of rovers and tries.
THEOREM SmallPlainBatchAlwaysAnswered == Spec => []SmallPlainBatchAnswered
<1>1. Init => PlainInv
  BY FS_EmptySet DEF Init, PlainInv, SmallPlainBatchAnswered
<1>2. BatchInv /\ PlainInv /\ [Next]_vars => PlainInv'
  BY PlainStep
<1>3. PlainInv => SmallPlainBatchAnswered
  BY DEF PlainInv
<1> QED
  BY <1>1, <1>2, <1>3, BatchInvariant, PTL DEF Spec

-----------------------------------------------------------------------------
(* Deconfliction on the grid: its inductive invariant *)

Lengths == Nat \cup {Smeared}
SafeWaitCell == [prev : Int, slots : Nat, safe : BOOLEAN]

InCall == deconf \in {"call", "walk", "wait", "backtrack", "publish"}

\* A wait that a shift left: the next look is before the array.
LedAway ==
    /\ wait \in Int /\ Departure + wait < MaxSlots
    /\ Cell(Sector, Departure + wait) < 0

\* The departure lies in the grid, and no later than the battery allows.
CallInv ==
    InCall => /\ plan \in Plans /\ start \in Starts
              /\ delay \in Int /\ delay <= plan.allowance

\* A cell's way back leads to cells before it.
CellsInv ==
    InCall /\ deconf # "call" =>
        /\ InMemory(plan.sectors[0], Departure)
        /\ safeWait \in [WaitCells(plan) -> SafeWaitCell]
        /\ safeWait[0].slots = 0
        /\ \A c \in WaitCells(plan) : safeWait[c].prev \in -1 .. c - 1
        /\ position \in WaitCells(plan)

FirstRun == Interval(plan.sectors[0], Departure)

\* A wait that leads to a cell is none that a shift left, and the run the route
\* departs in is none either, once it was passed or waited for.
WaitInv ==
    /\ deconf \in {"wait", "backtrack"} =>
        position \in Positions(plan) /\ back \in -1 .. position - 1
    /\ deconf = "wait" => LedAway \/ (wait \in Nat /\ FirstRun \in Nat)
    /\ deconf = "backtrack" => wait \in Nat
    /\ deconf = "backtrack" \/ (deconf = "walk" /\ position > 0) => FirstRun \in Nat

\* What the array holds, and what is added up from it.
LengthsInv ==
    /\ intervals \in [Memory -> Lengths]
    /\ deconf = "publish" => prevSlots \in Int

GridInv ==
    /\ deconf \in {"idle", "call", "walk", "wait", "backtrack", "publish", "crashed"}
    /\ CallInv /\ CellsInv /\ WaitInv /\ LengthsInv
    /\ WalkedIsFree

-----------------------------------------------------------------------------
(* Routes, cells and lengths *)

\* What the assumption says of a route.
LEMMA PlanTypes ==
    ASSUME NEW p \in Plans
    PROVE  /\ p.count \in Nat /\ p.count > 0
           /\ 0 \in Positions(p) /\ 0 \in WaitCells(p)
           /\ \A i \in Positions(p) :
                /\ i \in Nat /\ i + 1 \in Nat
                /\ i \in WaitCells(p) /\ i + 1 \in WaitCells(p)
                /\ p.sectors[i] \in 0 .. Rows - 1
                /\ p.reservations[i] \in Nat
                /\ p.sharesTail[i] \in BOOLEAN
                /\ p.havens[i] \in BOOLEAN
           /\ ~p.sharesTail[0]
           /\ p.allowance \in Nat
  BY GridAssumption DEF Positions, WaitCells

LEMMA GridInvInit == ASSUME GridInit PROVE GridInv
<1>1. intervals \in [Memory -> Lengths]
  BY GridAssumption DEF GridInit, Lengths
<1> QED
  BY <1>1 DEF GridInit, GridInv, CallInv, CellsInv, WaitInv, LengthsInv, WalkedIsFree,
              InCall

\* The array is longer than its rows by more than a route may be put off.
LEMMA ArraySizes ==
           /\ Rows * MaxSlots \in Nat /\ ArrayRows * MaxSlots \in Nat
           /\ MaxSlots \in Nat /\ MaxSlots > 0
           /\ Smeared \in Int /\ Smeared + ArrayRows * MaxSlots + MaxSlots < 0
           /\ Rows * MaxSlots + MaxSlots <= ArrayRows * MaxSlots
           /\ Starts \subseteq 0 .. MaxSlots - 1
           /\ \A p \in Plans :
                p.allowance + Rows * MaxSlots + 2 * MaxSlots <= ArrayRows * MaxSlots
<1>1. Rows \in Nat /\ ArrayRows \in Nat /\ MaxSlots \in Nat /\ MaxSlots > 0
      /\ ArrayRows >= Rows + 1 /\ Smeared \in Int /\ Smeared < -ArrayRows * MaxSlots - MaxSlots
  BY GridAssumption
<1>2. /\ Rows * MaxSlots \in Nat /\ ArrayRows * MaxSlots \in Nat
      /\ (ArrayRows - Rows - 1) * MaxSlots >= 0
      /\ (ArrayRows - Rows - 1) * MaxSlots
            = ArrayRows * MaxSlots - Rows * MaxSlots - MaxSlots
      /\ (ArrayRows - Rows - 2) * MaxSlots
            = ArrayRows * MaxSlots - Rows * MaxSlots - 2 * MaxSlots
  BY <1>1, SMT
<1>3. /\ Starts \subseteq 0 .. MaxSlots - 1
      /\ \A p \in Plans : p.allowance \in 0 .. (ArrayRows - Rows - 2) * MaxSlots
  BY GridAssumption
<1> QED
  BY <1>1, <1>2, <1>3, SMT

\* Where a slot of a sector lies in the array.
LEMMA Cells ==
    ASSUME NEW sector \in 0 .. Rows - 1, NEW slot \in Int
    PROVE  \E row \in Nat :
             /\ row + MaxSlots <= Rows * MaxSlots
             /\ \A k \in Int : /\ Cell(sector, k) = row + k
                               /\ InMemory(sector, k)
                                    <=> 0 <= row + k /\ row + k < ArrayRows * MaxSlots
<1> DEFINE row == sector * MaxSlots
<1>1. row \in Nat /\ row + MaxSlots <= Rows * MaxSlots
  <2>1. Rows \in Nat /\ MaxSlots \in Nat /\ sector \in Nat /\ sector + 1 <= Rows
    BY GridAssumption
  <2>2. (Rows - sector - 1) * MaxSlots >= 0
        /\ (Rows - sector - 1) * MaxSlots = Rows * MaxSlots - sector * MaxSlots - MaxSlots
        /\ sector * MaxSlots \in Nat /\ Rows * MaxSlots \in Nat
    BY <2>1, SMT
  <2> QED
    BY <2>1, <2>2, SMT
<1>2. \A k \in Int : Cell(sector, k) = row + k
  BY DEF Cell
<1> HIDE DEF row
<1>3. \A k \in Int : InMemory(sector, k)
                         <=> 0 <= row + k /\ row + k < ArrayRows * MaxSlots
  BY <1>1, <1>2, ArraySizes DEF InMemory, Memory
<1> QED
  BY <1>1, <1>2, <1>3

\* A slot of the array holds a length.
LEMMA LengthsOf ==
    ASSUME LengthsInv, NEW sector, NEW slot, InMemory(sector, slot)
    PROVE  Interval(sector, slot) \in Lengths
  BY DEF LengthsInv, InMemory, Interval

-----------------------------------------------------------------------------
(* The steps of a deconfliction keep it *)

\* Idle or crashed, the call is over.
LEMMA ReturnStep ==
    ASSUME NEW there \in {"idle", "crashed"}, Return(there), LengthsInv,
           UNCHANGED intervals
    PROVE  GridInv'
<1>1. LengthsInv'
  BY DEF LengthsInv, Return, Memory
<1>2. CallInv' /\ CellsInv' /\ WaitInv'
  BY DEF CallInv, CellsInv, WaitInv, Return, InCall
<1>3. WalkedIsFree'
  BY DEF WalkedIsFree, Return
<1> QED
  BY <1>1, <1>2, <1>3 DEF GridInv, Return

\* One more try departs at a later slot, read from the array.
LEMMA FailStep ==
    ASSUME GridInv, Fail,
           \/ StartBusy
           \/ deconf = "backtrack"
    PROVE  GridInv'
<1>1. plan \in Plans /\ start \in Starts /\ delay \in Int /\ delay <= plan.allowance
  BY DEF GridInv, CallInv, InCall, StartBusy, Calling
<1>2. start \in Nat /\ start < MaxSlots /\ Departure \in Int
      /\ Departure = start + delay
  BY <1>1, ArraySizes, GridAssumption DEF Departure
<1>3. plan.sectors[0] \in 0 .. Rows - 1 /\ plan.allowance \in Nat
  BY <1>1, PlanTypes
<1> DEFINE first == plan.sectors[0]
           length == Interval(first, Departure)
           next == Interval(first, Departure + length)
           later == NextFreeInterval(first, Departure)
<1>4. InMemory(first, Departure)
  BY DEF GridInv, CellsInv, InCall, StartBusy, Calling
<1>5. length \in Int
  BY <1>4, LengthsOf, ArraySizes DEF GridInv, Lengths
<1>6. ASSUME ~Busy(first, Departure), 2 * length < MaxSlots
      PROVE  next \in Int
  <2>1. deconf = "backtrack"
    BY <1>6 DEF StartBusy
  <2>2. length \in Nat
    BY <2>1 DEF GridInv, WaitInv, FirstRun
  <2>3. InMemory(first, Departure + length)
    <3>1. PICK row \in Nat :
             /\ row + MaxSlots <= Rows * MaxSlots
             /\ \A k \in Int : /\ Cell(first, k) = row + k
                               /\ InMemory(first, k)
                                    <=> 0 <= row + k /\ row + k < ArrayRows * MaxSlots
      BY <1>2, <1>3, Cells
    <3>2. /\ 0 <= row + Departure
          /\ plan.allowance + Rows * MaxSlots + 2 * MaxSlots <= ArrayRows * MaxSlots
          /\ Rows * MaxSlots \in Nat /\ ArrayRows * MaxSlots \in Nat /\ MaxSlots \in Nat
      BY <1>1, <1>2, <1>4, <3>1, ArraySizes
    <3> HIDE DEF length, first
    <3>3. Departure + length \in Int
          /\ 0 <= row + (Departure + length)
          /\ row + (Departure + length) < ArrayRows * MaxSlots
      BY <1>1, <1>2, <1>3, <1>6, <2>2, <3>1, <3>2
    <3> QED
      BY <3>1, <3>3
  <2> QED
    BY <2>3, LengthsOf, ArraySizes DEF GridInv, Lengths
<1>7. later \in Int
  <2> HIDE DEF length, next, first
  <2>1. MaxSlots \in Nat
    BY ArraySizes
  <2>2. later = IF Busy(first, Departure)
                THEN IF length >= MaxSlots THEN -1 ELSE length
                ELSE IF 2 * length >= MaxSlots \/ length + next >= MaxSlots
                     THEN -1 ELSE length + next
    BY DEF NextFreeInterval, length, next, first
  <2> QED
    BY <1>5, <1>6, <2>1, <2>2
<1>8. CASE Return("idle")
  BY <1>8, ReturnStep DEF GridInv, Fail, grid
<1>9. CASE ~Return("idle")
  <2>1. /\ deconf' = "call" /\ delay' = delay + later /\ delay + later <= plan.allowance
        /\ UNCHANGED <<plan, start, grid>>
    BY <1>9, Zenon DEF Fail
  <2> HIDE DEF later
  <2>2. CallInv'
    BY <1>1, <1>7, <2>1 DEF CallInv
  <2>3. LengthsInv' /\ CellsInv' /\ WaitInv' /\ WalkedIsFree'
    BY <2>1 DEF GridInv, LengthsInv, CellsInv, WaitInv, WalkedIsFree, grid,
                Memory
  <2> QED
    BY <2>1, <2>2, <2>3 DEF GridInv
<1> QED
  BY <1>8, <1>9

\* A route begins with no wait.
LEMMA TakeStep ==
    ASSUME GridInv, NEW p \in Plans, NEW s \in Starts, Take(p, s)
    PROVE  GridInv'
<1>1. CallInv'
  BY PlanTypes DEF Take, CallInv
<1>2. LengthsInv' /\ CellsInv' /\ WaitInv' /\ WalkedIsFree'
  BY DEF GridInv, LengthsInv, CellsInv, WaitInv, WalkedIsFree, grid,
              Memory, Take
<1> QED
  BY <1>1, <1>2 DEF GridInv, Take

\* A walk begins with all cells cleared.
LEMMA StartFreeStep ==
    ASSUME GridInv, StartFree
    PROVE  GridInv'
<1> USE DEF StartFree, Calling, grid, call
<1>1. CallInv' /\ plan \in Plans
  BY DEF GridInv, CallInv, InCall
<1>2. LengthsInv' /\ WaitInv'
  BY DEF GridInv, LengthsInv, WaitInv, Memory
<1>3. safeWait' \in [WaitCells(plan) -> SafeWaitCell]
      /\ \A c \in WaitCells(plan) :
            safeWait'[c] = [prev |-> -1, slots |-> 0, safe |-> FALSE]
  BY DEF FirstCell, SafeWaitCell
<1>4. 0 \in WaitCells(plan) /\ \A c \in WaitCells(plan) : c \in Int /\ c >= 0
  BY <1>1, PlanTypes DEF WaitCells
<1>5. CellsInv'
  <2>1. InMemory(plan.sectors[0], Departure)'
    BY DEF InMemory, Memory, Cell, Departure
  <2>2. /\ safeWait' \in [WaitCells(plan) -> SafeWaitCell]
        /\ safeWait'[0].slots = 0
        /\ \A c \in WaitCells(plan) : safeWait'[c].prev \in -1 .. c - 1
        /\ position' \in WaitCells(plan)
    BY <1>3, <1>4
  <2> QED
    BY <2>1, <2>2 DEF CellsInv, WaitCells
<1>6. WalkedIsFree'
  BY DEF WalkedIsFree
<1> QED
  BY <1>1, <1>2, <1>5, <1>6 DEF GridInv

\* What the walk can count on at its position.
LEMMA AtPosition ==
    ASSUME GridInv, InCall, deconf # "call",
           position \in Positions(plan)
    PROVE  /\ plan \in Plans /\ position \in Nat /\ position < plan.count
           /\ Departure \in Int
           /\ Sector \in 0 .. Rows - 1 /\ Needed \in Nat
           /\ position \in WaitCells(plan) /\ position + 1 \in WaitCells(plan)
           /\ safeWait[position].slots \in Nat
           /\ safeWait[position].prev \in -1 .. position - 1
           /\ Entry(position) \in Nat
           /\ position = 0 => Entry(position) = 0
<1>1. plan \in Plans /\ start \in Starts /\ delay \in Int
  BY DEF GridInv, CallInv
<1>2. position \in Nat /\ position < plan.count /\ plan.count \in Nat
  BY <1>1, PlanTypes DEF Positions
<1>3. Departure \in Int
  BY <1>1, GridAssumption DEF Departure
<1>4. /\ Sector \in 0 .. Rows - 1 /\ Needed \in Nat
      /\ position \in WaitCells(plan) /\ position + 1 \in WaitCells(plan)
  BY <1>1, PlanTypes DEF Sector, Needed
<1>5. safeWait[position].slots \in Nat /\ safeWait[position].prev \in -1 .. position - 1
      /\ safeWait[0].slots = 0
  BY <1>4 DEF GridInv, CellsInv, SafeWaitCell
<1>6. Entry(position) \in Nat /\ (position = 0 => Entry(position) = 0)
  BY <1>5 DEF Entry
<1> QED
  BY <1>1, <1>2, <1>3, <1>4, <1>5, <1>6

\* A sector that fits is free, and the next is not looked at before it is left.
LEMMA PassStep ==
    ASSUME GridInv, Pass
    PROVE  GridInv'
<1> USE DEF Pass, Walking, grid, call
<1>0. position \in Positions(plan) /\ InCall /\ deconf = "walk" /\ plan \in Plans
      /\ plan.count \in Nat
  BY PlanTypes DEF GridInv, CellsInv, CallInv, InCall, WaitCells, Positions
<1>1. CallInv' /\ LengthsInv'
  BY DEF GridInv, CallInv, InCall, LengthsInv, Memory
<1> DEFINE entry == Entry(position)
<1>2. PICK safe \in HavenRead :
        safeWait' = [safeWait EXCEPT ![position + 1] =
            [prev |-> IF safeWait[position].safe THEN position ELSE safeWait[position].prev,
             slots |-> entry + Needed,
             safe |-> safe]]
  BY Zenon
<1>3. safe \in BOOLEAN
  <2>1. Sector \in Nat /\ (Sector < plan.count - 1 => Sector \in Positions(plan))
    <3>1. Rows \in Nat
      BY GridAssumption
    <3>2. Sector \in 0 .. Rows - 1 /\ plan.count \in Int
      BY <1>0, AtPosition
    <3> QED
      BY <3>1, <3>2 DEF Positions
  <2>2. \A i \in Positions(plan) : plan.havens[i] \in BOOLEAN
    BY <1>0, PlanTypes
  <2>3. HavenRead = IF Sector < plan.count - 1 THEN {plan.havens[Sector]} ELSE BOOLEAN
    BY DEF HavenRead
  <2> QED
    BY <2>1, <2>2, <2>3
<1>4. /\ safeWait \in [WaitCells(plan) -> SafeWaitCell]
      /\ safeWait[0].slots = 0
      /\ \A c \in WaitCells(plan) : safeWait[c].prev \in -1 .. c - 1
  BY <1>0 DEF GridInv, CellsInv
<1> HIDE DEF entry
<1>5. entry \in Nat
  BY <1>0, AtPosition DEF entry
<1> DEFINE cell == [prev |-> IF safeWait[position].safe
                             THEN position ELSE safeWait[position].prev,
                    slots |-> entry + Needed,
                    safe |-> safe]
<1>6. cell \in SafeWaitCell /\ cell.prev \in -1 .. position /\ cell.slots = entry + Needed
  BY <1>0, <1>3, <1>5, AtPosition DEF SafeWaitCell
<1>7. safeWait' = [safeWait EXCEPT ![position + 1] = cell]
  BY <1>2
<1> HIDE DEF cell
<1>8. /\ safeWait' \in [WaitCells(plan) -> SafeWaitCell]
      /\ safeWait'[position + 1] = cell
      /\ \A c \in WaitCells(plan) : c # position + 1 => safeWait'[c] = safeWait[c]
  BY <1>0, <1>4, <1>6, <1>7, AtPosition
<1>9. CellsInv'
  <2>1. safeWait'[0].slots = 0
    BY <1>0, <1>4, <1>8, PlanTypes, AtPosition
  <2>2. \A c \in WaitCells(plan) : safeWait'[c].prev \in -1 .. c - 1
    BY <1>0, <1>4, <1>6, <1>8, AtPosition
  <2>3. position' \in WaitCells(plan)
    BY <1>0, AtPosition
  <2>4. InMemory(plan.sectors[0], Departure)'
    BY <1>0 DEF GridInv, CellsInv, InMemory, Memory, Cell, Departure
  <2> QED
    BY <1>8, <2>1, <2>2, <2>3, <2>4 DEF CellsInv, WaitCells
<1>10. WaitInv'
  <2>1. FirstRun \in Nat
    <3>1. CASE position = 0
      <4>1. Here = Departure
        BY <3>1, <1>0, AtPosition DEF Here
      <4>2. Interval(Sector, Here) >= Needed
        BY DEF Fits
      <4>3. Sector = plan.sectors[0]
        BY <3>1 DEF Sector
      <4>4. FirstRun \in Lengths /\ FirstRun >= Needed
        BY <4>1, <4>2, <4>3, LengthsOf DEF GridInv, FirstRun
      <4> QED
        BY <1>0, <4>4, AtPosition, ArraySizes DEF Lengths
    <3>2. CASE position # 0
      BY <1>0, <3>2, AtPosition DEF GridInv, WaitInv
    <3> QED
      BY <3>1, <3>2
  <2>2. FirstRun' = FirstRun
    BY DEF FirstRun, Interval, Cell, Departure
  <2> QED
    BY <1>0, <2>1, <2>2 DEF WaitInv
<1>11. WalkedIsFree'
  <2> SUFFICES ASSUME NEW p \in 0 .. position
               PROVE  /\ ~Busy(plan.sectors[p], Departure + Entry(p)')
                      /\ safeWait'[p + 1].slots >= Entry(p)' + plan.reservations[p]
    <3>1. 0 .. position' - 1 = 0 .. position
      BY <1>0, AtPosition
    <3>2. \A p : Busy(plan.sectors[p], Departure + Entry(p))'
               <=> Busy(plan.sectors[p], Departure + Entry(p)')
      BY DEF Busy, Cell, Departure
    <3> QED
      BY <3>1, <3>2 DEF WalkedIsFree
  <2>1. p \in WaitCells(plan) /\ p # position + 1 /\ p \in Nat
    BY <1>0, AtPosition DEF WaitCells
  <2>2. Entry(p)' = Entry(p)
    BY <2>1, <1>8 DEF Entry
  <2>3. CASE p = position
    <3>1. ~Busy(Sector, Here)
      BY DEF Fits
    <3>2. Needed = plan.reservations[p] /\ Entry(p) = entry /\ Needed \in Nat
      BY <2>3, <1>0, AtPosition DEF Needed, entry
    <3> QED
      BY <1>5, <1>6, <1>8, <2>2, <2>3, <3>1, <3>2, <1>0, AtPosition DEF Here, Sector
  <2>4. CASE p # position
    <3>1. p \in 0 .. position - 1 /\ p + 1 # position + 1 /\ p + 1 \in WaitCells(plan)
      BY <2>4, <2>1, <1>0, AtPosition DEF WaitCells
    <3>2. safeWait'[p + 1] = safeWait[p + 1]
      BY <3>1, <1>8
    <3> QED
      BY <3>1, <3>2, <2>2, <1>0 DEF GridInv, WalkedIsFree
  <2> QED
    BY <2>3, <2>4
<1> QED
  BY <1>1, <1>9, <1>10, <1>11 DEF GridInv

\* What the search for a wait leaves as it is.
LEMMA SameWalk ==
    ASSUME GridInv, deconf \in {"walk", "wait", "backtrack"},
           deconf' \in {"wait", "backtrack"},
           UNCHANGED <<grid, call, safeWait, position>>
    PROVE  /\ CallInv' /\ LengthsInv' /\ CellsInv' /\ WalkedIsFree'
           /\ FirstRun' = FirstRun
<1> USE DEF grid, call
<1>1. CallInv' /\ LengthsInv'
  BY DEF GridInv, CallInv, InCall, LengthsInv, Memory
<1>2. CellsInv' /\ FirstRun' = FirstRun
  BY DEF GridInv, CellsInv, InCall, FirstRun, Interval, InMemory, Memory,
         Cell, Departure, WaitCells
<1>3. WalkedIsFree'
  BY DEF GridInv, WalkedIsFree, Busy, Cell, Departure, Entry
<1> QED
  BY <1>1, <1>2, <1>3

\* A slot that comes of a length a shift left lies before the array.
LEMMA SmearedIsAway ==
    ASSUME NEW sector \in 0 .. Rows - 1, NEW slot \in Int,
           InMemory(sector, slot) \/ slot < MaxSlots
    PROVE  /\ slot + Smeared < MaxSlots
           /\ Cell(sector, slot + Smeared) < 0
<1>1. PICK row \in Nat :
        /\ row + MaxSlots <= Rows * MaxSlots
        /\ \A k \in Int : /\ Cell(sector, k) = row + k
                          /\ InMemory(sector, k)
                               <=> 0 <= row + k /\ row + k < ArrayRows * MaxSlots
  BY Cells
<1>2. /\ Rows * MaxSlots \in Nat /\ ArrayRows * MaxSlots \in Nat
      /\ MaxSlots \in Nat /\ MaxSlots > 0
      /\ Smeared \in Int /\ Smeared + ArrayRows * MaxSlots + MaxSlots < 0
      /\ Rows * MaxSlots + MaxSlots <= ArrayRows * MaxSlots
  BY ArraySizes
<1>3. slot + Smeared \in Int
  BY <1>2
<1>4. Cell(sector, slot + Smeared) = row + (slot + Smeared)
  BY <1>1, <1>3
<1>5. row + slot < ArrayRows * MaxSlots
  BY <1>1, <1>2
<1> QED
  BY <1>2, <1>4, <1>5

\* Where the walk is blocked, the search for a wait begins.
LEMMA BlockStep ==
    ASSUME GridInv, Block
    PROVE  GridInv'
<1> USE DEF Block, Walking
<1>0. position \in Positions(plan) /\ InCall /\ deconf = "walk" /\ plan \in Plans
  BY PlanTypes DEF GridInv, CellsInv, CallInv, InCall, WaitCells, Positions
<1>1. CallInv' /\ LengthsInv' /\ CellsInv' /\ WalkedIsFree' /\ FirstRun' = FirstRun
  BY SameWalk
<1> DEFINE entry == Entry(position)
           length == Interval(Sector, Here)
<1>2. entry \in Nat /\ Here \in Int /\ Here = Departure + entry
      /\ Departure \in Int
  BY <1>0, AtPosition DEF Here
<1>3. length \in Lengths
  BY LengthsOf DEF GridInv
<1>4. wait' = entry + length
  BY DEF Block
<1>5. Departure' = Departure /\ Sector' = Sector
      /\ UNCHANGED <<position, plan, safeWait>>
  BY DEF Departure, Sector, call
<1> HIDE DEF entry, length
<1>6. CASE length = Smeared
  <2>1. /\ Here + Smeared < MaxSlots
        /\ Cell(Sector, Here + Smeared) < 0
    BY <1>0, <1>2, AtPosition, SmearedIsAway
  <2>2. wait' \in Int /\ Departure + wait' = Here + Smeared
    BY <1>2, <1>4, <1>6, ArraySizes
  <2>3. LedAway'
    BY <1>5, <2>1, <2>2 DEF LedAway, Cell
  <2> QED
    BY <2>3, <1>0, <1>1, <1>5, AtPosition DEF GridInv, WaitInv, Positions
<1>7. CASE length \in Nat
  <2>1. wait' \in Nat
    BY <1>2, <1>4, <1>7
  <2>2. FirstRun \in Nat
    <3>1. CASE position = 0
      BY <3>1, <1>0, <1>2, <1>7, AtPosition DEF FirstRun, length, entry, Sector
    <3>2. CASE position # 0
      BY <1>0, <3>2, AtPosition DEF GridInv, WaitInv
    <3> QED
      BY <3>1, <3>2
  <2> QED
    BY <2>1, <2>2, <1>0, <1>1, <1>5, AtPosition DEF GridInv, WaitInv, Positions
<1> QED
  BY <1>3, <1>6, <1>7 DEF Lengths

\* A turn of the search, and its end.
LEMMA LookStep ==
    ASSUME GridInv, Look
    PROVE  GridInv'
<1>0. /\ position \in Positions(plan) /\ InCall /\ deconf = "wait" /\ plan \in Plans
      /\ back \in -1 .. position - 1
      /\ LedAway \/ (wait \in Nat /\ FirstRun \in Nat)
  BY DEF GridInv, WaitInv, CallInv, InCall, Look, LookOn, LookedThrough,
         Waiting
<1>1. /\ UNCHANGED <<grid, call, safeWait, position, back>>
      /\ deconf' \in {"wait", "backtrack"}
  BY <1>0 DEF Look, LookOn, LookedThrough, search
<1>2. CallInv' /\ LengthsInv' /\ CellsInv' /\ WalkedIsFree' /\ FirstRun' = FirstRun
  BY <1>0, <1>1, SameWalk
<1>3. Departure' = Departure /\ Sector' = Sector /\ plan' = plan
      /\ position' = position /\ back' = back
  BY <1>1 DEF Departure, Sector, call
<1>4. CASE LookedThrough
  <2>1. wait' = wait /\ deconf' = "backtrack" /\ Departure + wait >= MaxSlots
    BY <1>4 DEF LookedThrough, search
  <2>2. ~LedAway
    BY <2>1, <1>0, AtPosition, ArraySizes DEF LedAway
  <2> QED
    BY <1>0, <1>2, <1>3, <2>1, <2>2 DEF GridInv, WaitInv, Positions
<1>5. CASE LookOn
  <2> DEFINE length == Interval(Sector, Departure + wait)
  <2>1. /\ InMemory(Sector, Departure + wait)
        /\ Departure + wait < MaxSlots
        /\ wait' = length
        /\ deconf' = "wait" \/ length - wait >= Needed
    BY <1>5 DEF LookOn, Waiting
  <2>2. wait \in Nat /\ FirstRun \in Nat
    BY <1>0, <2>1, ArraySizes DEF LedAway, InMemory, Memory
  <2>3. length \in Lengths
    BY <2>1, LengthsOf DEF GridInv
  <2> HIDE DEF length
  <2>4. CASE length \in Nat
    BY <1>0, <1>1, <1>2, <1>3, <2>1, <2>2, <2>4 DEF GridInv, WaitInv, Positions
  <2>5. CASE length = Smeared
    <3>1. Departure \in Int /\ Departure < MaxSlots
      BY <1>0, <2>1, <2>2, AtPosition, ArraySizes
    <3>2. /\ Departure + Smeared < MaxSlots
          /\ Cell(Sector, Departure + Smeared) < 0
      BY <1>0, <3>1, AtPosition, SmearedIsAway
    <3>3. Smeared \in Int /\ Smeared < 0
      BY ArraySizes
    <3>4. LedAway'
      BY <1>3, <2>1, <2>5, <3>2, <3>3 DEF LedAway, Cell
    <3>5. deconf' = "wait"
      BY <1>0, <2>1, <2>2, <2>5, <3>3, AtPosition
    <3> QED
      BY <1>0, <1>2, <1>3, <3>4, <3>5 DEF GridInv, WaitInv, Positions
  <2> QED
    BY <2>3, <2>4, <2>5 DEF Lengths
<1> QED
  BY <1>4, <1>5 DEF Look

\* A wait is put in before the sectors it is for: those before keep their slots.
LEMMA BacktrackStep ==
    ASSUME GridInv, Backtrack
    PROVE  GridInv'
<1>0. /\ position \in Positions(plan) /\ InCall /\ deconf = "backtrack"
      /\ plan \in Plans /\ wait \in Nat /\ FirstRun \in Nat
      /\ back \in 1 .. position - 1
  BY AtPosition DEF GridInv, WaitInv, CallInv, InCall, Backtrack
<1>1. /\ back \in WaitCells(plan) /\ back \in Nat /\ back > 0
      /\ position \in Nat /\ position < plan.count /\ plan.count \in Nat
  BY <1>0, AtPosition, PlanTypes DEF WaitCells
<1>2. CallInv' /\ LengthsInv'
  BY DEF GridInv, CallInv, InCall, LengthsInv, Memory, grid, call,
         Backtrack
<1>3. /\ safeWait \in [WaitCells(plan) -> SafeWaitCell]
      /\ safeWait[0].slots = 0
      /\ \A c \in WaitCells(plan) : safeWait[c].prev \in -1 .. c - 1
      /\ InMemory(plan.sectors[0], Departure)
  BY <1>0 DEF GridInv, CellsInv
<1> DEFINE slots == safeWait[back].slots + wait
<1>4. slots \in Nat /\ safeWait[back] \in SafeWaitCell
  BY <1>0, <1>1, <1>3 DEF SafeWaitCell
<1>5. /\ safeWait' \in [WaitCells(plan) -> SafeWaitCell]
      /\ \A c \in WaitCells(plan) : c # back => safeWait'[c] = safeWait[c]
      /\ safeWait'[back].slots = slots /\ safeWait'[back].prev = safeWait[back].prev
  <2> DEFINE cell == [prev |-> safeWait[back].prev, slots |-> slots,
                      safe |-> SlotsAfter > 0]
  <2>1. safeWait' = [safeWait EXCEPT ![back] = cell]
    BY DEF Backtrack
  <2>2. cell \in SafeWaitCell
    BY <1>4 DEF SafeWaitCell
  <2>3. cell.slots = slots /\ cell.prev = safeWait[back].prev
    OBVIOUS
  <2> HIDE DEF cell
  <2> QED
    BY <1>1, <1>3, <2>1, <2>2, <2>3
<1> HIDE DEF slots
<1>6. position' = back /\ plan' = plan /\ Departure' = Departure
  BY DEF Departure, call, Backtrack
<1>7. CellsInv'
  <2>1. InMemory(plan.sectors[0], Departure)'
    BY <1>3, <1>6 DEF InMemory, Memory, Cell
  <2>2. 0 \in WaitCells(plan) /\ 0 # back
    BY <1>0, <1>1, PlanTypes
  <2> QED
    BY <1>1, <1>3, <1>5, <1>6, <2>1, <2>2 DEF CellsInv, WaitCells
<1>8. WaitInv'
  BY <1>0, <1>6 DEF WaitInv, FirstRun, Interval, Cell, grid,
                   Backtrack
<1>9. WalkedIsFree'
  <2>1. SUFFICES ASSUME NEW p \in 0 .. back - 1
                 PROVE  /\ ~Busy(plan.sectors[p], Departure + Entry(p)')
                        /\ safeWait'[p + 1].slots >= Entry(p)' + plan.reservations[p]
    <3>1. \A p : Busy(plan.sectors[p], Departure + Entry(p))'
               <=> Busy(plan.sectors[p], Departure + Entry(p)')
      BY <1>6 DEF Busy, Cell, grid, Backtrack
    <3> QED
      BY <1>6, <3>1 DEF WalkedIsFree
  <2>2. /\ p \in Nat /\ p \in Positions(plan) /\ p \in WaitCells(plan)
        /\ p + 1 \in WaitCells(plan) /\ p # back /\ p \in 0 .. position - 1
    <3>1. back \in Nat /\ position \in Nat /\ plan.count \in Nat
          /\ back < position /\ position < plan.count
      BY <1>0, <1>1
    <3>2. p \in Nat /\ p + 1 \in Nat /\ p < back /\ p # back
      BY <3>1
    <3>3. p <= plan.count - 1 /\ p <= plan.count /\ p + 1 <= plan.count /\ p <= position - 1
      BY <3>1, <3>2
    <3> QED
      BY <3>1, <3>2, <3>3 DEF Positions, WaitCells
  <2>3. Entry(p)' = Entry(p)
    BY <1>5, <1>6, <2>2 DEF Entry
  <2>4. /\ ~Busy(plan.sectors[p], Departure + Entry(p))
        /\ safeWait[p + 1].slots >= Entry(p) + plan.reservations[p]
    BY <1>0, <2>2 DEF GridInv, WalkedIsFree
  <2>5. /\ safeWait[p].slots \in Nat /\ safeWait[p + 1].slots \in Nat
        /\ safeWait'[p + 1].slots \in Nat
        /\ safeWait'[p + 1].slots >= safeWait[p + 1].slots
    <3>1. CASE p + 1 = back
      <4>1. safeWait[p].slots \in Nat /\ safeWait[back].slots \in Nat
        BY <1>1, <1>3, <2>2 DEF SafeWaitCell
      <4>2. safeWait'[back].slots = safeWait[back].slots + wait
        BY <1>5 DEF slots
      <4>3. /\ safeWait'[p + 1].slots = safeWait[p + 1].slots + wait
            /\ safeWait[p + 1].slots \in Nat
        BY <3>1, <4>1, <4>2, Zenon
      <4> QED
        BY <1>0, <4>1, <4>3
    <3>2. CASE p + 1 # back
      BY <1>3, <1>5, <2>2, <3>2 DEF SafeWaitCell
    <3> QED
      BY <3>1, <3>2
  <2>6. Entry(p) \in Nat /\ plan.reservations[p] \in Nat
    <3>1. plan.reservations[p] \in Nat
      BY <1>0, <2>2, PlanTypes
    <3> QED
      BY <2>5, <3>1 DEF Entry
  <2> QED
    BY <2>3, <2>4, <2>5, <2>6
<1> QED
  BY <1>2, <1>7, <1>8, <1>9 DEF GridInv, Backtrack

LEMMA BacktrackFurtherStep ==
    ASSUME GridInv, BacktrackFurther
    PROVE  GridInv'
<1> USE DEF BacktrackFurther
<1>0. /\ position \in Positions(plan) /\ InCall /\ deconf = "backtrack"
      /\ plan \in Plans /\ wait \in Nat /\ FirstRun \in Nat
      /\ back \in 1 .. position - 1
  BY AtPosition DEF GridInv, WaitInv, CallInv, InCall
<1>1. back \in WaitCells(plan) /\ position \in Nat
  BY <1>0, AtPosition, PlanTypes DEF WaitCells
<1>2. CallInv' /\ LengthsInv' /\ CellsInv' /\ WalkedIsFree' /\ FirstRun' = FirstRun
  BY <1>0, SameWalk
<1>3. safeWait[back].prev \in -1 .. back - 1
  BY <1>0, <1>1 DEF GridInv, CellsInv
<1>4. back' \in -1 .. position - 1
  BY <1>0, <1>1, <1>3
<1> QED
  BY <1>0, <1>2, <1>4 DEF GridInv, WaitInv, Positions, call

\* What is written while a route is published are lengths.
LEMMA PublishStep ==
    ASSUME GridInv, PublishReservations \/ PublishSector
    PROVE  GridInv'
<1>0. InCall /\ deconf \in {"walk", "publish"} /\ deconf' = "publish" /\ plan \in Plans
      /\ UNCHANGED <<plan, start, delay, safeWait>>
  BY DEF GridInv, CallInv, InCall, PublishReservations, PublishSector, call,
         Walked, Publishing
<1>1. CallInv' /\ WaitInv' /\ WalkedIsFree'
  <2>1. CallInv'
    BY <1>0 DEF GridInv, CallInv, InCall
  <2>2. WaitInv'
    BY <1>0 DEF WaitInv
  <2>3. WalkedIsFree'
    BY <1>0 DEF WalkedIsFree
  <2> QED
    BY <2>1, <2>2, <2>3
<1>2. Departure \in Int
  <2>1. start \in Starts /\ delay \in Int
    BY <1>0 DEF GridInv, CallInv
  <2> QED
    BY <2>1, ArraySizes DEF Departure
<1>3. ASSUME position' \in WaitCells(plan) PROVE CellsInv'
  BY <1>0, <1>3 DEF GridInv, CellsInv, InMemory, Memory, Cell,
         Departure, WaitCells
<1>4. CASE PublishReservations
  <2>1. CellsInv'
    BY <1>0, <1>3, <1>4, PlanTypes DEF PublishReservations
  <2>2. LengthsInv'
    BY <1>2, <1>4 DEF GridInv, LengthsInv, PublishReservations, grid, Memory
  <2> QED
    BY <1>0, <1>1, <2>1, <2>2 DEF GridInv
<1>5. CASE PublishSector
  <2>1. /\ deconf = "publish" /\ position \in Positions(plan)
        /\ position \in WaitCells(plan) /\ position + 1 \in WaitCells(plan)
    <3>1. position \in WaitCells(plan) /\ position < plan.count /\ deconf = "publish"
      BY <1>0, <1>5 DEF GridInv, CellsInv, PublishSector, Publishing
    <3>2. position \in Positions(plan)
      BY <1>0, <3>1, PlanTypes DEF WaitCells, Positions
    <3> QED
      BY <1>0, <3>1, <3>2, PlanTypes
  <2>2. CellsInv'
    BY <1>3, <1>5, <2>1 DEF PublishSector
  <2>3. Given \in Nat /\ prevSlots \in Int /\ LastGiven \in Int
    BY <1>0, <2>1, AtPosition DEF GridInv, LengthsInv, Given, LastGiven
  <2> DEFINE lower == IF Before > 0
                     THEN Write(intervals, Cell(Sector, prevSlots - Before),
                                     Before)
                     ELSE intervals
             own == Write(lower, Cell(Sector, prevSlots), Given + 1)
  <2>4. intervals' = IF After > 1
                     THEN Write(own, Cell(Sector, LastGiven + 1),
                                     After - 1)
                     ELSE own
    BY <1>5 DEF PublishSector
  <2>5. After \in Nat /\ Before \in 0 .. Cell(Sector, prevSlots)
    BY <1>5 DEF PublishSector, Publishing
  <2>6. Before > 0 => Before \in Nat
    BY <2>5, <2>3, <1>0, <2>1, AtPosition, Cells
  <2>7. lower \in [Memory -> Lengths]
    BY <2>6 DEF GridInv, LengthsInv, Write, Lengths
  <2> HIDE DEF lower
  <2>8. own \in [Memory -> Lengths]
    <3>1. Given + 1 \in Lengths
      BY <2>3 DEF Lengths
    <3> QED
      BY <2>7, <3>1 DEF Write
  <2> HIDE DEF own
  <2>9. intervals' \in [Memory -> Lengths]
    <3>1. After > 1 => After - 1 \in Lengths
      BY <2>5 DEF Lengths
    <3> QED
      BY <2>4, <2>8, <3>1 DEF Write
  <2>10. LengthsInv'
    BY <1>5, <2>3, <2>9 DEF LengthsInv, PublishSector, Memory
  <2> QED
    BY <1>0, <1>1, <2>2, <2>10 DEF GridInv
<1> QED
  BY <1>4, <1>5

\* A shift reads no further than the row after the last.
LEMMA ShiftStep ==
    ASSUME GridInv, Shift
    PROVE  GridInv'
<1>1. intervals' \in [Memory -> Lengths]
  <2>1. \A c \in Memory : c < Rows * MaxSlots => c + ShiftSlots \in Memory
    <3>1. ShiftSlots \in Nat /\ ShiftSlots < MaxSlots
      BY GridAssumption
    <3> QED
      BY <3>1, ArraySizes DEF Memory
  <2>2. \A c \in Memory :
            (IF c >= Rows * MaxSlots THEN intervals[c]
             ELSE IF c % MaxSlots < MaxSlots - ShiftSlots
             THEN intervals[c + ShiftSlots] ELSE Smeared) \in Lengths
    <3>1. intervals \in [Memory -> Lengths] /\ Smeared \in Lengths
      BY DEF GridInv, LengthsInv, Lengths
    <3>2. \A c \in Memory : c \in Int /\ Rows * MaxSlots \in Int
      BY ArraySizes DEF Memory
    <3> TAKE c \in Memory
    <3>3. /\ intervals[c] \in Lengths
          /\ c < Rows * MaxSlots => intervals[c + ShiftSlots] \in Lengths
      BY <2>1, <3>1
    <3>4. c >= Rows * MaxSlots \/ c < Rows * MaxSlots
      BY <3>2
    <3> QED
      BY <3>1, <3>3, <3>4, Zenon
  <2> QED
    BY <2>2 DEF Shift
<1>2. LengthsInv' /\ CallInv' /\ CellsInv' /\ WaitInv' /\ WalkedIsFree'
  BY <1>1 DEF Shift, LengthsInv, CallInv, CellsInv, WaitInv, InCall, WalkedIsFree,
              Memory
<1> QED
  BY <1>2 DEF GridInv, Shift

LEMMA GridStep ==
    ASSUME GridInv, [GridNext]_gridVars
    PROVE  GridInv'
<1>1. CASE \E p \in Plans, s \in Starts : Take(p, s)
  BY <1>1, TakeStep
<1>2. CASE StartBusy
  BY <1>2, FailStep DEF StartBusy
<1>3. CASE NoAcceptableTime
  BY <1>3, FailStep DEF NoAcceptableTime
<1>4. CASE StartFree
  BY <1>4, StartFreeStep
<1>5. CASE Pass \/ Block
  BY <1>5, PassStep, BlockStep
<1>6. CASE Look
  BY <1>6, LookStep
<1>7. CASE Backtrack \/ BacktrackFurther
  BY <1>7, BacktrackStep, BacktrackFurtherStep
<1>8. CASE LookAway \/ PublishAway
  BY <1>8, ReturnStep DEF GridInv, LookAway, PublishAway, Crash, grid
<1>9. CASE LacksBattery \/ Published
  BY <1>9, ReturnStep DEF GridInv, LacksBattery, Published, grid
<1>10. CASE PublishReservations \/ PublishSector
  BY <1>10, PublishStep
<1>11. CASE Shift
  BY <1>11, ShiftStep
<1>12. CASE UNCHANGED gridVars
  BY <1>12 DEF gridVars, GridInv, CallInv, CellsInv, WaitInv, LengthsInv, InCall, LedAway,
               FirstRun, WalkedIsFree, Entry, Busy, Interval, Cell,
               Departure, InMemory, Memory, Sector, Positions,
               WaitCells
<1> QED
  BY <1>1, <1>2, <1>3, <1>4, <1>5, <1>6, <1>7, <1>8, <1>9, <1>10, <1>11, <1>12
     DEF GridNext, Deconf, Gone

-----------------------------------------------------------------------------
(* The theorem of the walk *)

\* Wherever deconf_standard has come and however often it went back: the sectors
\* behind it are free when it looked at them, and are entered one after the other,
\* for every grid, every set of routes and whatever the shifts left in g_intervals.
THEOREM WalkedIsAlwaysFree == GridSpec => []WalkedIsFree
<1>1. GridInit => GridInv
  BY GridInvInit
<1>2. GridInv /\ [GridNext]_gridVars => GridInv'
  BY GridStep
<1>3. GridInv => WalkedIsFree
  BY DEF GridInv
<1> QED
  BY <1>1, <1>2, <1>3, PTL DEF GridSpec
=============================================================================
