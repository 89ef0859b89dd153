--------------------------- MODULE ScheduleBatch ---------------------------
(***************************************************************************)
(* One scheduling batch of the navigation server: the heap of pending      *)
(* routes (src/queue/deconf_pqueue.cpp), the loop that lays each of them   *)
(* on the reservation grid (src/deconf/deconf_main.c) and the dispatch of  *)
(* the ones that fit (src/send/send_main.c).  All of it runs on the main   *)
(* thread; a step here is a call whose outcome decides where it goes next. *)
(*                                                                         *)
(* deconf_standard is represented by what deconf_main distinguishes in its *)
(* answer: the route fits, lacks battery, must leave later, or is refused. *)
(* The pop order is left open: it follows metadata.priority, copied from a *)
(* Rover whose priority process_requests never sets.                       *)
(***************************************************************************)
EXTENDS Integers, FiniteSets

CONSTANTS
    Rovers,         \* rover ids
    Times,          \* request timestamps, in seconds
    Capacity,       \* get_actual_num_rovers, or 10 when the file names none
    MaxTries,       \* MAX_DECONF_TRIES, 10 in the code
    MaxRetries,     \* MAX_DECONF_RETRIES, 15 in the code
    MaxRoutes,      \* bound on the routes of one behaviour
    NoRoute         \* the NULL route

Routes == [id : 1..MaxRoutes, rover : Rovers, time : Times]

ASSUME BatchAssumption ==
    /\ IsFiniteSet(Rovers)
    /\ Times \subseteq Nat
    /\ Capacity \in Nat \ {0}
    /\ MaxTries \in Nat
    /\ MaxRetries \in Nat \ {0}
    /\ MaxRoutes \in Nat
    /\ NoRoute \notin Routes

VARIABLES
    pending,    \* g_deconf_pq
    completed,  \* local_completed_pq
    route,      \* the route deconf_main works on
    pc,         \* where the main thread is
    tries,      \* try_count
    retry,      \* i, the index of the retry loop
    calls,      \* calls of deconf_standard in this batch
    batch,      \* history: the routes pending when the batch began
    plain,      \* history: no route of the batch lacked battery or was delayed
    arrived,    \* history: the number of routes handed to the pending heap
    requeued,   \* history: the routes sent back as a new request and freed
    sent,       \* history: the routes sent to their rover
    unsent      \* history: the routes whose send failed

queues == <<pending, completed, route>>
counters == <<tries, retry, calls>>
fates == <<requeued, sent, unsent>>
vars == <<pending, completed, route, pc, tries, retry, calls, batch, plain,
          arrived, requeued, sent, unsent>>

Locations == {"idle", "loop", "retry", "retried", "convert", "send", "crashed"}

Init ==
    /\ pending = {} /\ completed = {} /\ route = NoRoute
    /\ pc = "idle"
    /\ tries = 0 /\ retry = 0 /\ calls = 0
    /\ batch = {} /\ plain = TRUE
    /\ arrived = 0
    /\ requeued = {} /\ sent = {} /\ unsent = {}

-----------------------------------------------------------------------------
(* The heap *)

\* Mutant: the capacity test is off by one.
HeapPushOverfull(heap, r) ==
    IF Cardinality(heap) <= Capacity THEN {heap \cup {r}} ELSE {heap}

\* The heaps instrpack_heap_push may leave.  Below the capacity the route is
\* added, whatever else its rover has in the heap.  A full heap is searched for
\* a route of the same rover (the first in array order: any): the newer of the
\* two stays.  Without one the new route is turned away.
HeapPush(heap, r) ==
    LET same == {d \in heap : d.rover = r.rover}
        older == {d \in same : r.time > d.time}
    IN  IF Cardinality(heap) < Capacity THEN {heap \cup {r}}
        ELSE {(heap \ {d}) \cup {r} : d \in older}
             \cup (IF same # {} /\ same \subseteq older THEN {} ELSE {heap})

\* instrpack_heap_pop: NULL when the heap is empty.
Pop(next) ==
    \/ /\ pending = {}
       /\ next = NoRoute
       /\ UNCHANGED pending
    \/ /\ next \in pending
       /\ pending' = pending \ {next}

PopRoute ==
    \E next \in pending \cup {NoRoute} : Pop(next) /\ route' = next

\* request_handler pushes a route whose path was found; its timestamp is the
\* one of the request, which a retry repeats.
Arrive(rover, time) ==
    /\ pc = "idle"
    /\ arrived < MaxRoutes
    /\ arrived' = arrived + 1
    /\ LET r == [id |-> arrived + 1, rover |-> rover, time |-> time]
       IN  pending' \in HeapPush(pending, r)
    /\ UNCHANGED <<completed, route, pc, counters, batch, plain, fates>>

-----------------------------------------------------------------------------
(* create_and_send_rover_schedules and the loop of deconf_main *)

NothingPending ==
    /\ pc = "idle"
    /\ pending = {}
    /\ UNCHANGED vars

StartBatch ==
    /\ pc = "idle"
    /\ pending # {}
    /\ PopRoute
    /\ pc' = "loop"
    /\ tries' = 0 /\ retry' = 0 /\ calls' = 0
    /\ batch' = pending /\ plain' = TRUE
    /\ UNCHANGED <<completed, arrived, fates>>

\* Mutant: one iteration too many.
LoopingOnceMore == pc = "loop" /\ route # NoRoute /\ tries <= MaxTries

Looping == pc = "loop" /\ route # NoRoute /\ tries < MaxTries

\* The loop ends; a route popped for an iteration that does not take place is
\* dropped here.
EndLoop ==
    /\ pc = "loop"
    /\ route = NoRoute \/ tries >= MaxTries
    /\ route' = NoRoute
    /\ pc' = "convert"
    /\ UNCHANGED <<pending, completed, counters, batch, plain, arrived, fates>>

\* Mutant: the completed push is missing.
FirstTryForgotten ==
    /\ Looping
    /\ PopRoute
    /\ tries' = tries + 2 /\ calls' = calls + 1
    /\ UNCHANGED <<completed, pc, retry, batch, plain, arrived, requeued, sent, unsent>>

\* The route fits at the first call; try_count moves at both ends of the body.
FirstTryFits ==
    /\ Looping
    /\ completed' \in HeapPush(completed, route)
    /\ PopRoute
    /\ tries' = tries + 2 /\ calls' = calls + 1
    /\ UNCHANGED <<pc, retry, batch, plain, arrived, requeued, sent, unsent>>

\* The route lacks battery: it is requeued, the next one is popped, and the
\* break leaves the loop with that next route in hand.
FirstTryLacksBattery ==
    /\ Looping
    /\ requeued' = requeued \cup {route}
    /\ \E next \in pending \cup {NoRoute} : Pop(next)
    /\ route' = NoRoute
    /\ pc' = "convert"
    /\ tries' = tries + 1 /\ calls' = calls + 1
    /\ plain' = FALSE
    /\ UNCHANGED <<completed, retry, batch, arrived, sent, unsent>>

\* No departure time is offered, or one past the wait allowance.
FirstTryRefused ==
    /\ Looping
    /\ requeued' = requeued \cup {route}
    /\ PopRoute
    /\ tries' = tries + 1 /\ calls' = calls + 1
    /\ UNCHANGED <<completed, pc, retry, batch, plain, arrived, sent, unsent>>

\* A later departure within the allowance is offered.
FirstTryDelayed ==
    /\ Looping
    /\ pc' = "retry"
    /\ retry' = 0
    /\ tries' = tries + 1 /\ calls' = calls + 1
    /\ plain' = FALSE
    /\ UNCHANGED <<queues, batch, arrived, fates>>

-----------------------------------------------------------------------------
(* The retry loop *)

RetryFits ==
    /\ pc = "retry"
    /\ completed' \in HeapPush(completed, route)
    /\ pc' = "retried"
    /\ calls' = calls + 1
    /\ UNCHANGED <<pending, route, tries, retry, batch, plain, arrived,
                   requeued, sent, unsent>>

\* Out of battery, or the next departure is past the allowance.
RetryRefused ==
    /\ pc = "retry"
    /\ requeued' = requeued \cup {route}
    /\ PopRoute
    /\ pc' = "retried"
    /\ calls' = calls + 1
    /\ UNCHANGED <<completed, tries, retry, batch, plain, arrived, sent, unsent>>

\* Mutant: an exhausted route starts its retries again.
RetryRestarts ==
    /\ pc = "retry"
    /\ retry' = (retry + 1) % MaxRetries
    /\ calls' = calls + 1
    /\ UNCHANGED <<queues, pc, tries, batch, plain, arrived, fates>>

RetryDelayed ==
    /\ pc = "retry"
    /\ retry' = retry + 1
    /\ pc' = IF retry' = MaxRetries THEN "retried" ELSE "retry"
    /\ calls' = calls + 1
    /\ UNCHANGED <<queues, tries, batch, plain, arrived, fates>>

\* The test after the loop, meant for exhausted retries, compares the index
\* with its last value inside the loop.
LastRetry == retry = MaxRetries - 1

\* The route in hand is sent back and freed, be it one that has just fitted: then
\* completed holds it still.
RetriesOver ==
    /\ pc = "retried" /\ LastRetry
    /\ route # NoRoute
    /\ requeued' = requeued \cup {route}
    /\ PopRoute
    /\ pc' = "loop"
    /\ UNCHANGED <<completed, counters, batch, plain, arrived, sent, unsent>>

\* ... and writes through the route without testing it.
NullRoute ==
    /\ pc = "retried" /\ LastRetry
    /\ route = NoRoute
    /\ pc' = "crashed"
    /\ UNCHANGED <<queues, counters, batch, plain, arrived, fates>>

\* Otherwise the next route is popped, over the one in hand.
NextRoute ==
    /\ pc = "retried" /\ ~LastRetry
    /\ PopRoute
    /\ tries' = tries + 1
    /\ pc' = "loop"
    /\ UNCHANGED <<completed, retry, calls, batch, plain, arrived, fates>>

-----------------------------------------------------------------------------
(* The dispatch *)

\* The routes that were freed when they had already been pushed.
Dangling == completed \cap requeued

\* Each route in completed is popped, converted for its rover and freed, all of them
\* before the first is sent.  One that was freed before may still read as it was...
Convert ==
    /\ pc = "convert"
    /\ pc' = "send"
    /\ UNCHANGED <<queues, counters, batch, plain, arrived, fates>>

\* ... or the use or the second free of it ends the process.
ConvertFreed ==
    /\ pc = "convert" /\ Dangling # {}
    /\ pc' = "crashed"
    /\ UNCHANGED <<queues, counters, batch, plain, arrived, fates>>

Send(r) ==
    /\ pc = "send"
    /\ r \in completed
    /\ completed' = completed \ {r}
    /\ \/ sent' = sent \cup {r} /\ UNCHANGED unsent
       \/ unsent' = unsent \cup {r} /\ UNCHANGED sent
    /\ UNCHANGED <<pending, route, pc, counters, batch, plain, arrived, requeued>>

EndBatch ==
    /\ pc = "send"
    /\ completed = {}
    /\ pc' = "idle"
    /\ UNCHANGED <<queues, counters, batch, plain, arrived, fates>>

\* The process is gone.
Crashed ==
    /\ pc = "crashed"
    /\ UNCHANGED vars

-----------------------------------------------------------------------------

FirstTry ==
    FirstTryFits \/ FirstTryLacksBattery \/ FirstTryRefused \/ FirstTryDelayed

Retry == RetryFits \/ RetryRefused \/ RetryDelayed

Batch ==
    \/ StartBatch \/ EndLoop
    \/ FirstTry \/ Retry
    \/ RetriesOver \/ NullRoute \/ NextRoute
    \/ Convert \/ ConvertFreed
    \/ \E r \in completed : Send(r)
    \/ EndBatch

Next ==
    \/ NothingPending
    \/ \E rover \in Rovers, time \in Times : Arrive(rover, time)
    \/ Batch
    \/ Crashed

Spec == Init /\ [][Next]_vars

-----------------------------------------------------------------------------
(* Properties *)

TypeOK ==
    /\ pending \subseteq Routes /\ completed \subseteq Routes
    /\ route \in Routes \cup {NoRoute}
    /\ pc \in Locations
    /\ tries \in 0..(MaxTries + 1) /\ retry \in 0..MaxRetries /\ calls \in Nat
    /\ batch \subseteq Routes /\ plain \in BOOLEAN
    /\ arrived \in 0..MaxRoutes
    /\ requeued \subseteq Routes /\ sent \subseteq Routes /\ unsent \subseteq Routes

\* The completed heap of a batch always has room for the route in hand:
\* instrpack_heap_push never turns away a route that deconf_standard has just
\* put on the grid.
CompletedHasRoom ==
    pc \in {"loop", "retry"} /\ route # NoRoute => Cardinality(completed) < Capacity

\* "it cannot be allowed to block the rest of the program" (send_main.c): the
\* number of calls of deconf_standard in a batch is bounded by the two limits.
WorkBounded == calls <= MaxTries * (MaxRetries + 1)

\* A batch of at most half as many routes as MAX_DECONF_TRIES in which no route
\* lacks battery or is delayed gives every one of its routes an answer.
Answered == completed \cup sent \cup unsent \cup requeued
SmallPlainBatchAnswered ==
    pc \in {"convert", "send", "idle"} /\ plain /\ 2 * Cardinality(batch) <= MaxTries
        => batch \subseteq Answered

\* send_main.c: "if it fails to find a schedule, it needs to be allowed to fail".
FailureIsSurvived == pc # "crashed"
=============================================================================
