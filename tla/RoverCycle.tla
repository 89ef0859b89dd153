----------------------------- MODULE RoverCycle -----------------------------
(***************************************************************************)
(* The life of a rover's route request: the shim asks for a route, the     *)
(* service thread queues the request, the main loop plans it, deconflicts  *)
(* the planned routes in batches and sends them one by one, haphazard      *)
(* drives the goal, the action client's thread publishes the result, and   *)
(* the shim, ten seconds later, asks again.  Nothing but that last message *)
(* makes a shim ask: a request lost anywhere leaves its rover waiting.     *)
(*                                                                         *)
(* The parts are abstracted to what they do to the request.  RequestQueue, *)
(* Objectives and ScheduleBatch model them in detail: here the queue is a  *)
(* sequence, the planner's verdict and the fate of a route in a batch are  *)
(* choices.  `lost' counts, per rover, the requests that end nowhere.      *)
(***************************************************************************)
EXTENDS Integers, FiniteSets, SequencesExt, Functions

CONSTANTS
    Rovers,         \* the rovers of the configuration file, a shim each
    QueueCapacity,  \* capacity of the request queue, 100 in the code
    ManualFlags,    \* flags of the requests called by hand (README.md)
    MaxExtra        \* bound on shim restarts and requests called by hand

ASSUME CycleAssumption ==
    /\ IsFiniteSet(Rovers) /\ Rovers # {}
    /\ QueueCapacity \in Nat \ {0}
    /\ MaxExtra \in Nat

\* enum req_flags
POWER_EMERGENCY == 0
POWER_REQUEST == 1
ROVER_NO_OBJECTIVE == 2
ROUTE_REQUEST == 3
CRITICAL_BATTERY == 4
LOW_BATTERY == 5
Flags == 0 .. 10    \* what handle_add_request lets through

VARIABLES
    armed,      \* the rovers whose initial_request_timer_ still runs
    resting,    \* the rovers whose shim sleeps after route_done
    called,     \* called[r]: add_request calls under way
    queue,      \* g_request_queue: [rover, flag]
    pending,    \* g_deconf_pq, in order of arrival: [rover, flag]
    sending,    \* platform_packages not sent yet: [rover, flag]
    goals,      \* goals[r]: goals haphazard has accepted and not ended
    results,    \* results[r]: successful results not yet received
    done,       \* done[r]: route_done messages waiting at the shim, at most one
    extra,      \* history: shim restarts and requests by hand
    lost        \* history: requests that ended without making the shim ask again

shim == <<armed, resting, called, done>>
server == <<queue, pending, sending>>
rover == <<goals, results>>
vars == <<armed, resting, called, queue, pending, sending, goals, results, done,
          extra, lost>>

Init ==
    /\ armed = Rovers /\ resting = {}
    /\ called = [r \in Rovers |-> 0]
    /\ queue = <<>> /\ pending = <<>> /\ sending = <<>>
    /\ goals = [r \in Rovers |-> 0]
    /\ results = [r \in Rovers |-> 0]
    /\ done = [r \in Rovers |-> 0]
    /\ extra = [r \in Rovers |-> 0]
    /\ lost = [r \in Rovers |-> 0]

Add(f, r, n) == [f EXCEPT ![r] = @ + n]

\* The requests or routes of r in a sequence of them that have one of these flags.
Count(seq, r, flags) ==
    Cardinality({i \in DOMAIN seq : seq[i].rover = r /\ seq[i].flag \in flags})

Has(S, r) == IF r \in S THEN 1 ELSE 0

\* The flags process_requests has a case for, and what each case makes of them.
Served == {ROUTE_REQUEST, CRITICAL_BATTERY, LOW_BATTERY}
PlannedFlag(flag) ==
    IF flag = ROUTE_REQUEST THEN ROVER_NO_OBJECTIVE ELSE POWER_REQUEST

\* push_request, called for one request after the other: a full queue drops the
\* rest, and nobody is told.
QueuePush(q, reqs) ==
    LET room == QueueCapacity - Len(q)
    IN  q \o SubSeq(reqs, 1, IF Len(reqs) <= room THEN Len(reqs) ELSE room)

-----------------------------------------------------------------------------
(* The shim *)

\* make_request: unless the service is there within five seconds the shim gives
\* up, and nothing makes it try again.
MakeRequest(r) ==
    \/ /\ called' = Add(called, r, 1)
       /\ UNCHANGED lost
    \/ /\ lost' = Add(lost, r, 1)
       /\ UNCHANGED called

\* Mutant: the timer is not cancelled.
InitialRequestAgain(r) ==
    /\ r \in armed \ resting
    /\ called[r] = 0
    /\ MakeRequest(r)
    /\ UNCHANGED <<armed, resting, done, server, rover, extra>>

\* The timer finds the odometry there, makes the first request and cancels
\* itself.  The shim's executor has one thread: not while it sleeps.
InitialRequest(r) ==
    /\ r \in armed \ resting
    /\ MakeRequest(r)
    /\ armed' = armed \ {r}
    /\ UNCHANGED <<resting, done, server, rover, extra>>

\* Mutant: the message is taken for one that says false.
HearDoneIgnored(r) ==
    /\ done[r] > 0 /\ r \notin resting
    /\ done' = Add(done, r, -1)
    /\ UNCHANGED <<armed, resting, called, server, rover, extra, lost>>

HearDone(r) ==
    /\ done[r] > 0 /\ r \notin resting
    /\ done' = Add(done, r, -1)
    /\ resting' = resting \cup {r}
    /\ UNCHANGED <<armed, called, server, rover, extra, lost>>

\* After the ten seconds.  The battery callback sets curr_joules to the full
\* capacity, so get_req_type asks for a route.
RequestAgain(r) ==
    /\ r \in resting
    /\ MakeRequest(r)
    /\ resting' = resting \ {r}
    /\ UNCHANGED <<armed, done, server, rover, extra>>

\* The shim is killed and started again.  What it slept on or had not heard is
\* gone; a call it made still arrives.
ShimRestart(r) ==
    /\ SumFunction(extra) < MaxExtra
    /\ extra' = Add(extra, r, 1)
    /\ lost' = Add(lost, r, Has(armed, r) + Has(resting, r) + done[r])
    /\ armed' = armed \cup {r}
    /\ resting' = resting \ {r}
    /\ done' = [done EXCEPT ![r] = 0]
    /\ UNCHANGED <<called, server, rover>>

-----------------------------------------------------------------------------
(* The service thread: handle_add_request *)

\* Validated, or the call is answered without a request; queued, or dropped by a
\* full queue though the caller is told success.
HandleAddRequest(r, flag) ==
    /\ queue' = IF flag \in Flags
                THEN QueuePush(queue, <<[rover |-> r, flag |-> flag]>>) ELSE queue
    /\ lost' = IF flag \in Served /\ queue' # queue THEN lost ELSE Add(lost, r, 1)

ShimCall(r) ==
    /\ called[r] > 0
    /\ called' = Add(called, r, -1)
    /\ HandleAddRequest(r, ROUTE_REQUEST)
    /\ UNCHANGED <<armed, resting, done, pending, sending, rover, extra>>

\* ros2 service call /add_request, as README.md shows it.
ManualCall(r, flag) ==
    /\ SumFunction(extra) < MaxExtra
    /\ extra' = Add(extra, r, 1)
    /\ HandleAddRequest(r, flag)
    /\ UNCHANGED <<shim, pending, sending, rover>>

-----------------------------------------------------------------------------
(* The main loop, when it is not sending: process_requests *)

Free == sending = <<>>

\* No case of the switch: the request is freed.
Drop ==
    /\ Free /\ queue # <<>> /\ Head(queue).flag \notin Served
    /\ queue' = Tail(queue)
    /\ UNCHANGED <<shim, pending, sending, rover, extra, lost>>

Plannable == Free /\ queue # <<>> /\ Head(queue).flag \in Served
Asker == Head(queue).rover
Planned == [rover |-> Asker, flag |-> PlannedFlag(Head(queue).flag)]

\* No objective and no station (IDLE), no station (NEED_NEW_ROUTE), or a stored
\* route (ROUTE_ASSIGNED): rover_request_handler queues nothing.
PlanNothing ==
    /\ Plannable
    /\ queue' = Tail(queue)
    /\ lost' = Add(lost, Asker, 1)
    /\ UNCHANGED <<shim, pending, sending, rover, extra>>

\* No path, no instructions or too little battery: the request goes back to the
\* queue with the flag it was planned with, for which there is no case.
PlanRetry ==
    /\ Plannable
    /\ queue' = QueuePush(Tail(queue), <<Planned>>)
    /\ lost' = Add(lost, Asker, 1)
    /\ UNCHANGED <<shim, pending, sending, rover, extra>>

\* The route goes to the pending heap, which holds one per configured rover.
\* When it is full one of two routes of the same rover stays, the newer, and a
\* rover without a route in it is turned away.
HeapPush(package) ==
    \/ /\ Len(pending) < Cardinality(Rovers)
       /\ pending' = Append(pending, package)
       /\ UNCHANGED lost
    \/ /\ Len(pending) >= Cardinality(Rovers)
       /\ \/ UNCHANGED pending
          \/ \E i \in DOMAIN pending :
                /\ pending[i].rover = package.rover
                /\ pending' = [pending EXCEPT ![i] = package]
       /\ lost' = Add(lost, package.rover, 1)

PlanRoute ==
    /\ Plannable
    /\ queue' = Tail(queue)
    /\ HeapPush(Planned)
    /\ UNCHANGED <<shim, sending, rover, extra>>

-----------------------------------------------------------------------------
(* The main loop: create_and_send_rover_schedules *)

\* What deconf_main may make of a route (see ScheduleBatch): reservations; back
\* to the request queue; both, when it fits at the last retry; popped and never
\* looked at; left in the heap.
Fates == {"scheduled", "sent back", "both", "dropped", "left"}

\* The routes with one of these fates, in some order: no field the heap compares
\* is ever set.
With(fate, fates) ==
    LET chosen == SetToSeq({i \in DOMAIN fate : fate[i] \in fates})
    IN  [k \in DOMAIN chosen |-> pending[chosen[k]]]

\* Mutant: a route sent back is queued as its rover asked for it.
CreateSchedulesAsking ==
    /\ Free /\ pending # <<>>
    /\ \E fate \in [DOMAIN pending -> Fates] :
        LET back == With(fate, {"sent back", "both"})
        IN  /\ With(fate, {"scheduled", "sent back", "both"}) # <<>>
            /\ pending' = With(fate, {"left"})
            /\ sending' = With(fate, {"scheduled", "both"})
            /\ queue' = QueuePush(queue, [k \in DOMAIN back |->
                                [back[k] EXCEPT !.flag = ROUTE_REQUEST]])
            /\ lost' = [r \in Rovers |->
                            lost[r] + Count(With(fate, {"dropped"}), r, Flags)]
    /\ UNCHANGED <<shim, rover, extra>>

\* A batch: the route popped first gets reservations or goes back.
CreateSchedules ==
    /\ Free /\ pending # <<>>
    /\ \E fate \in [DOMAIN pending -> Fates] :
        /\ With(fate, {"scheduled", "sent back", "both"}) # <<>>
        /\ pending' = With(fate, {"left"})
        /\ sending' = With(fate, {"scheduled", "both"})
        /\ queue' = QueuePush(queue, With(fate, {"sent back", "both"}))
        /\ lost' = [r \in Rovers |->
                        lost[r] + Count(With(fate, {"sent back", "dropped"}), r, Flags)]
    /\ UNCHANGED <<shim, rover, extra>>

\* send_instructions: the goal is accepted and gets a thread of its own, or the
\* server is not there within five seconds and the package is freed.
Send(r) ==
    \/ goals' = Add(goals, r, 1) /\ UNCHANGED lost
    \/ lost' = Add(lost, r, 1) /\ UNCHANGED goals

SendNext ==
    /\ ~Free
    /\ Send(Head(sending).rover)
    /\ sending' = Tail(sending)
    /\ UNCHANGED <<shim, queue, pending, results, extra>>

-----------------------------------------------------------------------------
(* haphazard and the action client's thread *)

GoalSucceeds(r) ==
    /\ goals[r] > 0
    /\ goals' = Add(goals, r, -1)
    /\ results' = Add(results, r, 1)
    /\ UNCHANGED <<shim, server, extra, lost>>

\* Cancelled: the result callback publishes nothing.
GoalCancelled(r) ==
    /\ goals[r] > 0
    /\ goals' = Add(goals, r, -1)
    /\ lost' = Add(lost, r, 1)
    /\ UNCHANGED <<shim, server, results, extra>>

\* The result callback publishes route_done; the shim's subscription keeps the
\* last message only.
PublishDone(r) ==
    /\ results[r] > 0
    /\ results' = Add(results, r, -1)
    /\ done' = [done EXCEPT ![r] = 1]
    /\ lost' = Add(lost, r, done[r])
    /\ UNCHANGED <<armed, resting, called, server, goals, extra>>

-----------------------------------------------------------------------------
ShimStep(r) == HearDone(r) \/ RequestAgain(r)
MainStep == Drop \/ PlanNothing \/ PlanRetry \/ PlanRoute \/ CreateSchedules \/ SendNext
RoverEvent(r) ==
    \/ InitialRequest(r) \/ ShimRestart(r)
    \/ GoalSucceeds(r) \/ GoalCancelled(r)
    \/ \E flag \in ManualFlags : ManualCall(r, flag)

Next ==
    \/ MainStep
    \/ \E r \in Rovers : ShimStep(r) \/ ShimCall(r) \/ PublishDone(r) \/ RoverEvent(r)

Spec == Init /\ [][Next]_vars

\* The shim's executor, the service thread, the action client's thread and the
\* main loop go on.  The main loop takes a request in a round and makes the
\* schedules in every tenth: neither keeps the other from happening.  Nothing is
\* said of odometry, restarts, calls by hand, or the end of a goal.
Fairness ==
    /\ WF_vars(Drop \/ PlanNothing \/ PlanRetry \/ PlanRoute)
    /\ WF_vars(CreateSchedules)
    /\ WF_vars(SendNext)
    /\ \A r \in Rovers : /\ WF_vars(ShimStep(r))
                         /\ WF_vars(ShimCall(r))
                         /\ WF_vars(PublishDone(r))

FairSpec == Spec /\ Fairness

-----------------------------------------------------------------------------
(* Properties *)

\* The places at which a rover's request, route or answer is under way.
UnderWay(r) ==
    Has(armed, r) + Has(resting, r) + called[r] + done[r]
    + Count(queue, r, Served) + Count(pending, r, Flags) + Count(sending, r, Flags)
    + goals[r] + results[r]

\* A rover has one request in the system, in one place, plus one for each restart
\* of its shim and each call by hand, less those that ended nowhere: no step of
\* the shim, of the threads of the server or of haphazard makes two of one, and
\* none loses one but where an answer is refused, given up or cancelled
\* (make_request, push_request, plan_route, instrpack_heap_push, deconf_main,
\* send_instructions, the result callback).
EveryRequestAccountedFor ==
    \A r \in Rovers : UnderWay(r) + lost[r] = 1 + extra[r]

\* While no shim restarts and nobody calls by hand, instrpack_heap_push finds room
\* in the pending heap for every request that may be planned: its code for a full
\* heap, with its duplicate rovers, is never reached.
RoomForEveryRoute ==
    (\A r \in Rovers : extra[r] = 0) /\ Plannable
        => Len(pending) < Cardinality(Rovers)

\* The server does not come to rest: again and again some rover has a goal, until
\* every request has ended nowhere or waits for the odometry of its rover.
SomebodyDrives ==
    \/ []<>(\E r \in Rovers : goals[r] > 0)
    \/ <>[](\A r \in Rovers : lost[r] = 1 + extra[r] \/ r \in armed)
=============================================================================
