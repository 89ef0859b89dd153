# Lunar rover navigation server: TLA+ models and proofs

The navigation server plans routes for a fleet of rovers, lays them on a shared
grid of sectors and time slots so that no two rovers are in a sector at once, and
sends each rover its schedule.  This directory holds TLA+ modules of its control
logic, TLC configurations that check them on small instances, and TLAPS proofs of
the safety properties that matter most.

Paths without a directory below are under
`src/LunarRoverAutonomousNavigation/src/` (and `shim/` beside it);
`src/haphazard/haphazard.cpp` is the driver on the rover's side.

    tlc -workers 2 -config RequestQueue.cfg MCRequestQueue     # a run
    tlapm RequestQueueProofs.tla                               # a proof module

## 1. The system

### 1.1 Components

| Component | Code | State | Operations |
|---|---|---|---|
| Shim, one per rover | `shim/rover_shim.cpp` | odometry, battery, the initial timer | ask for a route (once at the start, then ten seconds after each `route_done`) |
| Service | `io/ros2_service_wrapper.cpp` | its spin thread | validate a call, turn it into a request, push it |
| Request queue | `queue_management.c` | ring of 100, `front`, `rear`, `size`, rwlock | `push_request`, `pop_next_request` |
| Main loop | `dispatcher.c`, `timer_linux.c` | timer, three due dates, `keep_running` | one round per tick: a request, and when due schedules, grid shift, synchronization |
| Request processing | `requests/requests_process.c` | none | pop one request, build a `Rover`, switch on the flag |
| Request handler, route planner | `requests/request_handler.c`, `route/route_planner.c` | the `Rover` of the request | choose an objective or a station, find a path, make instructions, queue the route; or push the request back |
| Objectives | `objectives/*` | kd-tree per level, reserved tree, counts, blacklists | choose, reserve, give back with a blacklist entry |
| Route provider, path storage | `route/route_provider.c`, `path_storage.c` | the stored file | answer with a stored path or with "need new instructions" |
| Power stations | `objectives/power_station_kdtree.cpp`, `route/find_power_route.c` | kd-tree, temporary blacklist | nearest station not tried yet |
| Path search | `proavo/*`, `gridmap/*`, `battery/*` | node pool, open list | hybrid A* over the terrain |
| Path to instructions | `nav/*`, `io/platform_specific_instructions_converter.cpp` | the path, its sectors, hooks, segments | reverse, cut into sectors, choose where to wait, cut into segments |
| Instruction heaps | `queue/deconf_pqueue.cpp` | the pending and the completed heap | push with replacement at capacity, pop |
| Deconfliction loop | `deconf/deconf_main.c` | the route in hand, `try_count`, the retry index | lay each pending route on the grid, with retries, or send it back |
| Deconfliction algorithm, grid | `deconf/deconf_algo.c`, `initialization.c` | reserved slots per sector, intervals | find waits, mark slots, shift by a quarter |
| Schedule creation, sending | `send/send_main.c`, `io/io_send_instructions.cpp` | the packages of a batch | start slot, convert, send as a goal, publish `route_done` on success |
| Startup, shutdown | `main.c`, `io/rover_action_client.cpp` | spin threads | signal handler, joins |
| Driver | `haphazard.cpp` | `holding_`, a thread per goal | wait and drive segment by segment |

### 1.2 How they interact

    shim --add_request--> service thread --push--> request queue
                                                     ^     | pop, one per round
                                                retry|     v
                     main loop:  process_requests -> planner -> pending heap
                                 every 10th tick:    deconf_main -> completed heap
                                                     send_instructions --goal-->  haphazard
    shim <--route_done-- action client's thread <--------------result------------ haphazard

Three threads of the server share memory: the service's (pushes), the main loop
(pops; pushes retries; does everything else), the action clients' (publish).
Only the request queue is locked.  Everything the main loop owns alone is
sequential, and hard for another reason: long loops with counters moved in
several places, indices made stale by removals, and due dates tested against
snapshots taken before minutes of planning.  Across processes only `route_done`
makes a shim ask again, so a request lost anywhere leaves its rover where it is.

### 1.3 What is hard, and what correctness means

* **Request queue** - tests outside the lock, writes under the read lock.  It is
  correct when no update is lost, no slot is read before it is written, the
  overrun is bounded and the order is the order of arrival.
* **Deconfliction loop** - two nested loops.  It must end, answer every route it
  pops, keep a slot in the completed heap for each, and survive a failure.
* **Objectives** - a search whose index is not rebuilt by removals, counts that
  are decremented and never incremented.  An objective must be in one tree, an
  assigned one must not be assigned again, a first failure must lose none, and what
  the search passes by must not grow beyond what the counts miss.
* **Main loop** - overruns, blocking work, a shift that runs late and moves rows by
  the wrong number of bytes.  A signal must stop the rounds, a slot must stay near
  the time it was reserved for, and its mark must stay with it.
* **The rover's cycle** - no request may be doubled or vanish, and the fleet must
  not come to rest.
* **Path to instructions** - three indices over one path.  What is driven must be
  what was planned, and waits must be where a rover may wait.
* **Deconfliction algorithm and grid** - reservations of two routes must not
  overlap; the search for a wait must end; a shift must move rows by their size.
* **Path search** - nodes live in one array that searches share, roll back and
  never clear, and the open list holds bare pointers into it.  No node in use may be
  overwritten, what is returned must be a whole free path, and a search must end
  and give up only when nothing is left.
* **Path storage, startup, shutdown** - a rover must not be given the pointers of a
  dead process; two threads spin nodes the main thread makes and drops, and are
  joined before rclcpp is shut down: a signal must end the process, and no thread may
  spin a node that is not there.
* **Driver** - goals run in detached threads that share one flag and one publisher.
  A goal must take the rover over from the hold before it.

`PROJECT.json` lists the hazards one by one, at their lines, with the properties
that cover each.

## 2. The modules

`MCx` instantiates `x` for TLC; `xProofs` holds its theorems.  Those of
ReservationGrid are in ScheduleBatchProofs, whose batches call it, and those of
RouteInstructions in GoalExecutionProofs, whose goals are made of its routes.

**RequestQueue** models `queue_management.c` one access to shared memory at a
time: the unlocked test, the lock, the store, the count and the unlock of a push
are five actions (`PushAdmit` or `PushRefuse`, `PushLock`, `PushStore`,
`PushCount`, `PushUnlock`), and likewise for a pop.  The writes of the popper are
done under the read lock, as in the code.  `accepted`, `served`, `refused` are
history.  **BoundedFifo** is what the queue promises: a FIFO of at most `Capacity`
that refuses only when full, and of which at most `Slack` requests may be put in
while it is: each overwrites what is a multiple of `Capacity` places ahead of it.
The ring implements it with `Slack` = number of pushers less one:
`ImplementsFifo == Fifo!Spec` under the mapping `AbstractQueue`.

**ScheduleBatch** models one batch: the heap, the loop of `deconf_main` and the
dispatch.  `deconf_standard` is the set of answers the loop tells apart; an action
is a branch of the loop after one answer (`FirstTryFits`, `FirstTryLacksBattery`,
`FirstTryRefused`, `FirstTryDelayed`, `RetryFits`, ...).  The pop order is open:
the comparison reads a priority that is never set.  After the loop all completed
routes are converted and freed (`Convert`) before the first is sent; one that
`RetriesOver` freed before (`Dangling`) may end the process there (`ConvertFreed`).

**Objectives** models one request of a rover without objective per action:
`NothingFound`, `RouteAccepted`, `RouteFails`, `RouteFailsAgain`.  A level is its
vector with the slots the kd-tree index was built over (`slots`) and its present
size (`live`), so that a search after a removal answers what the code's does: a
slot that moved, or NULL past the end.  `returned` is history: how often an objective
came back to a level, which the counts leave out.

**Dispatcher** models the main loop, its timer and the time base of the grid with
relative time: `left[j]` is how far job `j`'s due date is ahead of the clock, so
the states are finite and no clock is bounded.  `age` is how stale the snapshot
`now` is.  One reservation is watched through shifts: `slot` is its number by the
server's count, which a shift reduces by `ShiftSlots`, and `lag` is how far the rover
is behind the time that number stands for.  `marks` are the bytes of the grid that
its mark is in.  `ShiftRow` moves and clears them as `memmove` and `memset` do for a
row, with `IntSize` times too many bytes, so that a mark need not be where the number
says.  `GridOutlastsRounds` is the one relation of the
configured times that a property (`StartInGrid`) needs and that is not assumed of
them all: a grid outlasts the time to the latest shift.  `config.c` meets it with a
shift every 250 of 1000 seconds.

**ReservationGrid** models what ScheduleBatch leaves to a choice: the two arrays,
the deconfliction of a route sector by sector (`StartBusy`/`StartFree`, `Pass`,
`Block`, `LookOn` for a turn of the search for a wait, `Backtrack`, then
`PublishSector` sector by sector), its retries at later departures (`Fail`) and the
shift.  The arrays are flat memory, because a shift moves rows of booleans by four
times their length, and `booked` keeps the routes a slot was marked for where the
code keeps a Boolean.  Reads, writes and searches that leave the memory are actions
that end in `deconf = "crashed"` (`LookAway`, `PublishAway`).  `num_reservations`,
`sharesTail`, havens, hooks and the battery's allowance are a plan, an input.  The
assumption asks for an allowance that ends two rows before the array does: of
100000 rows of 1000 slots 1600 are sectors, so an allowance may be as long as 98398
grids, far more than any battery's.

**RoverCycle** composes the parts, abstracted to what they do to a request: shim,
service, queue (a sequence), planner (its verdicts), heap, batch (a fate per route),
goals, results. The order in which a batch passes its routes on is open. `Count` is
how many packages of a sequence are a rover's, of some flags. `lost` counts the
requests that end nowhere, `extra` the restarts of a shim and the calls by hand. It
assumes a process that survives (the crash of a batch is ScheduleBatch's business)
and one `haphazard` per rover, although every action client is given the same server
name.

**RouteInstructions** models the chain from a found path to a driven one:
`ReverseToPath`; the loop of `generate_reservationgraph`, a node per action
(`EnterSector`, `StayInSector`, then `GraphEnd`); that of
`generate_instructions_global` (`Instruct`, then `InstructEnd`), where `haven` says
whether the current sector has its hook; `Deconflict` (any waits);
`ConvertStart/Split/Pose/End`; and haphazard's `ExecuteSegment`, `BreakOff`,
`Arrive`.  `log` is history: the poses the rover was at, each with its waits there.
`Planned` says what these should be, pose by pose, from the hooks and their waits.

**PathSearch** models `proavo/*` over the map of `gridmap.cpp`: the array of nodes
(`pool`, whose slots keep what their last user left), its counter and rollbacks,
the open list with its count, the closed bins, the loop of `proavo_algo` (`Skip`,
`Arrived`, `Select`, `GiveUp`, then `Expand`, `DeadEnd`, `ExpandStarved` per
steering angle) and the Reeds-Shepp shot node by node (`Aim`, `ShootStep`,
`ShootTips`, `ShootStarved`, `ShootHome`).  Slopes and collisions are computed from
the heights as the code does.  Poses, motions, energies and curves are constants:
the search is the subject, not the trigonometry.  `expanded` and `starved` are history.

**PathStorage** models the stored file as a sequence of half records (an append may
be cut short), the loading of its oldest records and the answer to a request.
**ServerProcess** extends it with the process around: the places of `main`
(`stage`), both calls of `rclcpp::init`, the two nodes and spin threads, rounds of
the loop, which may also end in a crash (`RoundCrashes`) or never (`RoundHangs`), by
what the other modules find of the code they run, the joins, `system_cleanup`,
signals, kills and restarts. rclcpp is modelled from how it is used: its handler
runs main's and has a thread of its own shut the context down later (`Deferred`),
which is what ends the spin threads.

**GoalExecution** models the goals of `haphazard.cpp`, a thread each, and the flag
`holding_` they share.  Time is relative: `sleep[g]` counts down and a thread that
is awake is scheduled within `Jitter`.  It is needed because a hold that is asleep
sees nothing of a flag that is cleared and set again.  A turn of a hold is two steps:
`Hold` tests the flag, `Correct` publishes, whatever has become of the flag in
between.  `alone` is history: the last goal to come, while no other is executed;
`corrected` are the holds that published since a goal began.

## 3. The runs

Every property of a passing run is broken by a mutant, a definition of the same
module whose comment begins with "Mutant:".

| Run | Instance | Shows |
|---|---|---|
| `request_queue` | 2 pushers, one of them the popper; capacity 2; 5 pushes | overrun below the number of pushers, FIFO refinement, every store paid out |
| `schedule_batch` | 2 rovers, 2 ages, heaps of 2, 2 tries, 2 retries, 3 routes | the work is bounded, small plain batches answer everything, a scheduled route has room |
| `objectives` | 4 objectives in 2 levels, 2 origins, leaf of 2, blacklists of 1 | one tree each, a level that is searched has something and one that is passed by just as much as ever came back to it, an assigned objective stays out, the first failure loses nothing |
| `dispatcher` | 2 rows of 9 slots in 3 shifts, ints of 4 bytes, rounds of up to 2 periods, 1 missed tick allowed | lag and lead of a reservation bounded by the server's count, in the first row its mark goes with its number and is cleared only when past, starts inside the grid; an overrun, said to halt the loop, does not |
| `rover_cycle` | 2 rovers, queue of 4, 1 restart or call by hand | requests conserved, room in the heap, some rover drives again and again |
| `route_instructions` | every path of 2 to 5 nodes in 2 sectors, every choice of havens, waits -1 to 2 slots | the traversal is the path, hooks are havens, driven = planned |
| `reservation_grid` | 3 sectors of 8 slots, 3 plans, 3 starts, 3 routes, 2 retries, 4 shifts | whatever waits were put in, the sectors behind the walk are free when they are entered, and in order |
| `path_search` | 2 searches, 4 starts, 5 objectives, map of 4 x 3 with a wall and slopes, pool of 12 | the tree behind the open list stays intact, a result is a whole free path, havens are flat, a search ends and gives up only when all is explored |
| `server_process` | 2 routes, 4 half records, 1 loaded; any number of signals, kills, restarts | one late signal ends the process unless a round never ends, until then nodes are made in a context that is up and before they are spun, no package of a dead process but from a torn file |
| `goal_execution` | 3 goals of at most 1 segment, cancels, waits of 0 or 1 | a goal that no other overlaps is the only holder, and gets no more than one correction of each hold before it |
| `schedule_batch_survives` | | **violated**: a refusal at the last retry writes through NULL |
| `reservation_grid_apart` | no shift | **violated**: two routes hold one slot |

### 3.1 Why the bounds suffice

* *RequestQueue*: a capacity of 2 lets the ring wrap twice in five pushes, and two
  pushers reach the overrun.  The proofs cover every capacity and set of pushers.
* *ScheduleBatch*: a heap of 2 fills up with and without a route of the same
  rover; 2 tries end a batch after its first route because an iteration that goes
  through counts twice; 2 retries have a first and a last.
* *Objectives*: a leaf of 2 under a level of 3 makes the index have splits, which
  is where staleness matters; the rim is at distance zero of objective 3, where the
  score is infinite; a blacklist of 1 fills up.
* *Dispatcher*: 3 shifts of 3 slots cross the grid, and work of two periods is one
  more than may be missed, so overruns happen. Two rows and four bytes per int make
  a shift of one row reach through the whole of the other. The synchronization has
  the period of the shift to keep the states few; the properties do not depend on
  it.
* *RoverCycle*: a capacity of 4 is two requests per rover: the cycle alone never
  makes the queue refuse, a restart or a call by hand may.
* *RouteInstructions*: five nodes are enough to leave a sector and re-enter it, with
  a hook in each stretch; a wait of -1 is a hook never touched and of 0 one without
  a wait.
* *ReservationGrid*: three sectors let a route meet another one at its first, an
  inner and its last sector; four shifts by two slots move all eight slots out, so
  every searched interval is also one a shift has filled.  Plans share sectors in
  opposite directions and one of them comes back to a sector.  Three free rows
  follow, where a shift and a long reservation reach.  The gate of
  `MAX_ITER_DECONFLICT` turns is left out: 10000 is far from what one route makes
  here.  The violation run has no shift, so that what it shows is not its doing.
* *PathSearch*: the second search starts in what the first left.  Twelve slots run
  out in some searches and not in others; the list's array (6) is smaller than the
  pool, as 20000 is than 50000, so both limits are met.  Two of four headings share
  a bin, so a bin is closed for a pose never expanded.  Curves cross the wall, tip
  over half way or end the search.
* *ServerProcess*: four half records hold two whole ones, of which one is not loaded
  (`MaxPaths` 1), or up to three cut short, so records are misaligned.  Signals,
  kills and restarts are not bounded.
* *GoalExecution*: three goals are two that overlap and leave two holds to a third.
  A turn of a hold of 1, a publish_stop of 4 and a lateness of 1, before the
  publication and after the sleep, stand for 50 ms, 80 ms and less than 15 ms each; at
  1, 3, 1 `OneHolder` fails, so `CoastOutlastsHold` asks for no more than is needed.

### 3.2 Fairness

* *RequestQueue*: a thread inside an operation goes on (WF).  Lock acquisition and
  the pop's test are SF: the loop comes back at every tick and sleeps in `poll`
  between two pops, so the lock is free again and again.  Nobody is made to push.
* *Dispatcher*: WF on time or a step of the loop.  A signal need not come.
* *RoverCycle*: WF for the shim's steps, the service thread, the publisher and the
  main loop's popping, batching and sending; each is its own thread or its own
  branch of a round.  Nothing is assumed of odometry, restarts, calls by hand, or of
  a goal ending: `SomebodyDrives` holds also when a goal never ends.  It is about
  the fleet and not about each rover, because the order of the heap is undefined
  and a route may be left in it for ever.
* *PathSearch*: WF on the step of a search: one thread that calls nothing that blocks.
* *ServerProcess*: WF on the main thread (the timer expires), on rclcpp's and on
  each spin thread. It does not make a round end well: `RoundHangs` satisfies it
  too, and the main thread takes no step after it. Nobody has to signal, kill or
  start the process.
* *ScheduleBatch*, *ReservationGrid*, *GoalExecution*, *RouteInstructions*,
  *Objectives*: none, their properties are about safety.

### 3.3 Where code and text disagree

Two disagreements are runs that TLC finds violated, above; of three others a passing
run states what the code does instead (`OverrunHaltsNothing`, `FirstRowKept`,
`MissesByReturnsOnly`). The sentence each contradicts is in `PROJECT.json`. Others
were met on the way and are part of the models as the code has them:

*Requests, batches, objectives*

* `push_request` can exceed the capacity by one (`OverrunBound` is the bound; the
  service thread and the main loop both pass the test).
* `try_count` moves at both ends of an iteration, so `MAX_DECONF_TRIES` 10 is about
  five routes.
* The test `i == MAX_DECONF_RETRIES - 1` also holds after a *success* at the last
  retry: the route then has reservations and is sent back as well (fate "both"), and
  is freed while the completed heap holds it: `send_main.c:132` uses it and
  `send_main.c:134` frees it once more (`ConvertFreed`).
  Exhausted retries leave `i` at the limit and are not sent back.
* The blacklist is tested on the nearest objective and not on the one taken instead.
* A second failure from one origin returns before the objective is given back: it
  is in no level's tree, with nobody on its way to it.
* An overrun makes `handle_timer_events` answer false, which the loop ignores, against
  the comment and the message at `dispatcher.c:60`, which say it halts
  (`OverrunHaltsNothing`).
* `ROUTE_ASSIGNED` routes are never pushed on the pending heap.
* The request the repository's README shows has flag 1, for which there is no case.
* Requests that are pushed back carry `POWER_REQUEST` or `ROVER_NO_OBJECTIVE`
  (`request_handler.c:78,104,128`), which `process_requests` has no case for either
  (`requests_process.c:36`): they are popped and dropped (`Drop`), and counted as lost.
* The route popped after one whose battery failed in the first call, and the one
  popped at the last try, are neither dispatched nor sent back
  (`deconf_main.c:67,145`), against `send_main.c:93`.
* `remove_objective_from_tree` decrements the counts and nothing increments them
  when an objective comes back.  A level whose count is zero is skipped as empty with
  as many objectives in it as came back (`MissesByReturnsOnly`), and a total of zero
  is "No objectives available" (`route_planner.c:118`) with objectives in their trees.
  The ones passed by need not be the ones that failed: of three in one level, after
  one is accepted, one fails and that one is accepted, the third is never asked for.

*Time and the grid*

* A shift that comes late moves the slots by exactly a quarter of the grid and the
  time of slot 0 to the present, although slots are said to be "relative to grid
  (which starts at first_slot_wall_time)" (`send_main.c:143`); `LagBounded` and
  `LeadBounded` say how far that goes, by the server's count of the slots.
* A shift moves and clears four times the bytes of a row of booleans: each sector's
  shift also shifts and clears slots of the sectors after it, so that reservations
  of those are lost or too far to the left.  The count of slots and the marks part:
  only the first row, which no other row's turn reaches, keeps them together
  (`FirstRowKept`), and only there is a mark cleared when it is past
  (`OnlyPastIsForgotten`).
* The intervals a shift brings in are filled bytewise: 1000 becomes 0xE8E8E8E8,
  a negative length, and a search or a publication that comes there leaves the array.
* `publish_reservations` marks as many slots as the route has used so far, from an
  offset that accumulates too; and the sectors' waits run one index behind
  (`num_reservations[i]` is the time spent in the sector before).
* `has_safe_haven` has one element per position and is read with a sector's number
  (`deconf_algo.c:158`); its last element is never set.
* The way back measures the room for a wait from slot `cumulative_time` of the row
  and not from the departure (`deconf_algo.c:192`).
* The search for a wait goes on at whatever slot `g_intervals` holds, relative to the
  grid and not to the departure, which need not lie further on: it may go round for
  ever (`deconf_algo.c:173`), although a batch must not "block the rest of the
  program" (`send_main.c:94`), and then no signal ends the process
  (`SignalEndsProcess` leaves this case out by name).

*Paths*

* The last node of a path has no instruction: the rover is not told its goal pose.
* A hook may be the first node of the *next* sector, since the next sector begins
  after its first node was looked at (`HooksAreHavens` states what does hold).

* `heap_push` does not test the count against the array of the open list
  (`proavo_pqueue.cpp:12`).  The pool (50000) does not run out first (20000), so a
  long search writes past it: `pc = "overrun"`.  What the process does with the memory
  it wrote over is not modelled; ServerProcess has it crash or go on.
* `proavo_algo.c:172` clears the haven mark a slot was left with, `getRSShot`
  (`proavo_reedsshepp.cpp:75`) does not: nodes of a curve may be havens on a slope.
  `StepHavensAreFlat` is about the other nodes.
* The start is a haven whatever the ground is, and a rover that stands at its
  objective gets "no path" (`proavo_algo.c:146`).

*Process and storage*

* Packages are saved before `valid` is set, in another copy, so a stored path is
  never found; only the oldest 100 are loaded.  A torn append misaligns every record
  after it, and only such a record can be taken for a valid one.
* A signal that comes between or before the two calls of `rclcpp::init` has the second
  make the context anew: the server must be told twice to stop.
* If the timer cannot be made, `system_cleanup` waits for the clients' thread with
  the context up, until a signal comes; then main returns with the service's thread
  not joined, which ends the process.
* The service's node is dropped before its thread is joined: a thread that had not
  yet started would spin NULL.  It needs a thread that starts later than a signal
  after the start (`NodesAreThere`).

*Driver*

* A cancel is asked about executed goals only: a hold is ended by the next goal.  A
  segment under way is driven to its end, and a cancel after the last is not seen.
* A hold tests `holding_` before it computes its correction and publishes it without
  another look (`haphazard.cpp:194,199`): a goal that begins in between gets one
  command of the hold before it (`OneStrayCorrection`).
* Goals that overlap drive at once, and more than one may hold: the properties of
  `goal_execution` are about a goal that no other overlaps.

## 4. The proofs

All theorems hold for every value of the constants that satisfies the module's
`ASSUME` (finiteness of a set, positive capacities and periods, values that differ
from the "none" value).

* **RequestQueueProofs** - `QueueInv == TypeOK /\ LockInv /\ NoUnderflow`. `LockInv`
  ties the lock to the program counters: a thread is inside a body exactly when the
  lock says so, and only the popper reads. Without it neither exclusion nor
  `NoUnderflow` is inductive: `size` could be decremented between the popper's test
  and its take. From it follow `TypeCorrect`, `MutualExclusion`,
  `PopNeverUnderflows`; then `OverrunIsBounded` (size plus the pushers in flight
  stays below capacity plus pushers: only `PushAdmit` raises it, and only when size
  is below capacity), its corollary `SinglePusherRespectsCapacity`, and
  `CountsAlwaysBalance`. Exclusion, `NoUnderflow` and the balance of the counts are
  left to the proofs: no run repeats them. `QueueIsFifo` is the refinement: the
  initial state maps to the abstract one's, `PushStore` below the capacity to an
  enqueue and above it to an overwriting one, `PushRefuse` to a refusal, `PopCount`
  to a dequeue and every other step to a stutter. `RingInv` relates the two ends of
  the ring: counted from `front` or from `rear` the next free slot is the same, and
  between its take and its count the popper carries the oldest request.
* **ScheduleBatchProofs** - `BatchInv == TypeOK /\ CountInv /\ RoomInv`.  `RoomInv`:
  pending, completed and the route in hand together fit the capacity, since the
  batch began with at most that many and nothing arrives during it.  It gives
  `CompletedAlwaysHasRoom`.  `WorkInv` relates calls to tries (each try is worth at
  most `MaxRetries + 1` calls, the retry index counting those of the present one)
  and gives `WorkAlwaysBounded`.  `PlainInv` weighs what is left of a batch against the
  tries spent, two per route: a small batch is through before its tries are
  (`SmallPlainBatchAlwaysAnswered`).

  The module also holds the proof of ReservationGrid, the calls whose answers a batch
  takes as they come.  `WalkedIsAlwaysFree` rests on `GridInv`.  A wait put into a cell
  moves every later sector, so the sectors walked are free only if what is behind the
  cell is left alone: the way back leads to earlier cells (`CellsInv`), a wait is not
  negative when it is put in, and the walk goes on at that cell (`WaitInv`).  That a
  wait is not negative is where the shift comes in: what it leaves in `g_intervals`
  is so far below zero (`Smeared`) that every search that meets it leaves the array
  before it can be used as a wait (`SmearedIsAway`), and the run a route departs in was
  looked at first (`FirstRun`).  `LengthsInv` says that nothing else gets into the
  array, `CallInv` that a departure stays within the battery's allowance.  That the
  start slots are in the grid is assumed (`Starts`): it is the Dispatcher's
  `StartAlwaysInGrid`.
* **ObjectivesProofs** - `ObjInv`, whose core `TreeInv` says that a level's live
  slots hold distinct objectives of that level, that an objective is live or
  reserved and not both, and that a level counts what is live in it less what came
  back (`CountsLackReturns`). The lemmas are about the vector: what `Erase` and a
  push to the end keep (`EraseProperties`, `PushBackProperties`), and that whatever
  a stale index answers is live (`FoundIsLive`, `ChosenIsLive`). They give
  `ObjectivesTypeCorrect`, `ObjectivesInOneTree`, `MissesAlwaysByReturnsOnly` and
  `ServedStaysGone`. `LostAlwaysFailedBefore` takes `LostStep`: what a step reserves
  for good is served by it or had the origin on its blacklist already, and
  blacklists only grow.
* **DispatcherProofs** - `DispatcherInv == TypeOK /\ StaleInv /\ LagInv /\ RowInv`.
  `StaleInv` bounds how much earlier than a period after the last shift the next may
  run: due dates are set from the snapshot, so by the work of one round. `LagInv`
  adds that to a reservation's lag, since the next shift will. `RowInv` follows the
  mark of a slot in the first row through the turns of a shift: before the first it
  is where the number says, after it `ShiftSlots` further left or gone
  (`FirstRowShifts`), and the turns after that do not reach it (`LaterRowsShift`).
  They give `DispatcherTypeCorrect`, `LagAlwaysBounded`, `FirstRowAlwaysKept` and,
  for the step that clears a mark of the first row, `ForgottenIsPast`. `LatenessInv`
  is about the other direction: how late a snapshot can find a shift. An overrun
  skips a round, so its clause for the timer (`LateInv`) tells one expiration that
  is pending from more, and `LeadInv` adds what every shift so far came late. It
  gives `LeadAlwaysBounded`, and with `GridOutlastsRounds` `StartAlwaysInGrid`.
* **RoverCycleProofs** - `CycleInv == CycleTypes /\ EveryRequestAccountedFor`.  The
  account is its own strengthening once the types are there; the work is in the
  lemmas about `Count` (`CountOne`, `CountConcat`, `CountTail`, `WithProperties`,
  `BatchPartition`: a batch that sends some routes, sends back others and keeps the
  rest is a partition of the heap), and in one lemma per step that says what it moves
  from which place to which (`ShimKeeps`, `ServiceKeeps`, `GoalKeeps`, `PlanKeeps`,
  `BatchKeeps`, `SendKeeps`).  `RoomAlwaysForEveryRoute` is a consequence: with nothing
  extra a rover has at most one route or request, and the one being processed is not
  in the heap.
* **PathSearchProofs** - `PathInv`, of seven parts.  `Tree` is the core: the slots below
  `Limit` (the taken ones, less those of a curve being built) hold nodes that are steps
  of their parents, each parent in a lower slot, and the list and the node being
  expanded lie in them.  A rollback only cuts what is above, and a slot that is used
  again is above everything that refers to it.  `Shooting` says that the slots above
  `Limit` are the beginning of the curve; `Answer` says of a result what remains when
  the list is gone; `Frontier` follows every step of an expanded pose (of no use,
  visited, on the list, or still to come) and `RootFirst` keeps the start, which is no
  step, off the list once something was expanded.  They give `PathTypeOK`,
  `TreeStaysIntact`, `HavensOfStepsAreFlat` and `GivingUpIsExplored`.  `PathsAreSound`
  also needs the way back, a recursive function over the number of steps: that it is
  defined (`BackIs`) and that it reaches slot 0 (`WayBack`) follow from the least number
  of a set of naturals (`Least`), since parents lie lower.

* **ServerProcessProofs** - `ProcessInv /\ FileInv`.  `SignalInv` says that a late
  signal is never lost: as long as the context is up one is still on its way, so a
  main thread that waits for a spin thread will not wait in vain
  (`OneSignalIsEnough`).  `QuietInv` says that without a signal the context stays up
  and nodes are there before their threads (`NodesAlwaysThere`).  `StorageInv` says
  that whole records are never valid and that what was read from torn ones is only
  there when the file is torn, which a file stays (`TornStays`): `AlwaysPlansAfresh`.
* **GoalExecutionProofs** - `GoalInv == TypeOK /\ SleepInv /\ LoneInv`.  `SleepInv`
  bounds how late a thread is; `LoneInv` follows a goal that nobody overlaps: since
  it began the flag is clear, so a hold publishes what it was about to and starts no
  other turn, and when the goal has slept through publish_stop every hold has been
  scheduled for its correction, slept for a period, been scheduled again and ended.
  This is where `CoastOutlastsHold` is used.  It gives `LastGoalTakesOver` and
  `OneStrayAtMost`.  The types are left to the proof (`GoalsTypeCorrect`): no run repeats
  them.

  The module also holds the proof of RouteInstructions, for the goal that is driven.
  `RouteInv` says after each node what the loops have made of the nodes before it:
  `Traverses`, that the stretches between two starts lie in their sectors; and
  `HooksBefore`, that a hook is the first safe node of the stretch it may lie in, from
  the second node of its sector (`From`) to the first of the next (`Upto`).  These
  stretches do not overlap (`Stretches`), which is why two hooks are never on one
  node although the sectors of the path may come back.  `haven` must be known exactly
  while its sector is the current one.  `SectorsAlwaysFollowPath` and
  `HooksAreAlwaysHavens` follow.

  `PlanInv` goes on where `RouteInv` ends.  While the converter works (`AtWork`,
  `IsCut`) each segment is a stretch of the path (`Stretch`) that begins at the pose
  the one before ends with, no pose inside is waited at, the wait after it is that of
  the hook on its last pose, and the hooks that are used are either behind the
  segment under way or not before the node the loop is at; the order of the hooks,
  which `RouteInv` gives, is what makes this inductive.  A finished goal (`IsGoal`)
  has one wait per segment.  While haphazard drives (`IsDone`), every pose before the
  one it is at has had exactly its planned waits, and this one all but the wait the
  next segment begins with.  `DrivenAlwaysAsPlanned` follows.

Checked by TLC only: everything temporal beyond `[]` (liveness under fairness:
`SignalEndsProcess`, `SearchEnds`, `SomebodyDrives`, `OverrunHaltsNothing`,
`EveryStoreIsPaidOut`, and the fairness of `ImplementsFifo`).  Every invariant of the
passing runs is stated by a theorem.

## 5. What is not modelled

* *Geometry*: heuristics, Reeds-Shepp formulas, the physics of the battery, the speed
  and heading of the driver.  PathSearch takes their results as constants, the
  planner's verdict is a choice in Objectives and RoverCycle.
* *Power stations*: the tree is never changed after it was loaded, and the loop around
  the temporary blacklist ends at its first turn: the station chosen around the
  blacklist is overwritten with the nearest (`find_power_route.c:18`).  The answer
  is always the nearest station, and there is no state to follow.
* *The gate of `MAX_ITER_DECONFLICT` turns*, `num_reservations` and `sharesTail` (inputs
  of ReservationGrid), the release of the queues' memory.
* *Configuration and stubs*: parsing and empty functions.  *Files not in the build*
  (`timer_windows.c`, `nav_generateinstructions.c`, ...): never run.

## 6. Plan

Done: RequestQueue over BoundedFifo, ScheduleBatch, Objectives, Dispatcher,
ServerProcess over PathStorage, GoalExecution, PathSearch, RoverCycle, which
composes the parts, RouteInstructions and ReservationGrid, each with proofs.

Left: Objectives extended by the routes under way, so that an objective whose route
is sent back by a batch is followed (`deconf_main.c:65`).
