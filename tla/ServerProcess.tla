--------------------------- MODULE ServerProcess ---------------------------
(***************************************************************************)
(* The life of the server's process: main and the signal handler           *)
(* (src/main.c), the two spin threads and their nodes                      *)
(* (src/io/rover_action_client.cpp, src/io/ros2_service_wrapper.cpp),      *)
(* system_initialization and system_cleanup (src/initialization.c), and    *)
(* the stored paths, which are all that outlives the process.              *)
(*                                                                         *)
(* The main loop is Dispatcher's, of which a round is one request here,    *)
(* and the ways in which it may fail to end: what other modules find of    *)
(* the code it runs.                                                       *)
(* rclcpp is modelled from how it is used: rclcpp::init also installs a    *)
(* handler for signals that runs the one main installed and then has a     *)
(* thread of its own shut the context down.                                *)
(***************************************************************************)
EXTENDS PathStorage

VARIABLES
    stage,      \* where the main thread is
    running,    \* main's flag
    context,    \* the default context of rclcpp
    asked,      \* a signal waits for rclcpp's thread
    node,       \* per spin thread: is g_node, g_service_node set?
    spin,       \* per spin thread: how far it is
    early       \* has a signal come before the last rclcpp::init?

ros == <<context, asked, node, spin>>
vars == <<stage, running, ros, early, storage>>

Threads == {"clients", "service"}
Startup == {"start", "clients", "load", "service"}
Ended == {"exited", "crashed", "killed"}

Init ==
    /\ stage = "start"
    /\ running = TRUE
    /\ context = "none"
    /\ asked = FALSE
    /\ node = [t \in Threads |-> FALSE]
    /\ spin = [t \in Threads |-> "none"]
    /\ early = FALSE
    /\ StorageInit

Go(from, to) == stage = from /\ stage' = to

-----------------------------------------------------------------------------
(* Startup *)

\* if (!rclcpp::ok()) rclcpp::init(0, nullptr);
RclcppInit(from, to) ==
    /\ Go(from, to)
    /\ context' = "up"
    /\ UNCHANGED <<running, asked, node, spin, early, storage>>

InitClients == RclcppInit("start", "clients")

\* A node cannot be made in a context that was shut down: rclcpp throws, and
\* nothing catches it.
Refused(from) ==
    /\ Go(from, "crashed") /\ context # "up"
    /\ UNCHANGED <<running, ros, early, storage>>

ClientsRefused == Refused("clients")

\* The rovers' configuration cannot be read, and main returns 1.
ConfigFails ==
    /\ Go("clients", "exited") /\ context = "up"
    /\ node' = [node EXCEPT !["clients"] = TRUE]
    /\ UNCHANGED <<running, context, asked, spin, early, storage>>

\* Mutant: the thread is started before the node is made.
ServeFirst(t, from, to) ==
    /\ Go(from, to) /\ context = "up"
    /\ spin' = [spin EXCEPT ![t] = "starting"]
    /\ UNCHANGED <<running, context, asked, node, early, storage>>

\* The node is made, and the thread that is to spin it.
Serve(t, from, to) ==
    /\ Go(from, to) /\ context = "up"
    /\ node' = [node EXCEPT ![t] = TRUE]
    /\ spin' = [spin EXCEPT ![t] = "starting"]
    /\ UNCHANGED <<running, context, asked, early, storage>>

ServeClients == Serve("clients", "clients", "load")

LoadPaths ==
    /\ Go("load", "service")
    /\ Load
    /\ UNCHANGED <<running, ros, early>>

\* The context is found shut down, and made anew.
InitService == context # "up" /\ RclcppInit("service", "serve")

KeepContext ==
    /\ Go("service", "serve") /\ context = "up"
    /\ UNCHANGED <<running, ros, early, storage>>

ServiceRefused == Refused("serve")

ServeRequests == Serve("service", "serve", "timer")

CreateTimer ==
    /\ Go("timer", "loop")
    /\ UNCHANGED <<running, ros, early, storage>>

\* system_cleanup joins the clients' thread and frees what was loaded.
TimerFails ==
    /\ Go("timer", "cleanup")
    /\ UNCHANGED <<running, ros, early, storage>>

-----------------------------------------------------------------------------
(* The loop *)

\* Mutant: the flag is not looked at.
LoopForever ==
    /\ Go("loop", "poll")
    /\ UNCHANGED <<running, ros, early, storage>>

Loop ==
    /\ Go("loop", IF running THEN "poll" ELSE "dropService")
    /\ UNCHANGED <<running, ros, early, storage>>

\* The timer has expired.
Tick ==
    /\ Go("poll", "round")
    /\ UNCHANGED <<running, ros, early, storage>>

\* What the request handled in a round does to the stored paths.
Answered ==
    \/ UNCHANGED storage
    \/ \E r \in Routes :
          \/ ProvideStored(r)
          \/ ProvideNothing(r)
          \/ \E halves \in 0..2 : ProvideNew(r, halves)

Round ==
    /\ Go("round", "loop")
    /\ Answered
    /\ UNCHANGED <<running, ros, early>>

\* A write through a NULL pointer or past an array: by the last retry of a batch
\* (ScheduleBatch), by a start past the grid (Dispatcher), by a push on the open
\* list that is full (PathSearch).
RoundCrashes ==
    /\ Go("round", "crashed")
    /\ Answered
    /\ UNCHANGED <<running, ros, early>>

\* The search for a wait goes round for ever (deconf_algo.c): the main thread takes
\* no other step.
RoundHangs ==
    /\ Go("round", "hung")
    /\ Answered
    /\ UNCHANGED <<running, ros, early>>

-----------------------------------------------------------------------------
(* Shutdown *)

\* g_service_node is cleared before its thread is joined.
DropService ==
    /\ Go("dropService", "joinService")
    /\ node' = [node EXCEPT !["service"] = FALSE]
    /\ UNCHANGED <<running, context, asked, spin, early, storage>>

Join(t, from, to) ==
    /\ Go(from, to) /\ spin[t] = "done"
    /\ spin' = [spin EXCEPT ![t] = "none"]
    /\ UNCHANGED <<running, context, asked, node, early, storage>>

JoinService == Join("service", "joinService", "joinClients")

JoinClients == Join("clients", "joinClients", "dropClients")

DropClients ==
    /\ Go("dropClients", "shutdown")
    /\ node' = [node EXCEPT !["clients"] = FALSE]
    /\ UNCHANGED <<running, context, asked, spin, early, storage>>

RclcppShutdown ==
    /\ Go("shutdown", "exited")
    /\ context' = "down"
    /\ UNCHANGED <<running, asked, node, spin, early, storage>>

\* The rest of system_cleanup.  main returns with the service's thread not
\* joined: the destructor of a thread that can be joined ends the process.
Cleanup ==
    /\ Go("cleanup", "crashed") /\ spin["clients"] = "done"
    /\ node' = [node EXCEPT !["clients"] = FALSE]
    /\ spin' = [spin EXCEPT !["clients"] = "none"]
    /\ stored' = << >>
    /\ UNCHANGED <<running, context, asked, early, file, answer>>

-----------------------------------------------------------------------------
(* Signals, rclcpp's thread and the spin threads *)

\* Mutant: rclcpp's own handler is not installed.
SignalMainOnly ==
    /\ stage \notin Ended
    /\ running' = FALSE
    /\ early' = (early \/ stage \in Startup)
    /\ stage' \in IF stage = "poll" THEN {"poll", "dropService"} ELSE {stage}
    /\ UNCHANGED <<ros, storage>>

\* SIGINT or SIGTERM.  Taken by the main thread inside poll, it makes poll fail
\* and the loop break.  Before rclcpp::init there is only main's handler.
Signal ==
    /\ stage \notin Ended
    /\ running' = FALSE
    /\ asked' = (asked \/ context # "none")
    /\ early' = (early \/ stage \in Startup)
    /\ stage' \in IF stage = "poll" THEN {"poll", "dropService"} ELSE {stage}
    /\ UNCHANGED <<context, node, spin, storage>>

Deferred ==
    /\ stage \notin Ended /\ asked
    /\ asked' = FALSE
    /\ context' = "down"
    /\ UNCHANGED <<stage, running, node, spin, early, storage>>

\* rclcpp::spin(g_node): the variable is read by the new thread.
SpinStarts(t) ==
    /\ stage \notin Ended /\ spin[t] = "starting" /\ node[t]
    /\ spin' = [spin EXCEPT ![t] = "spinning"]
    /\ UNCHANGED <<stage, running, context, asked, node, early, storage>>

SpinFindsNoNode(t) ==
    /\ stage \notin Ended /\ spin[t] = "starting" /\ ~node[t]
    /\ stage' = "crashed"
    /\ UNCHANGED <<running, ros, early, storage>>

\* The executor spins until it finds the context shut down.
SpinEnds(t) ==
    /\ stage \notin Ended /\ spin[t] = "spinning" /\ context # "up"
    /\ spin' = [spin EXCEPT ![t] = "done"]
    /\ UNCHANGED <<stage, running, context, asked, node, early, storage>>

-----------------------------------------------------------------------------

\* Ended or killed, the server is started again: the file is what is left.
Restart ==
    /\ stage \in Ended
    /\ stage' = "start"
    /\ running' = TRUE
    /\ context' = "none"
    /\ asked' = FALSE
    /\ node' = [t \in Threads |-> FALSE]
    /\ spin' = [t \in Threads |-> "none"]
    /\ early' = FALSE
    /\ stored' = << >>
    /\ answer' = NoPackage
    /\ UNCHANGED file

\* The process is killed; an append it was at may be cut short.
Kill ==
    /\ stage \notin Ended
    /\ stage' = "killed"
    /\ \/ UNCHANGED storage
       \/ stage = "round" /\ \E r \in Routes, halves \in 0..1 : ProvideNew(r, halves)
    /\ UNCHANGED <<running, ros, early>>

Main ==
    \/ InitClients \/ ClientsRefused \/ ConfigFails \/ ServeClients \/ LoadPaths
    \/ InitService \/ KeepContext \/ ServiceRefused \/ ServeRequests
    \/ CreateTimer \/ TimerFails
    \/ Loop \/ Tick \/ Round \/ RoundCrashes \/ RoundHangs
    \/ DropService \/ JoinService \/ JoinClients \/ DropClients
    \/ RclcppShutdown \/ Cleanup

Spin(t) == SpinStarts(t) \/ SpinFindsNoNode(t) \/ SpinEnds(t)

Outside == Signal \/ Kill \/ Restart

Next == Main \/ Deferred \/ (\E t \in Threads : Spin(t)) \/ Outside

\* The threads of the process are scheduled and the timer expires.  A round need not
\* end well: it may crash, or hang, and then nothing but a kill ends the process.
\* Nobody has to send a signal, to kill the server or to start it again.
Spec ==
    /\ Init /\ [][Next]_vars
    /\ WF_vars(Main) /\ WF_vars(Deferred)
    /\ \A t \in Threads : WF_vars(Spin(t))

-----------------------------------------------------------------------------
(* Properties *)

Stages == Startup \cup Ended \cup
    {"serve", "timer", "loop", "poll", "round", "dropService", "joinService",
     "joinClients", "dropClients", "shutdown", "cleanup", "hung"}

\* The variables have their types.
TypeOK ==
    /\ stage \in Stages
    /\ running \in BOOLEAN /\ asked \in BOOLEAN /\ early \in BOOLEAN
    /\ context \in {"none", "up", "down"}
    /\ node \in [Threads -> BOOLEAN]
    /\ spin \in [Threads -> {"none", "starting", "spinning", "done"}]
    /\ StorageTypeOK

\* The main thread waits for a thread that will spin until another signal comes.
Stuck ==
    /\ ~asked /\ context = "up"
    /\ \/ stage = "joinService" /\ spin["service"] # "done"
       \/ stage = "joinClients" /\ spin["clients"] # "done"

\* The spin threads are joined before rclcpp is shut down, and end because the
\* signal that ended the loop has rclcpp shut down too.  A join waits in vain only
\* when that signal came before the last rclcpp::init: a server told to stop once it
\* serves, and whose loop has ended, does not need to be told twice.
StuckOnlyWhenEarly == Stuck => early

\* A signal that comes after the last rclcpp::init ends the process, whatever the
\* spin threads are doing, unless the main thread is caught in a round that never
\* ends: `running' is looked at between rounds only.
SignalEndsProcess ==
    (~running /\ ~early) ~> (stage \in Ended \cup {"hung"})

\* Until a signal comes, main finds the context up whenever it is to make a node,
\* and a thread that is to spin a node finds it made and not gone again.
NodesAreThere ==
    running =>
        /\ stage \in {"clients", "serve"} => context = "up"
        /\ stage \notin Ended =>
              \A t \in Threads : spin[t] = "starting" => node[t]
=============================================================================
