--------------------------- MODULE GoalExecution ---------------------------
(***************************************************************************)
(* The driver on the rover, PathSchedulePlanServer                         *)
(* (src/haphazard/haphazard.cpp): a detached thread per goal, all goals    *)
(* sharing one flag, holding_, and one publisher of commands.              *)
(*                                                                         *)
(* Time matters: a hold ends only if its thread looks at holding_ between  *)
(* a clearing and the next setting.  sleep[g] is how long the thread of g  *)
(* still sleeps, in an arbitrary unit; a thread that is awake, at zero or  *)
(* less, is scheduled within Jitter.                                       *)
(***************************************************************************)
EXTENDS Integers

CONSTANTS
    Goals,          \* goals, in any order of arrival
    MaxSegments,    \* bound: segments of a goal
    MaxDelay,       \* bound: delay until dispatch, wait at a segment
    Period,         \* 1 / ARC_RATE_HZ
    Coast,          \* STOP_COAST_S
    Jitter          \* how late a thread is scheduled

ASSUME GoalAssumption ==
    /\ MaxSegments \in Nat /\ MaxDelay \in Nat
    /\ Period \in Nat \ {0} /\ Coast \in Nat /\ Jitter \in Nat

\* publish_stop outlasts a turn of a hold (80 ms and 50 ms in the code), also when
\* the thread of the hold is scheduled late before its correction and after it.
ASSUME CoastOutlastsHold == Coast > Period + 2 * Jitter

VARIABLES
    pc,         \* per goal: where its thread is
    segment,    \* per goal: i, the segments it has begun
    length,     \* per goal: num_segments
    sleep,      \* per goal: how long its thread still sleeps
    canceling,  \* goals with a cancel accepted
    holding,    \* holding_
    alone,      \* the last goal to come, if no other was executed meanwhile
    corrected   \* the holds that published a correction since a goal began last

vars == <<pc, segment, length, sleep, canceling, holding, alone, corrected>>

Over == {"none", "canceled", "ended"}
Executing == {"begin", "next", "drive", "stop", "cancel"}

Holds == {"hold", "correct"}

\* The thread of g has not come to its hold.
Busy(g) == pc[g] \in Executing \cup {"succeeded"}

Active(g) == pc[g] \notin Over
Awake(g) == Active(g) /\ sleep[g] <= 0

Init ==
    /\ pc = [g \in Goals |-> "none"]
    /\ segment = [g \in Goals |-> 0]
    /\ length = [g \in Goals |-> 0]
    /\ sleep = [g \in Goals |-> 0]
    /\ canceling = {}
    /\ holding = FALSE
    /\ alone = {}
    /\ corrected = {}

\* The thread of g, awake, goes on at `to` after sleeping for d.
Step(g, from, to, d) ==
    /\ Awake(g) /\ pc[g] = from
    /\ pc' = [pc EXCEPT ![g] = to]
    /\ sleep' = [sleep EXCEPT ![g] = d]

-----------------------------------------------------------------------------
(* The executor's threads *)

\* handle_goal accepts every goal and handle_accepted makes its thread.
Accept(g) ==
    /\ pc[g] = "none"
    /\ pc' = [pc EXCEPT ![g] = "begin"]
    /\ sleep' = [sleep EXCEPT ![g] = 0]
    /\ length' \in {[length EXCEPT ![g] = n] : n \in 0..MaxSegments}
    /\ alone' = IF \E h \in Goals : Busy(h) THEN {} ELSE {g}
    /\ UNCHANGED <<segment, canceling, holding, corrected>>

\* handle_cancel: rclcpp asks it about goals that are executed, not about one that
\* has succeeded and holds.
Cancel(g) ==
    /\ pc[g] \in Executing /\ g \notin canceling
    /\ canceling' = canceling \cup {g}
    /\ holding' = FALSE
    /\ UNCHANGED <<pc, segment, length, sleep, alone, corrected>>

-----------------------------------------------------------------------------
(* execute *)

\* Mutant: a hold that goes on is not ended by the next goal.
BeginHeld(g) ==
    /\ \E d \in 0..MaxDelay : Step(g, "begin", "next", d)
    /\ corrected' = {}
    /\ UNCHANGED <<segment, length, canceling, holding, alone>>

\* holding_ is cleared, and the thread sleeps until the dispatch time.
Begin(g) ==
    /\ \E d \in 0..MaxDelay : Step(g, "begin", "next", d)
    /\ holding' = FALSE
    /\ corrected' = {}
    /\ UNCHANGED <<segment, length, canceling, alone>>

\* is_canceling is asked before each segment; publish_stop.
Cancelled(g) ==
    /\ g \in canceling /\ segment[g] < length[g]
    /\ Step(g, "next", "cancel", Coast)
    /\ UNCHANGED <<segment, length, canceling, holding, alone, corrected>>

ReportCancelled(g) ==
    /\ Step(g, "cancel", "canceled", 0)
    /\ UNCHANGED <<segment, length, canceling, holding, alone, corrected>>

\* The wait before the segment.
BeginSegment(g) ==
    /\ g \notin canceling /\ segment[g] < length[g]
    /\ \E d \in 0..MaxDelay : Step(g, "next", "drive", d)
    /\ segment' = [segment EXCEPT ![g] = @ + 1]
    /\ UNCHANGED <<length, canceling, holding, alone, corrected>>

\* A command towards the next waypoint.
Drive(g) ==
    /\ Step(g, "drive", "drive", Period)
    /\ UNCHANGED <<segment, length, canceling, holding, alone, corrected>>

\* The last waypoint is reached, and publish_stop; a segment without poses has no
\* stop.
EndSegment(g) ==
    /\ \E d \in {0, Coast} : Step(g, "drive", "next", d)
    /\ UNCHANGED <<segment, length, canceling, holding, alone, corrected>>

\* Mutant: the result is sent without stopping first.
FinishAtOnce(g) ==
    /\ segment[g] = length[g]
    /\ Step(g, "next", "stop", 0)
    /\ UNCHANGED <<segment, length, canceling, holding, alone, corrected>>

\* publish_stop after the last segment.  A cancel is not looked at any more.
Finish(g) ==
    /\ segment[g] = length[g]
    /\ Step(g, "next", "stop", Coast)
    /\ UNCHANGED <<segment, length, canceling, holding, alone, corrected>>

\* goal_handle->succeed: the result goes out.
Succeed(g) ==
    /\ Step(g, "stop", "succeeded", 0)
    /\ UNCHANGED <<segment, length, canceling, holding, alone, corrected>>

StartHold(g) ==
    /\ Step(g, "succeeded", "hold", 0)
    /\ holding' = TRUE
    /\ UNCHANGED <<segment, length, canceling, alone, corrected>>

\* holding_ is asked, and the correction computed from the heading.
Hold(g) ==
    /\ holding
    /\ Step(g, "hold", "correct", 0)
    /\ UNCHANGED <<segment, length, canceling, holding, alone, corrected>>

\* The correction is published, whatever has become of holding_ meanwhile, and the
\* thread sleeps for a turn.
Correct(g) ==
    /\ Step(g, "correct", "hold", Period)
    /\ corrected' = corrected \cup {g}
    /\ UNCHANGED <<segment, length, canceling, holding, alone>>

EndHold(g) ==
    /\ ~holding
    /\ Step(g, "hold", "ended", 0)
    /\ UNCHANGED <<segment, length, canceling, holding, alone, corrected>>

-----------------------------------------------------------------------------

TimePasses ==
    /\ \A g \in Goals : Active(g) => sleep[g] > -Jitter
    /\ sleep' = [g \in Goals |-> IF Active(g) THEN sleep[g] - 1 ELSE sleep[g]]
    /\ UNCHANGED <<pc, segment, length, canceling, holding, alone, corrected>>

Execute(g) ==
    \/ Begin(g) \/ Cancelled(g) \/ ReportCancelled(g) \/ BeginSegment(g)
    \/ Drive(g) \/ EndSegment(g) \/ Finish(g) \/ Succeed(g)
    \/ StartHold(g) \/ Hold(g) \/ Correct(g) \/ EndHold(g)

Next == TimePasses \/ \E g \in Goals : Accept(g) \/ Cancel(g) \/ Execute(g)

Spec == Init /\ [][Next]_vars

-----------------------------------------------------------------------------
(* Properties *)

\* The variables have their types; no goal begins more segments than it has.
TypeOK ==
    /\ pc \in [Goals -> Over \cup Executing \cup {"succeeded"} \cup Holds]
    /\ length \in [Goals -> 0..MaxSegments]
    /\ segment \in [Goals -> Nat] /\ \A g \in Goals : segment[g] <= length[g]
    /\ sleep \in [Goals -> Int]
    /\ canceling \subseteq Goals
    /\ holding \in BOOLEAN
    /\ alone \subseteq Goals
    /\ corrected \subseteq Goals

\* A goal that no other overlaps takes the rover over: when it reports its success
\* and holds, nobody else holds, however many holds goals that did overlap have left
\* behind.  The flag that ends them is cleared when it begins and set again when it
\* holds, and publish_stop between the two lasts longer than a turn of a hold.
OneHolder ==
    \A g \in alone : pc[g] \in {"succeeded"} \cup Holds =>
        \A h \in Goals \ {g} : pc[h] \notin Holds

\* A goal that no other overlaps is hardly disturbed: from its beginning on a hold of
\* an earlier goal publishes no more than one correction, the one it was about to
\* publish when holding_ was cleared between its test and its publication.
OneStrayCorrection ==
    [][\A g \in alone : pc[g] \in Executing \ {"begin"} =>
          \A h \in Goals \ {g} : Correct(h) => h \notin corrected]_vars
=============================================================================
