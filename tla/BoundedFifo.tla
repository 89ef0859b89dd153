---------------------------- MODULE BoundedFifo ----------------------------
(***************************************************************************)
(* What the request queue of the navigation server promises its callers:   *)
(* a first-in first-out buffer of at most Capacity requests that refuses a *)
(* request only when it is full.  Up to Slack requests more may be taken   *)
(* in, each at the expense of those a multiple of Capacity places ahead of *)
(* it: with a Slack of 0 the buffer loses nothing it has accepted.         *)
(***************************************************************************)
EXTENDS Integers, Sequences

CONSTANTS Capacity, Slack, Requests

VARIABLES
    queue,      \* the requests waiting, oldest first
    served,     \* the requests handed out, in the order they were handed out
    refused     \* the requests dropped because the buffer was full

vars == <<queue, served, refused>>

Init ==
    /\ queue = <<>>
    /\ served = <<>>
    /\ refused = {}

Enqueue(r) ==
    /\ Len(queue) < Capacity
    /\ queue' = Append(queue, r)
    /\ UNCHANGED <<served, refused>>

\* The slots are used up: r is stored in the slot of an older request, and will
\* be handed out in its place too.
Overwrite(r) ==
    /\ Len(queue) \in Capacity..(Capacity + Slack - 1)
    /\ queue' = Append([i \in DOMAIN queue |->
                           IF (Len(queue) + 1 - i) % Capacity = 0 THEN r
                           ELSE queue[i]], r)
    /\ UNCHANGED <<served, refused>>

Refuse(r) ==
    /\ Len(queue) >= Capacity
    /\ refused' = refused \cup {r}
    /\ UNCHANGED <<queue, served>>

Dequeue ==
    /\ queue # <<>>
    /\ served' = Append(served, Head(queue))
    /\ queue' = Tail(queue)
    /\ UNCHANGED refused

Next ==
    \/ \E r \in Requests : Enqueue(r) \/ Overwrite(r) \/ Refuse(r)
    \/ Dequeue

\* What the buffer may do, and that it is emptied.
Safety == Init /\ [][Next]_vars

Spec == Safety /\ WF_vars(Dequeue)
=============================================================================
