--------------------------- MODULE RequestQueue ---------------------------
(***************************************************************************)
(* The queue of rover requests, src/queue_management.c: a ring buffer      *)
(* filled by the thread that spins the add_request service and by the main *)
(* loop (which pushes a request back when its route failed), and emptied   *)
(* by the main loop alone.                                                 *)
(*                                                                         *)
(* push_request tests the size before it takes the write lock, and         *)
(* pop_next_request tests it before it takes the lock in READ mode and     *)
(* then moves front and size.  Every access to shared state outside the    *)
(* lock is therefore a step of its own here, and so is every assignment    *)
(* another thread can see half-way through: size is read without the lock. *)
(*                                                                         *)
(* A request is a number, given out in the order in which the pushes       *)
(* begin.  accepted, served and refused are history variables: they record *)
(* what the buffer was given and what it gave back.                        *)
(***************************************************************************)
EXTENDS Integers, Sequences, FiniteSets

CONSTANTS
    Pushers,        \* the threads that call push_request
    Popper,         \* the thread that calls pop_next_request (the main loop)
    Capacity,       \* 100 in system_initialization
    MaxRequests,    \* bound on the pushes of one behaviour
    NoRequest       \* what a slot and a local variable hold before any request

Requests == 1..MaxRequests
Threads == Pushers \cup {Popper}
Slots == 0..(Capacity - 1)

ASSUME QueueAssumption ==
    /\ IsFiniteSet(Pushers) /\ Pushers # {}
    /\ Capacity \in Nat \ {0}
    /\ MaxRequests \in Nat
    /\ NoRequest \notin Requests

VARIABLES
    requests,   \* the slots of the ring
    front,      \* the slot of the oldest request
    rear,       \* the slot of the newest request, -1 at first
    size,       \* the number of requests waiting
    rwlock,     \* the pthread_rwlock: who writes, who reads
    pc,         \* how far each thread is in push_request or pop_next_request
    request,    \* the request each thread carries
    begun,      \* the number of pushes that have begun
    accepted,   \* history: the requests stored, in order
    served,     \* history: the requests popped, in order
    refused     \* history: the requests dropped at the size test

ring == <<requests, front, rear>>
history == <<accepted, served, refused>>
vars == <<requests, front, rear, size, rwlock, pc, request, begun,
          accepted, served, refused>>

PushSteps == {"admitted", "writing", "stored", "counted"}
PopSteps == {"nonempty", "reading", "taken", "uncounted"}
InBody == {"writing", "stored", "counted", "reading", "taken", "uncounted"}

Goto(t, step) == pc' = [pc EXCEPT ![t] = step]

-----------------------------------------------------------------------------
(* init_request_queue *)

Init ==
    /\ requests = [s \in Slots |-> NoRequest]
    /\ front = 0
    /\ rear = -1
    /\ size = 0
    /\ rwlock = [writer |-> {}, readers |-> {}]
    /\ pc = [t \in Threads |-> "idle"]
    /\ request = [t \in Threads |-> NoRequest]
    /\ begun = 0
    /\ accepted = <<>>
    /\ served = <<>>
    /\ refused = {}

-----------------------------------------------------------------------------
(* push_request *)

\* Mutant: the size test is off by one.
QueueFullOffByOne == size > Capacity

QueueFull == size >= Capacity

\* The caller has built its request; the unlocked size test lets it through ...
PushAdmit(t) ==
    /\ t \in Pushers /\ pc[t] = "idle"
    /\ begun < MaxRequests
    /\ ~QueueFull
    /\ begun' = begun + 1
    /\ request' = [request EXCEPT ![t] = begun + 1]
    /\ Goto(t, "admitted")
    /\ UNCHANGED <<ring, size, rwlock, history>>

\* ... or makes push_request return without a word to its caller.
PushRefuse(t) ==
    /\ t \in Pushers /\ pc[t] = "idle"
    /\ begun < MaxRequests
    /\ QueueFull
    /\ begun' = begun + 1
    /\ refused' = refused \cup {begun + 1}
    /\ UNCHANGED <<ring, size, rwlock, pc, request, accepted, served>>

PushLock(t) ==
    /\ pc[t] = "admitted"
    /\ rwlock.writer = {} /\ rwlock.readers = {}
    /\ rwlock' = [rwlock EXCEPT !.writer = {t}]
    /\ Goto(t, "writing")
    /\ UNCHANGED <<ring, size, request, begun, history>>

PushStore(t) ==
    /\ pc[t] = "writing"
    /\ rear' = (rear + 1) % Capacity
    /\ requests' = [requests EXCEPT ![rear'] = request[t]]
    /\ accepted' = Append(accepted, request[t])
    /\ Goto(t, "stored")
    /\ UNCHANGED <<front, size, rwlock, request, begun, served, refused>>

PushCount(t) ==
    /\ pc[t] = "stored"
    /\ size' = size + 1
    /\ Goto(t, "counted")
    /\ UNCHANGED <<ring, rwlock, request, begun, history>>

\* Mutant: push_request returns with the lock held.
PushKeepsLock(t) ==
    /\ pc[t] = "counted"
    /\ request' = [request EXCEPT ![t] = NoRequest]
    /\ Goto(t, "idle")
    /\ UNCHANGED <<ring, size, rwlock, begun, history>>

PushUnlock(t) ==
    /\ pc[t] = "counted"
    /\ rwlock' = [rwlock EXCEPT !.writer = @ \ {t}]
    /\ request' = [request EXCEPT ![t] = NoRequest]
    /\ Goto(t, "idle")
    /\ UNCHANGED <<ring, size, begun, history>>

-----------------------------------------------------------------------------
(* pop_next_request *)

\* process_requests and pop_next_request both leave an empty queue alone.
PopEmpty ==
    /\ pc[Popper] = "idle"
    /\ size = 0
    /\ UNCHANGED vars

\* Mutant: the emptiness test is missing.
PopUnchecked ==
    /\ pc[Popper] = "idle"
    /\ Goto(Popper, "nonempty")
    /\ UNCHANGED <<ring, size, rwlock, request, begun, history>>

PopCheck ==
    /\ pc[Popper] = "idle"
    /\ size # 0
    /\ Goto(Popper, "nonempty")
    /\ UNCHANGED <<ring, size, rwlock, request, begun, history>>

\* The lock is taken in read mode although front and size are written under it.
PopLock ==
    /\ pc[Popper] = "nonempty"
    /\ rwlock.writer = {}
    /\ rwlock' = [rwlock EXCEPT !.readers = @ \cup {Popper}]
    /\ Goto(Popper, "reading")
    /\ UNCHANGED <<ring, size, request, begun, history>>

PopTake ==
    /\ pc[Popper] = "reading"
    /\ request' = [request EXCEPT ![Popper] = requests[front]]
    /\ front' = (front + 1) % Capacity
    /\ Goto(Popper, "taken")
    /\ UNCHANGED <<requests, rear, size, rwlock, begun, history>>

PopCount ==
    /\ pc[Popper] = "taken"
    /\ size' = size - 1
    /\ served' = Append(served, request[Popper])
    /\ Goto(Popper, "uncounted")
    /\ UNCHANGED <<ring, rwlock, request, begun, accepted, refused>>

PopUnlock ==
    /\ pc[Popper] = "uncounted"
    /\ rwlock' = [rwlock EXCEPT !.readers = @ \ {Popper}]
    /\ request' = [request EXCEPT ![Popper] = NoRequest]
    /\ Goto(Popper, "idle")
    /\ UNCHANGED <<ring, size, begun, history>>

-----------------------------------------------------------------------------

Push(t) ==
    \/ PushAdmit(t)
    \/ PushRefuse(t)
    \/ PushLock(t)
    \/ PushStore(t)
    \/ PushCount(t)
    \/ PushUnlock(t)

Pop ==
    \/ PopEmpty
    \/ PopCheck
    \/ PopLock
    \/ PopTake
    \/ PopCount
    \/ PopUnlock

Next == Pop \/ \E t \in Pushers : Push(t)

\* A thread that has begun an operation is scheduled until it ends.  The main
\* loop comes back to process_requests at every tick, however often it pushes
\* in between, and it sleeps in poll between two pops, so that a writer that
\* waits for the lock gets it.
Fairness ==
    /\ SF_vars(PopCheck)
    /\ SF_vars(PopLock)
    /\ WF_vars(PopTake)
    /\ WF_vars(PopCount)
    /\ WF_vars(PopUnlock)
    /\ \A t \in Pushers :
          /\ SF_vars(PushLock(t))
          /\ WF_vars(PushStore(t))
          /\ WF_vars(PushCount(t))
          /\ WF_vars(PushUnlock(t))

Spec == Init /\ [][Next]_vars
FairSpec == Spec /\ Fairness
-----------------------------------------------------------------------------
(* Properties *)

\* Every variable has its type.  A size below zero, or a slot outside the ring,
\* would be a buffer overrun in the C code.
TypeOK ==
    /\ requests \in [Slots -> Requests \cup {NoRequest}]
    /\ front \in Slots
    /\ rear \in Slots \cup {-1}
    /\ size \in Nat
    /\ rwlock \in [writer : SUBSET Threads, readers : SUBSET Threads]
    /\ pc \in [Threads -> {"idle"} \cup PushSteps \cup PopSteps]
    /\ request \in [Threads -> Requests \cup {NoRequest}]
    /\ begun \in 0..MaxRequests
    /\ accepted \in Seq(Requests)
    /\ served \in Seq(Requests \cup {NoRequest})
    /\ refused \subseteq Requests

\* The pushers that passed the size test and have not been counted yet.
InFlight == {t \in Pushers : pc[t] \in {"admitted", "writing", "stored"}}

\* The size test outside the lock lets at most one request per other pusher
\* slip past the capacity: push_request never exceeds the capacity by more than
\* the number of pushing threads less one (0 for a single one).
OverrunBound == size + Cardinality(InFlight) < Capacity + Cardinality(Pushers)

\* No two threads are between a lock and its unlock at once.  pop_next_request
\* writes under the READ lock, so this rests on there being one popper.
BodyExclusive ==
    \A t, u \in Threads : pc[t] \in InBody /\ pc[u] \in InBody => t = u

\* The emptiness test of pop_next_request, made without the lock, is still true
\* when the lock is obtained and the front slot is taken.
NoUnderflow == pc[Popper] \in {"nonempty", "reading", "taken"} => size > 0

\* The distance from front to rear is the size, at every point of an operation
\* (and modulo the capacity even when an overrun made size exceed it).
StoredUncounted == Cardinality({t \in Pushers : pc[t] = "stored"})

\* As many requests are waiting as were stored and not handed out yet: neither
\* side of a push or a pop is lost to the other, whatever the interleaving.
CountsBalance == Len(accepted) = Len(served) + size + StoredUncounted

\* process_requests eventually hands out as many requests as were stored.
EveryStoreIsPaidOut ==
    \A n \in 1..MaxRequests : Len(accepted) >= n ~> Len(served) >= n

\* "Capacity of 100 requests", src/initialization.c: the queue never counts
\* more requests than it has slots.
CapacityRespected == size <= Capacity

-----------------------------------------------------------------------------
(* The queue implements a bounded FIFO, which the pushers past the first may  *)
(* overrun.  A push takes effect when its request is stored, a pop when size   *)
(* is decremented: in between, the popper has moved front past the request.    *)

AbstractQueue ==
    LET first == IF pc[Popper] = "taken" THEN front - 1 ELSE front
    IN  [i \in 1..(size + StoredUncounted) |->
            requests[(first + i - 1) % Capacity]]

Fifo == INSTANCE BoundedFifo
            WITH queue <- AbstractQueue, Slack <- Cardinality(Pushers) - 1

\* Requests are served in the order in which they were pushed; one is dropped
\* only when Capacity requests are waiting, and only as many as there are other
\* pushers may overwrite one another: with one pusher, none.
ImplementsFifo == Fifo!Spec
=============================================================================
