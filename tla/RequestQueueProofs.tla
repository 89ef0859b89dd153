------------------------ MODULE RequestQueueProofs ------------------------
(***************************************************************************)
(* What the request queue guarantees for every set of pushing threads and  *)
(* every capacity.  The lock and the two unlocked tests are tied together  *)
(* by QueueInv: TypeOK alone is not inductive (size stays a natural number *)
(* only because the emptiness test is still true at the decrement), and    *)
(* NoUnderflow alone is not either (no thread but the popper decrements).  *)
(***************************************************************************)
EXTENDS RequestQueue, FiniteSetTheorems, SequenceTheorems, TLAPS

\* Who holds the lock is visible in pc, only the popper pops, and a thread inside
\* push_request carries a request.
LockInv ==
    /\ \A t \in Threads :
          /\ t \in rwlock.writer <=> pc[t] \in {"writing", "stored", "counted"}
          /\ t \in rwlock.readers <=> pc[t] \in {"reading", "taken", "uncounted"}
          /\ pc[t] \in PopSteps => t = Popper
          /\ pc[t] \in PushSteps => t \in Pushers /\ request[t] \in Requests
    /\ BodyExclusive

QueueInv == TypeOK /\ LockInv /\ NoUnderflow

-----------------------------------------------------------------------------

LEMMA QueueInvInit == Init => QueueInv
<1> SUFFICES ASSUME Init PROVE QueueInv
  OBVIOUS
<1> USE QueueAssumption
<1>1. TypeOK
  BY DEF Init, TypeOK, Threads, Slots, Requests
<1>2. LockInv
  BY DEF Init, LockInv, BodyExclusive, InBody, PushSteps, PopSteps
<1>3. NoUnderflow
  BY DEF Init, NoUnderflow, Threads
<1> QED
  BY <1>1, <1>2, <1>3 DEF QueueInv

LEMMA TypeStep == QueueInv /\ [Next]_vars => TypeOK'
<1> SUFFICES ASSUME QueueInv, [Next]_vars PROVE TypeOK'
  OBVIOUS
<1> USE QueueAssumption DEF QueueInv, TypeOK, Goto, ring, history
<1>p. Popper \in Threads /\ Pushers \subseteq Threads
  BY DEF Threads
<1>1. ASSUME NEW t \in Pushers, PushAdmit(t) PROVE TypeOK'
  BY <1>1, <1>p DEF PushAdmit, PushSteps, Requests
<1>2. ASSUME NEW t \in Pushers, PushRefuse(t) PROVE TypeOK'
  BY <1>2, <1>p DEF PushRefuse, Requests
<1>3. ASSUME NEW t \in Pushers, PushLock(t) PROVE TypeOK'
  BY <1>3, <1>p DEF PushLock, PushSteps
<1>4. ASSUME NEW t \in Pushers, PushStore(t) PROVE TypeOK'
  <2>1. request[t] \in Requests
    BY <1>4, <1>p DEF PushStore, LockInv, PushSteps
  <2>2. rear' \in Slots
    BY <1>4 DEF PushStore, Slots
  <2>3. requests' \in [Slots -> Requests \cup {NoRequest}]
    BY <1>4, <2>1, <2>2 DEF PushStore
  <2>4. accepted' \in Seq(Requests)
    BY <1>4, <2>1 DEF PushStore
  <2> QED
    BY <1>4, <1>p, <2>2, <2>3, <2>4 DEF PushStore, PushSteps
<1>5. ASSUME NEW t \in Pushers, PushCount(t) PROVE TypeOK'
  BY <1>5, <1>p DEF PushCount, PushSteps
<1>6. ASSUME NEW t \in Pushers, PushUnlock(t) PROVE TypeOK'
  BY <1>6, <1>p DEF PushUnlock, PushSteps
<1>7. ASSUME PopEmpty PROVE TypeOK'
  BY <1>7 DEF PopEmpty, vars
<1>8. ASSUME PopCheck PROVE TypeOK'
  BY <1>8, <1>p DEF PopCheck, PopSteps
<1>9. ASSUME PopLock PROVE TypeOK'
  BY <1>9, <1>p DEF PopLock, PopSteps
<1>10. ASSUME PopTake PROVE TypeOK'
  BY <1>10, <1>p DEF PopTake, PopSteps, Slots
<1>11. ASSUME PopCount PROVE TypeOK'
  BY <1>11, <1>p DEF PopCount, PopSteps, NoUnderflow
<1>12. ASSUME PopUnlock PROVE TypeOK'
  BY <1>12, <1>p DEF PopUnlock, PopSteps
<1>13. ASSUME UNCHANGED vars PROVE TypeOK'
  BY <1>13 DEF vars
<1> QED
  BY <1>1, <1>2, <1>3, <1>4, <1>5, <1>6, <1>7, <1>8, <1>9, <1>10, <1>11,
     <1>12, <1>13 DEF Next, Push, Pop

LEMMA LockStep == QueueInv /\ [Next]_vars => LockInv'
<1> SUFFICES ASSUME QueueInv, [Next]_vars PROVE LockInv'
  OBVIOUS
<1> USE DEF QueueInv, TypeOK, LockInv, BodyExclusive, Goto, ring, history,
            PushSteps, PopSteps, InBody
<1>p. Popper \in Threads /\ Pushers \subseteq Threads
  BY DEF Threads
<1>1. ASSUME NEW t \in Pushers, PushAdmit(t) PROVE LockInv'
  BY <1>1, <1>p, QueueAssumption DEF PushAdmit, Requests
<1>2. ASSUME NEW t \in Pushers, PushRefuse(t) PROVE LockInv'
  BY <1>2 DEF PushRefuse
<1>3. ASSUME NEW t \in Pushers, PushLock(t) PROVE LockInv'
  BY <1>3, <1>p DEF PushLock
<1>4. ASSUME NEW t \in Pushers, PushStore(t) PROVE LockInv'
  BY <1>4, <1>p DEF PushStore
<1>5. ASSUME NEW t \in Pushers, PushCount(t) PROVE LockInv'
  BY <1>5, <1>p DEF PushCount
<1>6. ASSUME NEW t \in Pushers, PushUnlock(t) PROVE LockInv'
  BY <1>6, <1>p DEF PushUnlock
<1>7. ASSUME PopEmpty PROVE LockInv'
  BY <1>7 DEF PopEmpty, vars
<1>8. ASSUME PopCheck PROVE LockInv'
  BY <1>8, <1>p DEF PopCheck
<1>9. ASSUME PopLock PROVE LockInv'
  BY <1>9, <1>p DEF PopLock
<1>10. ASSUME PopTake PROVE LockInv'
  BY <1>10, <1>p DEF PopTake
<1>11. ASSUME PopCount PROVE LockInv'
  BY <1>11, <1>p DEF PopCount
<1>12. ASSUME PopUnlock PROVE LockInv'
  BY <1>12, <1>p DEF PopUnlock
<1>13. ASSUME UNCHANGED vars PROVE LockInv'
  BY <1>13 DEF vars
<1> QED
  BY <1>1, <1>2, <1>3, <1>4, <1>5, <1>6, <1>7, <1>8, <1>9, <1>10, <1>11,
     <1>12, <1>13 DEF Next, Push, Pop

LEMMA NoUnderflowStep == QueueInv /\ [Next]_vars => NoUnderflow'
<1> SUFFICES ASSUME QueueInv, [Next]_vars PROVE NoUnderflow'
  OBVIOUS
<1> USE DEF QueueInv, TypeOK, NoUnderflow, Goto, ring, history
<1>p. Popper \in Threads /\ Pushers \subseteq Threads
  BY DEF Threads
<1>1. ASSUME NEW t \in Pushers, Push(t) PROVE NoUnderflow'
  \* A push leaves size alone or increments it, and takes no thread to a pop step.
  BY <1>1, <1>p DEF Push, PushAdmit, PushRefuse, PushLock, PushStore, PushCount,
                    PushUnlock
<1>2. ASSUME Pop PROVE NoUnderflow'
  BY <1>2, <1>p DEF Pop, PopEmpty, PopCheck, PopLock, PopTake, PopCount,
                    PopUnlock, vars
<1>3. ASSUME UNCHANGED vars PROVE NoUnderflow'
  BY <1>3 DEF vars
<1> QED
  BY <1>1, <1>2, <1>3 DEF Next

\* The queue's state is well typed, at most one thread is inside a locked body,
\* and the unlocked emptiness test of pop_next_request is still true when the
\* front slot is taken: for every set of pushing threads.
THEOREM QueueInvariant == Spec => []QueueInv
<1>1. Init => QueueInv
  BY QueueInvInit
<1>2. QueueInv /\ [Next]_vars => QueueInv'
  BY TypeStep, LockStep, NoUnderflowStep DEF QueueInv
<1> QED
  BY <1>1, <1>2, PTL DEF Spec

\* Type correctness of the request queue (queue_management.c).
THEOREM TypeCorrect == Spec => []TypeOK
<1>1. QueueInv => TypeOK
  BY DEF QueueInv
<1> QED
  BY <1>1, QueueInvariant, PTL

\* pop_next_request writes front and size under the read lock, yet no other
\* thread is inside a locked body at that time.
THEOREM MutualExclusion == Spec => []BodyExclusive
<1>1. QueueInv => BodyExclusive
  BY DEF QueueInv, LockInv
<1> QED
  BY <1>1, QueueInvariant, PTL

\* The emptiness test made before the lock still holds under the lock.
THEOREM PopNeverUnderflows == Spec => []NoUnderflow
<1>1. QueueInv => NoUnderflow
  BY DEF QueueInv
<1> QED
  BY <1>1, QueueInvariant, PTL

-----------------------------------------------------------------------------
(* The bound on the overrun *)

LEMMA InFlightFinite == IsFiniteSet(InFlight) /\ Cardinality(InFlight) \in Nat
<1>1. InFlight \subseteq Pushers
  BY DEF InFlight
<1>2. IsFiniteSet(InFlight)
  BY <1>1, QueueAssumption, FS_Subset
<1> QED
  BY <1>2, FS_CardinalityType

LEMMA OverrunInit == Init => OverrunBound
<1> SUFFICES ASSUME Init PROVE OverrunBound
  OBVIOUS
<1>1. InFlight = {}
  BY DEF Init, InFlight, Threads
<1>2. Cardinality(InFlight) = 0
  BY <1>1, FS_EmptySet
<1>3. Cardinality(Pushers) \in Nat
  BY QueueAssumption, FS_CardinalityType
<1> QED
  BY <1>2, <1>3, QueueAssumption DEF Init, OverrunBound

LEMMA OverrunStep == QueueInv /\ OverrunBound /\ [Next]_vars => OverrunBound'
<1> SUFFICES ASSUME QueueInv, OverrunBound, [Next]_vars PROVE OverrunBound'
  OBVIOUS
<1> USE QueueAssumption DEF OverrunBound
<1>c. Capacity \in Nat /\ size \in Nat /\ Cardinality(Pushers) \in Nat
  BY FS_CardinalityType DEF QueueInv, TypeOK
<1>t. pc \in [Threads -> {"idle"} \cup PushSteps \cup PopSteps]
  BY DEF QueueInv, TypeOK
<1>p. Popper \in Threads /\ Pushers \subseteq Threads
  BY DEF Threads
<1>q. Cardinality(InFlight) \in Nat /\ IsFiniteSet(InFlight)
  BY InFlightFinite
\* A step that keeps the set in flight and does not increase size is harmless.
<1>same. ASSUME InFlight' = InFlight, size' \in Int, size' <= size
         PROVE  OverrunBound'
  BY <1>same, <1>c, <1>q
<1>1. ASSUME NEW t \in Pushers, PushAdmit(t) PROVE OverrunBound'
  <2>1. InFlight' \subseteq Pushers
    BY DEF InFlight
  <2>2. IsFiniteSet(InFlight') /\ Cardinality(InFlight') <= Cardinality(Pushers)
    BY <2>1, FS_Subset
  <2>3. Cardinality(InFlight') \in Nat
    BY <2>2, FS_CardinalityType
  <2>4. size' = size /\ size < Capacity
    BY <1>1, <1>c DEF PushAdmit, QueueFull
  <2> QED
    BY <2>2, <2>3, <2>4, <1>c
<1>2. ASSUME NEW t \in Pushers, PushRefuse(t) PROVE OverrunBound'
  BY <1>2, <1>same, <1>c DEF PushRefuse, InFlight
<1>3. ASSUME NEW t \in Pushers, PushLock(t) PROVE OverrunBound'
  <2>1. InFlight' = InFlight
    BY <1>3, <1>t, <1>p DEF PushLock, Goto, InFlight
  <2> QED
    BY <1>3, <2>1, <1>same, <1>c DEF PushLock
<1>4. ASSUME NEW t \in Pushers, PushStore(t) PROVE OverrunBound'
  <2>1. InFlight' = InFlight
    BY <1>4, <1>t, <1>p DEF PushStore, Goto, InFlight
  <2> QED
    BY <1>4, <2>1, <1>same, <1>c DEF PushStore
<1>5. ASSUME NEW t \in Pushers, PushCount(t) PROVE OverrunBound'
  <2>1. t \in InFlight
    BY <1>5 DEF PushCount, InFlight
  <2>2. InFlight' = InFlight \ {t}
    BY <1>5, <1>t, <1>p DEF PushCount, Goto, InFlight
  <2>3. Cardinality(InFlight') = Cardinality(InFlight) - 1
    BY <2>1, <2>2, <1>q, FS_RemoveElement
  <2>4. size' = size + 1
    BY <1>5 DEF PushCount
  <2> QED
    BY <2>3, <2>4, <1>c, <1>q
<1>6. ASSUME NEW t \in Pushers, PushUnlock(t) PROVE OverrunBound'
  <2>1. InFlight' = InFlight
    BY <1>6, <1>t, <1>p DEF PushUnlock, Goto, InFlight
  <2> QED
    BY <1>6, <2>1, <1>same, <1>c DEF PushUnlock
<1>7. ASSUME Pop PROVE OverrunBound'
  \* The popper leaves and enters no push step, and only decrements.
  <2>1. InFlight' = InFlight
    BY <1>7, <1>t, <1>p DEF Pop, PopEmpty, PopCheck, PopLock, PopTake, PopCount,
                            PopUnlock, Goto, InFlight, vars
  <2>2. size' \in Int /\ size' <= size
    BY <1>7, <1>c DEF Pop, PopEmpty, PopCheck, PopLock, PopTake, PopCount,
                      PopUnlock, vars
  <2> QED
    BY <2>1, <2>2, <1>same
<1>8. ASSUME UNCHANGED vars PROVE OverrunBound'
  BY <1>8, <1>same, <1>c DEF vars, InFlight
<1> QED
  BY <1>1, <1>2, <1>3, <1>4, <1>5, <1>6, <1>7, <1>8 DEF Next, Push

\* However the pushing threads interleave between the size test of push_request
\* and the lock, size exceeds the capacity by less than their number.
THEOREM OverrunIsBounded == Spec => []OverrunBound
<1>1. Init => OverrunBound
  BY OverrunInit
<1>2. QueueInv /\ OverrunBound /\ [Next]_vars => OverrunBound'
  BY OverrunStep
<1> QED
  BY <1>1, <1>2, QueueInvariant, PTL DEF Spec

\* With a single pushing thread the ring is never overrun: "Capacity of 100
\* requests" is then what the queue really holds.
THEOREM SinglePusherRespectsCapacity ==
    ASSUME Cardinality(Pushers) = 1
    PROVE  Spec => []CapacityRespected
<1>1. QueueInv /\ OverrunBound => CapacityRespected
  <2> SUFFICES ASSUME QueueInv, OverrunBound PROVE CapacityRespected
    OBVIOUS
  <2>1. size \in Nat /\ Cardinality(InFlight) \in Nat
    BY InFlightFinite DEF QueueInv, TypeOK
  <2> QED
    BY <2>1, QueueAssumption DEF OverrunBound, CapacityRespected
<1> QED
  BY <1>1, QueueInvariant, OverrunIsBounded, PTL

-----------------------------------------------------------------------------
(* Nothing is counted twice or not at all *)

StoredSet == {t \in Pushers : pc[t] = "stored"}

LEMMA StoredFinite == IsFiniteSet(StoredSet) /\ Cardinality(StoredSet) \in Nat
<1>1. StoredSet \subseteq Pushers
  BY DEF StoredSet
<1>2. IsFiniteSet(StoredSet)
  BY <1>1, QueueAssumption, FS_Subset
<1> QED
  BY <1>2, FS_CardinalityType

LEMMA BalanceInit == Init => CountsBalance
<1> SUFFICES ASSUME Init PROVE CountsBalance
  OBVIOUS
<1>1. StoredSet = {}
  BY DEF Init, StoredSet, Threads
<1>2. Cardinality(StoredSet) = 0
  BY <1>1, FS_EmptySet
<1> QED
  BY <1>2 DEF Init, CountsBalance, StoredUncounted, StoredSet

LEMMA BalanceStep == QueueInv /\ CountsBalance /\ [Next]_vars => CountsBalance'
<1> SUFFICES ASSUME QueueInv, CountsBalance, [Next]_vars PROVE CountsBalance'
  OBVIOUS
<1>c. size \in Nat /\ Len(accepted) \in Nat /\ Len(served) \in Nat
  BY DEF QueueInv, TypeOK
<1>t. pc \in [Threads -> {"idle"} \cup PushSteps \cup PopSteps]
  BY DEF QueueInv, TypeOK
<1>p. Popper \in Threads /\ Pushers \subseteq Threads
  BY DEF Threads
<1>s. IsFiniteSet(StoredSet) /\ Cardinality(StoredSet) \in Nat
  BY StoredFinite
<1>b. Len(accepted) = Len(served) + size + Cardinality(StoredSet)
  BY DEF CountsBalance, StoredUncounted, StoredSet
<1>same. ASSUME StoredSet' = StoredSet,
                UNCHANGED <<size, accepted, served>>
         PROVE  CountsBalance'
  BY <1>same, <1>b DEF CountsBalance, StoredUncounted, StoredSet
<1>1. ASSUME NEW t \in Pushers,
             PushAdmit(t) \/ PushRefuse(t) \/ PushLock(t) \/ PushUnlock(t)
      PROVE  CountsBalance'
  <2>1. StoredSet' = StoredSet
    BY <1>1, <1>t, <1>p DEF PushAdmit, PushRefuse, PushLock, PushUnlock, Goto,
                            StoredSet
  <2>2. UNCHANGED <<size, accepted, served>>
    BY <1>1 DEF PushAdmit, PushRefuse, PushLock, PushUnlock, history
  <2> QED
    BY <2>1, <2>2, <1>same
<1>2. ASSUME NEW t \in Pushers, PushStore(t) PROVE CountsBalance'
  <2>1. t \notin StoredSet /\ StoredSet' = StoredSet \cup {t}
    BY <1>2, <1>t, <1>p DEF PushStore, Goto, StoredSet
  <2>2. Cardinality(StoredSet') = Cardinality(StoredSet) + 1
    BY <2>1, <1>s, FS_AddElement
  <2>3. request[t] \in Requests /\ accepted \in Seq(Requests)
    BY <1>2, <1>p DEF PushStore, QueueInv, TypeOK, LockInv, PushSteps
  <2>4. Len(accepted') = Len(accepted) + 1
    BY <1>2, <2>3 DEF PushStore
  <2>5. size' = size /\ served' = served
    BY <1>2 DEF PushStore
  <2> QED
    BY <2>2, <2>4, <2>5, <1>b, <1>c, <1>s
    DEF CountsBalance, StoredUncounted, StoredSet
<1>3. ASSUME NEW t \in Pushers, PushCount(t) PROVE CountsBalance'
  <2>1. t \in StoredSet /\ StoredSet' = StoredSet \ {t}
    BY <1>3, <1>t, <1>p DEF PushCount, Goto, StoredSet
  <2>2. Cardinality(StoredSet') = Cardinality(StoredSet) - 1
    BY <2>1, <1>s, FS_RemoveElement
  <2>3. size' = size + 1 /\ served' = served /\ accepted' = accepted
    BY <1>3 DEF PushCount, history
  <2> QED
    BY <2>2, <2>3, <1>b, <1>c, <1>s
    DEF CountsBalance, StoredUncounted, StoredSet
<1>4. ASSUME PopCheck \/ PopLock \/ PopTake \/ PopUnlock PROVE CountsBalance'
  <2>1. StoredSet' = StoredSet
    BY <1>4, <1>t, <1>p DEF PopCheck, PopLock, PopTake, PopUnlock, Goto, StoredSet
  <2>2. UNCHANGED <<size, accepted, served>>
    BY <1>4 DEF PopCheck, PopLock, PopTake, PopUnlock, history
  <2> QED
    BY <2>1, <2>2, <1>same
<1>5. ASSUME PopCount PROVE CountsBalance'
  <2>1. StoredSet' = StoredSet
    BY <1>5, <1>t, <1>p DEF PopCount, Goto, StoredSet
  <2>2. Len(served') = Len(served) + 1
    BY <1>5, <1>p DEF PopCount, QueueInv, TypeOK
  <2>3. size' = size - 1 /\ accepted' = accepted
    BY <1>5 DEF PopCount
  <2>4. Cardinality(StoredSet') = Cardinality(StoredSet)
    BY <2>1
  <2>5. Len(accepted') = Len(served') + size' + Cardinality(StoredSet')
    BY <2>2, <2>3, <2>4, <1>b, <1>c, <1>s
  <2> QED
    BY <2>5 DEF CountsBalance, StoredUncounted, StoredSet
<1>6. ASSUME PopEmpty \/ UNCHANGED vars PROVE CountsBalance'
  BY <1>6, <1>same DEF PopEmpty, vars, StoredSet
<1> QED
  BY <1>1, <1>2, <1>3, <1>4, <1>5, <1>6 DEF Next, Push, Pop

\* In every interleaving, the requests stored are those handed out, those size
\* counts and those a pusher is about to count.
THEOREM CountsAlwaysBalance == Spec => []CountsBalance
<1>1. Init => CountsBalance
  BY BalanceInit
<1>2. QueueInv /\ CountsBalance /\ [Next]_vars => CountsBalance'
  BY BalanceStep
<1> QED
  BY <1>1, <1>2, QueueInvariant, PTL DEF Spec

-----------------------------------------------------------------------------
(* Remainders, for the slots of the ring *)

LEMMA ModRange ==
    ASSUME NEW N \in Nat \ {0}, NEW x \in Int
    PROVE  /\ x % N \in 0..(N - 1) /\ x \div N \in Int
           /\ x = N * (x \div N) + (x % N)
<1>1. x % N \in 0..(N - 1) /\ x \div N \in Int
  BY SMT
<1>2. x = N * (x \div N) + (x % N)
  BY SMT
<1> QED
  BY <1>1, <1>2

LEMMA ModUnique ==
    ASSUME NEW N \in Nat \ {0}, NEW q \in Int, NEW r \in 0..(N - 1)
    PROVE  (N * q + r) % N = r
  BY SMT

LEMMA ModShift ==
    ASSUME NEW N \in Nat \ {0}, NEW x \in Int, NEW k \in Int
    PROVE  (x + N * k) % N = x % N
<1> DEFINE q == x \div N
           r == x % N
<1>1. r \in 0..(N - 1) /\ q \in Int /\ x = N * q + r
  BY ModRange
<1> HIDE DEF q, r
<1>2. N * (q + k) = N * q + N * k /\ N * q \in Int /\ N * k \in Int
  BY <1>1, SMT
<1>3. x + N * k = N * (q + k) + r
  BY <1>1, <1>2
<1>4. (N * (q + k) + r) % N = r
  BY <1>1, ModUnique
<1> QED
  BY <1>3, <1>4 DEF r

LEMMA ModAdd ==
    ASSUME NEW N \in Nat \ {0}, NEW x \in Int, NEW y \in Int
    PROVE  ((x % N) + y) % N = (x + y) % N
<1> DEFINE q == x \div N
           r == x % N
<1>1. r \in 0..(N - 1) /\ q \in Int /\ x = N * q + r
  BY ModRange
<1> HIDE DEF q, r
<1>2. N * q \in Int
  BY <1>1, SMT
<1>3. x + y = (r + y) + N * q /\ r + y \in Int
  BY <1>1, <1>2
<1>4. ((r + y) + N * q) % N = (r + y) % N
  BY <1>1, <1>3, ModShift
<1> QED
  BY <1>3, <1>4 DEF r

LEMMA ModEqual ==
    ASSUME NEW N \in Nat \ {0}, NEW x \in Int, NEW y \in Int
    PROVE  x % N = y % N <=> (x - y) % N = 0
<1> DEFINE p == x \div N
           q == y \div N
<1>1. /\ p \in Int /\ q \in Int
      /\ x = N * p + (x % N) /\ y = N * q + (y % N)
      /\ x % N \in 0..(N - 1)  /\ y % N \in 0..(N - 1)
  BY ModRange
<1> HIDE DEF p, q
<1>2. N * p \in Int /\ N * q \in Int /\ N * (p - q) = N * p - N * q
  BY <1>1, SMT
<1>3. ASSUME x % N = y % N PROVE (x - y) % N = 0
  <2>1. x - y = N * (p - q) + 0
    BY <1>1, <1>2, <1>3
  <2>2. (N * (p - q) + 0) % N = 0
    BY <1>1, ModUnique
  <2> QED
    BY <2>1, <2>2
<1>4. ASSUME (x - y) % N = 0 PROVE x % N = y % N
  <2> DEFINE k == (x - y) \div N
  <2>1. k \in Int /\ x - y = N * k + 0
    BY <1>4, ModRange
  <2> HIDE DEF k
  <2>2. N * k \in Int
    BY <2>1, SMT
  <2>3. x = y + N * k
    BY <2>1, <2>2
  <2> QED
    BY <2>1, <2>3, ModShift
<1> QED
  BY <1>3, <1>4

LEMMA ModSmall ==
    ASSUME NEW N \in Nat \ {0}, NEW x \in 0..(N - 1)
    PROVE  x % N = x
  BY SMT

-----------------------------------------------------------------------------
(* The ring implements BoundedFifo *)

\* The slot, not yet wrapped, of the oldest request that has not been handed out,
\* and the number of requests waiting.
First == IF pc[Popper] = "taken" THEN front - 1 ELSE front
Waiting == size + StoredUncounted

\* The next request goes into the slot after the newest one, whichever of the two
\* sides that is counted from, and the popper carries the oldest request.
RingInv ==
    /\ (First + Waiting) % Capacity = (rear + 1) % Capacity
    /\ pc[Popper] = "taken" => request[Popper] = requests[First % Capacity]

LEMMA QueueShape ==
    /\ AbstractQueue = [i \in 1..Waiting |-> requests[(First + i - 1) % Capacity]]
    /\ AbstractQueue'
          = [i \in 1..Waiting' |-> requests'[(First' + i - 1) % Capacity]]
  BY DEF AbstractQueue, First, Waiting

\* Among threads, of which at most one is in a locked body, at most one has stored
\* a request it has not counted.
LEMMA StoredByOne ==
    ASSUME QueueInv, NEW t \in Threads, pc[t] \in InBody
    PROVE  StoredUncounted = IF pc[t] = "stored" THEN 1 ELSE 0
<1>1. \A u \in Pushers : pc[u] = "stored" => u = t
  BY DEF QueueInv, LockInv, BodyExclusive, InBody, Threads
<1>2. CASE pc[t] = "stored"
  <2>1. t \in Pushers
    BY <1>2 DEF QueueInv, LockInv, PushSteps
  <2>2. {u \in Pushers : pc[u] = "stored"} = {t}
    BY <1>1, <1>2, <2>1
  <2> QED
    BY <1>2, <2>2, FS_Singleton DEF StoredUncounted
<1>3. CASE pc[t] # "stored"
  <2>1. {u \in Pushers : pc[u] = "stored"} = {}
    BY <1>1, <1>3
  <2> QED
    BY <1>3, <2>1, FS_EmptySet DEF StoredUncounted
<1> QED
  BY <1>2, <1>3

\* Types of what the abstract queue is made of.
LEMMA QueueTypes ==
    ASSUME QueueInv
    PROVE  /\ Capacity \in Nat \ {0} /\ front \in Int /\ rear \in Int /\ size \in Nat
           /\ First \in Int /\ StoredUncounted \in Nat /\ Waiting \in Nat
           /\ \A x \in Int : requests[x % Capacity] \in Requests \cup {NoRequest}
           /\ AbstractQueue \in Seq(Requests \cup {NoRequest})
           /\ Len(AbstractQueue) = Waiting
<1>1. Capacity \in Nat \ {0} /\ front \in Int /\ rear \in Int /\ size \in Nat
  BY QueueAssumption DEF QueueInv, TypeOK, Slots
<1>2. StoredUncounted \in Nat
  BY StoredFinite DEF StoredUncounted, StoredSet
<1>3. First \in Int /\ Waiting \in Nat
  BY <1>1, <1>2 DEF First, Waiting
<1>4. \A x \in Int : requests[x % Capacity] \in Requests \cup {NoRequest}
  BY <1>1, ModRange DEF QueueInv, TypeOK, Slots
<1>5. AbstractQueue \in [1..Waiting -> Requests \cup {NoRequest}]
  BY <1>3, <1>4, QueueShape
<1> QED
  BY <1>1, <1>2, <1>3, <1>4, <1>5

LEMMA RingInit == Init => RingInv /\ Fifo!Init
<1> SUFFICES ASSUME Init PROVE RingInv /\ Fifo!Init
  OBVIOUS
<1>1. QueueInv
  BY QueueInvInit
<1>2. StoredSet = {}
  BY DEF Init, StoredSet, Threads
<1>3. StoredUncounted = 0
  BY <1>2, FS_EmptySet DEF StoredUncounted, StoredSet
<1>4. First = 0 /\ Waiting = 0 /\ rear = -1 /\ pc[Popper] = "idle"
  BY <1>3 DEF Init, First, Waiting, Threads
<1>5. RingInv
  BY <1>4 DEF RingInv
<1>6. AbstractQueue = <<>>
  BY <1>1, <1>4, QueueTypes, EmptySeq
<1> QED
  BY <1>5, <1>6 DEF Init, Fifo!Init

\* The steps in which the abstract queue sees nothing: those that only move the
\* lock or a local variable, the counting of a stored request, and the step in
\* which the popper takes the oldest request, which it hands out when it counts.
LEMMA QuietStep ==
    ASSUME QueueInv, RingInv, UNCHANGED <<requests, rear, served, refused>>,
           Waiting' = Waiting,
           \/ First' = First
           \/ First' \in Int /\ \A x \in Int :
                 (First' + x) % Capacity = (First + x) % Capacity
    PROVE  /\ UNCHANGED Fifo!vars
           /\ (First' + Waiting') % Capacity = (rear' + 1) % Capacity
<1> USE QueueTypes
<1>1. \A i \in 1..Waiting : First + (i - 1) = First + i - 1 /\ i - 1 \in Int
  OBVIOUS
<1>2. \A i \in 1..Waiting : (First' + i - 1) % Capacity = (First + i - 1) % Capacity
  <2>1. CASE First' = First
    BY <2>1
  <2>2. CASE /\ First' \in Int
             /\ \A x \in Int : (First' + x) % Capacity = (First + x) % Capacity
    <3>1. \A i \in 1..Waiting : First' + (i - 1) = First' + i - 1
      BY <2>2
    <3> QED
      BY <1>1, <2>2, <3>1
  <2> QED
    BY <2>1, <2>2
<1>3. AbstractQueue' = AbstractQueue
  BY <1>2, QueueShape
<1>4. (First' + Waiting') % Capacity = (rear' + 1) % Capacity
  BY DEF RingInv
<1> QED
  BY <1>3, <1>4 DEF Fifo!vars

\* A request is stored behind all that wait; when all slots are taken, in the place
\* of those a multiple of Capacity ahead.
LEMMA StoreStep ==
    ASSUME QueueInv, OverrunBound, RingInv, NEW t \in Pushers, PushStore(t)
    PROVE  RingInv' /\ Fifo!Next
<1> DEFINE C == Capacity
           r == request[t]
<1>0. t \in Threads /\ pc[t] = "writing" /\ pc[t] \in InBody
  BY DEF PushStore, Threads, InBody
<1>1. /\ C \in Nat \ {0} /\ size \in Nat /\ rear \in Int /\ front \in Int
      /\ requests \in [Slots -> Requests \cup {NoRequest}]
      /\ pc \in [Threads -> {"idle"} \cup PushSteps \cup PopSteps]
  BY QueueTypes DEF QueueInv, TypeOK
<1>2. r \in Requests
  BY <1>0 DEF QueueInv, LockInv, PushSteps
<1>3. StoredUncounted = 0 /\ Waiting = size
  BY <1>0, <1>1, StoredByOne DEF Waiting
<1>4. pc[Popper] # "taken" /\ pc'[Popper] # "taken" /\ First = front /\ First' = front
  <2>1. pc[Popper] # "taken"
    BY <1>0 DEF QueueInv, LockInv, BodyExclusive, InBody, Threads
  <2> QED
    BY <1>0, <1>1, <2>1 DEF PushStore, Goto, First, Threads
<1>5. StoredUncounted' = 1
  <2>1. StoredSet = {}
    BY <1>3, StoredFinite, FS_EmptySet DEF StoredUncounted, StoredSet
  <2>2. StoredSet' = StoredSet \cup {t}
    BY <1>0, <1>1 DEF PushStore, Goto, StoredSet, Threads
  <2> QED
    BY <2>1, <2>2, FS_Singleton DEF StoredUncounted, StoredSet
<1>6. Waiting' = size + 1 /\ size' = size
  BY <1>5 DEF Waiting, PushStore
<1>7. rear' = (front + size) % C
  BY <1>3, <1>4 DEF PushStore, RingInv
<1>8. /\ rear' \in Slots
      /\ requests' = [requests EXCEPT ![rear'] = r]
  BY <1>1, <1>7, ModRange DEF PushStore, Slots
<1> HIDE DEF C
<1>9. RingInv'
  <2>1. (rear' + 1) % C = (front + size + 1) % C
    <3>1. front + size \in Int
      BY <1>1
    <3>2. C \in Nat \ {0}
      BY <1>1
    <3>3. \A y \in Int : (((front + size) % C) + y) % C = (front + size + y) % C
      BY <3>1, <3>2, ModAdd
    <3> QED
      BY <1>7, <3>3
  <2>2. First' + Waiting' = front + size + 1
    BY <1>1, <1>4, <1>6
  <2> QED
    BY <1>4, <2>1, <2>2 DEF RingInv, C
\* Which places of the abstract queue are the slot written.
<1>10. ASSUME NEW i \in 1..(size + 1)
       PROVE  /\ (front + i - 1) % C \in Slots
              /\ (front + i - 1) % C = rear' <=> (size + 1 - i) % C = 0
  <2>1. front + i - 1 \in Int /\ front + size \in Int
        /\ (front + size) - (front + i - 1) = size + 1 - i
    BY <1>1
  <2>2. (front + size) % C = (front + i - 1) % C
          <=> ((front + size) - (front + i - 1)) % C = 0
    BY <1>1, <2>1, ModEqual
  <2>3. (front + i - 1) % C \in Slots
    BY <1>1, <2>1, ModRange DEF Slots, C
  <2> QED
    BY <1>7, <2>1, <2>2, <2>3
<1> DEFINE q == AbstractQueue
           struck == [i \in DOMAIN q |-> IF (Len(q) + 1 - i) % C = 0 THEN r ELSE q[i]]
<1>11. /\ q = [i \in 1..size |-> requests[(front + i - 1) % C]]
       /\ AbstractQueue' = [i \in 1..(size + 1) |-> requests'[(front + i - 1) % C]]
  BY <1>3, <1>4, <1>6, QueueShape DEF C
<1>12. q \in Seq(Requests \cup {NoRequest}) /\ Len(q) = size /\ DOMAIN q = 1..size
  BY <1>1, <1>3, <1>11, QueueTypes
<1> HIDE DEF q
<1>13. struck \in Seq(Requests \cup {NoRequest}) /\ Len(struck) = size
  <2>1. struck \in [1..size -> Requests \cup {NoRequest}]
    BY <1>2, <1>12, ElementOfSeq
  <2> QED
    BY <1>1, <2>1
<1>14. AbstractQueue' = Append(struck, r)
  <2>1. \A i \in 1..(size + 1) :
           AbstractQueue'[i] = IF (size + 1 - i) % C = 0 THEN r
                               ELSE requests[(front + i - 1) % C]
    BY <1>1, <1>8, <1>10, <1>11
  <2>2. \A i \in 1..size : AbstractQueue'[i] = struck[i]
    BY <1>1, <1>11, <1>12, <2>1
  <2>3. AbstractQueue'[size + 1] = r
    <3>1. (size + 1 - (size + 1)) % C = 0 /\ size + 1 \in 1..(size + 1)
      <4>1. size + 1 - (size + 1) = 0 /\ 0 \in 0..(C - 1)
        BY <1>1 DEF C
      <4> QED
        BY <1>1, <4>1, ModSmall
    <3> QED
      BY <2>1, <3>1
  <2> DEFINE a == Append(struck, r)
  <2>4. /\ a \in Seq(Requests \cup {NoRequest}) /\ Len(a) = size + 1
        /\ \A i \in 1..size : a[i] = struck[i]
        /\ a[size + 1] = r
    BY <1>2, <1>13, AppendProperties
  <2>5. /\ AbstractQueue' \in Seq(Requests \cup {NoRequest})
        /\ Len(AbstractQueue') = size + 1
    <3>1. \A i \in 1..(size + 1) :
             requests'[(front + i - 1) % C] \in Requests \cup {NoRequest}
      BY <1>1, <1>2, <1>8, <1>10
    <3>2. AbstractQueue' \in [1..(size + 1) -> Requests \cup {NoRequest}]
      BY <1>11, <3>1
    <3> QED
      BY <1>1, <3>2
  <2> HIDE DEF a, struck
  <2>6. \A i \in 1..(size + 1) : AbstractQueue'[i] = a[i]
    BY <1>1, <2>2, <2>3, <2>4
  <2> QED
    BY <2>4, <2>5, <2>6, SeqEqual DEF a
<1>15. CASE size < C
  <2>1. \A i \in 1..size : (size + 1 - i) % C # 0
    <3> SUFFICES ASSUME NEW i \in 1..size PROVE (size + 1 - i) % C # 0
      OBVIOUS
    <3>1. size + 1 - i \in 0..(C - 1) /\ size + 1 - i # 0
      BY <1>1, <1>15 DEF C
    <3> QED
      BY <1>1, <3>1, ModSmall
  <2>2. struck = q
    BY <1>12, <2>1
  <2>3. Fifo!Enqueue(r)
    BY <1>12, <1>14, <1>15, <2>2 DEF Fifo!Enqueue, PushStore, q, C
  <2> QED
    BY <1>2, <1>9, <2>3 DEF Fifo!Next
<1>16. CASE size >= C
  <2>1. size \in C..(C + (Cardinality(Pushers) - 1) - 1)
    <3>1. t \in InFlight
      BY <1>0 DEF InFlight
    <3>2. Cardinality(InFlight) \in Nat /\ Cardinality(InFlight) # 0
      BY <3>1, InFlightFinite, FS_EmptySet
    <3>3. Cardinality(Pushers) \in Nat
      BY QueueAssumption, FS_CardinalityType
    <3> QED
      BY <1>1, <1>16, <3>2, <3>3 DEF OverrunBound, C
  <2>2. Fifo!Overwrite(r)
    BY <1>12, <1>14, <2>1 DEF Fifo!Overwrite, PushStore, q, C
  <2> QED
    BY <1>2, <1>9, <2>2 DEF Fifo!Next
<1> QED
  BY <1>1, <1>15, <1>16 DEF C

\* Counting a popped request down is what hands it out.
LEMMA HandOutStep ==
    ASSUME QueueInv, RingInv, PopCount
    PROVE  RingInv' /\ Fifo!Next
<1>1. /\ Capacity \in Nat \ {0} /\ size \in Nat /\ size > 0 /\ front \in Int
      /\ pc \in [Threads -> {"idle"} \cup PushSteps \cup PopSteps]
      /\ Popper \in Threads /\ pc[Popper] = "taken"
  BY QueueTypes DEF QueueInv, TypeOK, NoUnderflow, PopCount, Threads
<1>2. StoredUncounted = 0 /\ StoredUncounted' = 0
  <2>1. StoredUncounted = 0
    BY <1>1, StoredByOne DEF InBody
  <2>2. StoredSet' = StoredSet
    BY <1>1 DEF PopCount, Goto, StoredSet, Threads
  <2> QED
    BY <2>1, <2>2 DEF StoredUncounted, StoredSet
<1>3. First = front - 1 /\ First' = front /\ Waiting = size /\ Waiting' = size - 1
  <2>1. pc'[Popper] = "uncounted" /\ front' = front /\ size' = size - 1
    BY <1>1 DEF PopCount, Goto, ring
  <2> QED
    BY <1>1, <1>2, <2>1 DEF First, Waiting
<1>4. RingInv'
  <2>1. pc'[Popper] # "taken" /\ rear' = rear
    BY <1>1 DEF PopCount, Goto, ring
  <2>2. First' + Waiting' = First + Waiting
    BY <1>1, <1>3
  <2> QED
    BY <2>1, <2>2 DEF RingInv
<1> DEFINE q == AbstractQueue
<1>5. /\ q \in Seq(Requests \cup {NoRequest}) /\ Len(q) = size
      /\ \A i \in 1..size : q[i] = requests[(front - 1 + i - 1) % Capacity]
  BY <1>1, <1>3, QueueTypes, QueueShape
<1>6. AbstractQueue' = [i \in 1..(size - 1) |-> requests[(front + i - 1) % Capacity]]
  BY <1>3, QueueShape DEF PopCount, ring
<1> HIDE DEF q
<1>7. q # <<>>
  BY <1>1, <1>5
<1>8. Head(q) = request[Popper]
  <2>1. Head(q) = q[1] /\ 1 \in 1..size
    BY <1>1, <1>5, <1>7
  <2>2. front - 1 + 1 - 1 = front - 1
    BY <1>1
  <2> QED
    BY <1>1, <1>3, <1>5, <2>1, <2>2 DEF RingInv
<1>9. AbstractQueue' = Tail(q)
  <2>1. /\ Tail(q) \in Seq(Requests \cup {NoRequest}) /\ Len(Tail(q)) = size - 1
        /\ \A i \in 1..(size - 1) : Tail(q)[i] = q[i + 1]
    BY <1>5, <1>7, HeadTailProperties
  <2>2. \A i \in 1..(size - 1) :
           front - 1 + (i + 1) - 1 = front + i - 1 /\ i + 1 \in 1..size
           /\ front + i - 1 \in Int
    BY <1>1
  <2>3. \A i \in 1..(size - 1) : q[i + 1] = requests[(front + i - 1) % Capacity]
    BY <1>5, <2>2
  <2>4. \A i \in 1..(size - 1) : AbstractQueue'[i] = Tail(q)[i]
    BY <1>6, <2>1, <2>3
  <2>5. AbstractQueue' \in Seq(Requests \cup {NoRequest})
        /\ Len(AbstractQueue') = size - 1
    <3>1. AbstractQueue' \in [1..(size - 1) -> Requests \cup {NoRequest}]
      BY <1>6, <2>2, QueueTypes
    <3> QED
      BY <1>1, <3>1
  <2> QED
    BY <2>1, <2>4, <2>5, SeqEqual
<1>10. Fifo!Dequeue
  BY <1>7, <1>8, <1>9 DEF Fifo!Dequeue, PopCount, q
<1> QED
  BY <1>4, <1>10 DEF Fifo!Next

LEMMA FifoStep ==
    ASSUME QueueInv, OverrunBound, RingInv, [Next]_vars
    PROVE  RingInv' /\ [Fifo!Next]_Fifo!vars
<1>t. /\ pc \in [Threads -> {"idle"} \cup PushSteps \cup PopSteps]
      /\ Popper \in Threads /\ Pushers \subseteq Threads
      /\ request \in [Threads -> Requests \cup {NoRequest}]
      /\ Capacity \in Nat \ {0} /\ front \in Int /\ size \in Nat
      /\ StoredUncounted \in Nat
  BY QueueTypes DEF QueueInv, TypeOK, Threads
\* A step that stores, counts and takes nothing.
<1>same. ASSUME UNCHANGED <<requests, front, rear, size, served, refused, StoredSet>>,
                pc'[Popper] = "taken" <=> pc[Popper] = "taken",
                pc[Popper] = "taken" => request'[Popper] = request[Popper]
         PROVE  RingInv' /\ [Fifo!Next]_Fifo!vars
  <2>1. First' = First
    BY <1>same DEF First
  <2>2. Waiting' = Waiting
    BY <1>same DEF Waiting, StoredUncounted, StoredSet
  <2>3. /\ UNCHANGED Fifo!vars
        /\ (First' + Waiting') % Capacity = (rear' + 1) % Capacity
    BY <1>same, <2>1, <2>2, QuietStep
  <2> QED
    BY <1>same, <2>1, <2>3 DEF RingInv
<1>1. ASSUME NEW t \in Pushers, PushAdmit(t) \/ PushLock(t) \/ PushUnlock(t)
      PROVE  RingInv' /\ [Fifo!Next]_Fifo!vars
  <2>1. /\ UNCHANGED <<requests, front, rear, size, served, refused>>
        /\ pc[t] \notin {"stored", "taken"}
        /\ \E step \in {"admitted", "writing", "idle"} : pc' = [pc EXCEPT ![t] = step]
        /\ \A u \in Threads \ {t} : request'[u] = request[u]
    BY <1>1, <1>t DEF PushAdmit, PushLock, PushUnlock, Goto, ring, history
  <2>2. StoredSet' = StoredSet /\ (pc'[Popper] = "taken" <=> pc[Popper] = "taken")
    BY <1>t, <2>1 DEF StoredSet
  <2>3. pc[Popper] = "taken" => request'[Popper] = request[Popper]
    BY <1>t, <2>1
  <2> QED
    BY <2>1, <2>2, <2>3, <1>same
<1>2. ASSUME NEW t \in Pushers, PushRefuse(t)
      PROVE  RingInv' /\ [Fifo!Next]_Fifo!vars
  <2>1. begun + 1 \in Requests
    BY <1>2, QueueAssumption DEF PushRefuse, QueueInv, TypeOK, Requests
  <2>2. Len(AbstractQueue) >= Capacity
    BY <1>2, <1>t, QueueTypes DEF PushRefuse, QueueFull, Waiting
  <2>3. AbstractQueue' = AbstractQueue
    BY <1>2 DEF PushRefuse, AbstractQueue, StoredUncounted, ring
  <2>4. Fifo!Refuse(begun + 1)
    BY <1>2, <2>2, <2>3 DEF PushRefuse, Fifo!Refuse
  <2>5. RingInv'
    BY <1>2 DEF PushRefuse, RingInv, First, Waiting, StoredUncounted, ring
  <2> QED
    BY <2>1, <2>4, <2>5 DEF Fifo!Next
<1>3. ASSUME NEW t \in Pushers, PushStore(t) PROVE RingInv' /\ [Fifo!Next]_Fifo!vars
  BY <1>3, StoreStep
<1>4. ASSUME NEW t \in Pushers, PushCount(t) PROVE RingInv' /\ [Fifo!Next]_Fifo!vars
  <2>1. t \in StoredSet /\ StoredSet' = StoredSet \ {t}
    BY <1>4, <1>t DEF PushCount, Goto, StoredSet
  <2>2. Cardinality(StoredSet') = Cardinality(StoredSet) - 1
    BY <2>1, StoredFinite, FS_RemoveElement
  <2>3. Waiting' = Waiting
    BY <1>4, <1>t, <2>2, StoredFinite DEF PushCount, Waiting, StoredUncounted, StoredSet
  <2>4. pc[Popper] # "taken" /\ pc'[Popper] # "taken"
    <3>1. pc[t] = "stored" /\ t \in Threads
      BY <1>4, <1>t DEF PushCount
    <3>2. pc[Popper] # "taken"
      BY <1>t, <3>1 DEF QueueInv, LockInv, BodyExclusive, InBody
    <3> QED
      BY <1>4, <1>t, <3>2 DEF PushCount, Goto
  <2>5. First' = First
    BY <1>4, <2>4 DEF PushCount, First, ring
  <2>6. /\ UNCHANGED Fifo!vars
        /\ (First' + Waiting') % Capacity = (rear' + 1) % Capacity
    BY <1>4, <2>3, <2>5, QuietStep DEF PushCount, ring, history
  <2> QED
    BY <2>4, <2>6 DEF RingInv
<1>5. ASSUME PopCheck \/ PopLock \/ PopUnlock
      PROVE  RingInv' /\ [Fifo!Next]_Fifo!vars
  <2>1. /\ UNCHANGED <<requests, front, rear, size, served, refused>>
        /\ pc[Popper] \notin {"stored", "taken"}
        /\ \E step \in {"nonempty", "reading", "idle"} :
              pc' = [pc EXCEPT ![Popper] = step]
    BY <1>5, <1>t DEF PopCheck, PopLock, PopUnlock, Goto, ring, history
  <2>2. StoredSet' = StoredSet /\ pc'[Popper] # "taken"
    BY <1>t, <2>1 DEF StoredSet
  <2> QED
    BY <2>1, <2>2, <1>same
<1>6. ASSUME PopTake PROVE RingInv' /\ [Fifo!Next]_Fifo!vars
  <2>1. /\ pc[Popper] = "reading" /\ pc'[Popper] = "taken"
        /\ request'[Popper] = requests[front]
        /\ front' = (front + 1) % Capacity
        /\ UNCHANGED <<requests, rear, size, served, refused>>
    BY <1>6, <1>t DEF PopTake, Goto, history
  <2>2. StoredSet' = StoredSet
    BY <1>6, <1>t DEF PopTake, Goto, StoredSet
  <2>3. First = front /\ First' = front' - 1 /\ Waiting' = Waiting
    BY <2>1, <2>2 DEF First, Waiting, StoredUncounted, StoredSet
  <2>4. front' \in Int
    BY <1>t, <2>1, ModRange
  <2>5. ASSUME NEW x \in Int PROVE (First' + x) % Capacity = (First + x) % Capacity
    <3>1. First' + x = front' + (x - 1) /\ x - 1 \in Int /\ front + 1 \in Int
      BY <2>3, <2>4, <1>t
    <3>2. (front' + (x - 1)) % Capacity = (front + 1 + (x - 1)) % Capacity
      BY <2>1, <3>1, <1>t, ModAdd
    <3>3. front + 1 + (x - 1) = First + x
      BY <2>3, <1>t
    <3> QED
      BY <3>1, <3>2, <3>3
  <2>6. First' \in Int
    BY <2>3, <2>4
  <2>7. /\ UNCHANGED Fifo!vars
        /\ (First' + Waiting') % Capacity = (rear' + 1) % Capacity
    BY <2>1, <2>3, <2>5, <2>6, QuietStep
  <2>8. request'[Popper] = requests'[First' % Capacity]
    <3>1. First' + 0 = First' /\ First + 0 = front
      BY <2>3, <2>6, <1>t
    <3>2. First' % Capacity = front % Capacity
      BY <2>5, <3>1
    <3>3. front % Capacity = front
      BY <1>t, ModSmall DEF QueueInv, TypeOK, Slots
    <3> QED
      BY <2>1, <3>2, <3>3
  <2> QED
    BY <2>7, <2>8 DEF RingInv
<1>7. ASSUME PopCount PROVE RingInv' /\ [Fifo!Next]_Fifo!vars
  BY <1>7, HandOutStep
<1>8. ASSUME PopEmpty \/ UNCHANGED vars PROVE RingInv' /\ [Fifo!Next]_Fifo!vars
  BY <1>8, <1>same DEF PopEmpty, vars, StoredSet
<1> QED
  BY <1>1, <1>2, <1>3, <1>4, <1>5, <1>6, <1>7, <1>8 DEF Next, Push, Pop

\* queue_management.c is a bounded FIFO: in every interleaving of any number of
\* pushing threads the requests are handed out in the order they were stored, one
\* is refused only when the ring is full, and one is lost only to a request stored
\* Capacity places behind it, by one of at most as many as there are other pushers.
THEOREM QueueIsFifo == Spec => Fifo!Safety
<1>1. Init => RingInv /\ Fifo!Init
  BY RingInit
<1>2. QueueInv /\ OverrunBound /\ RingInv /\ [Next]_vars
        => RingInv' /\ [Fifo!Next]_Fifo!vars
  BY FifoStep
<1> QED
  BY <1>1, <1>2, QueueInvariant, OverrunIsBounded, PTL DEF Spec, Fifo!Safety
=============================================================================
