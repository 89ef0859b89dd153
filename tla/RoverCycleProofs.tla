-------------------------- MODULE RoverCycleProofs --------------------------
(***************************************************************************)
(* The bookkeeping of the rovers' requests for every number of rovers,     *)
(* every capacity of the request queue and any number of restarts: a       *)
(* request is in one place of the system or has ended at one of the places *)
(* that give up.  The sum over the places is an invariant of every step;   *)
(* what the proof needs beside it is that a route on its way carries a     *)
(* flag for which process_requests has no case, so that one sent back to   *)
(* the queue does not count again.                                         *)
(***************************************************************************)
EXTENDS RoverCycle, FunctionTheorems, FiniteSetTheorems, SequenceTheorems, TLAPS

Packages == [rover : Rovers, flag : Flags]
Routes == [rover : Rovers, flag : Flags \ Served]

-----------------------------------------------------------------------------
(* Counting in sequences *)

Where(seq, r, flags) == {i \in DOMAIN seq : seq[i].rover = r /\ seq[i].flag \in flags}

LEMMA CountType ==
    ASSUME NEW S, NEW seq \in Seq(S), NEW r, NEW flags
    PROVE  /\ Count(seq, r, flags) \in Nat
           /\ IsFiniteSet(Where(seq, r, flags))
           /\ Count(seq, r, flags) = Cardinality(Where(seq, r, flags))
<1>1. Len(seq) \in Nat /\ DOMAIN seq = 1..Len(seq)
  BY LenProperties
<1>2. IsFiniteSet(1..Len(seq))
  BY <1>1, FS_Interval
<1>3. Where(seq, r, flags) \subseteq 1..Len(seq)
  BY <1>1 DEF Where
<1>4. IsFiniteSet(Where(seq, r, flags))
  BY <1>2, <1>3, FS_Subset
<1> QED
  BY <1>4, FS_CardinalityType DEF Count, Where

LEMMA CountEmpty == \A r, flags : Count(<<>>, r, flags) = 0
<1> SUFFICES ASSUME NEW r, NEW flags PROVE Count(<<>>, r, flags) = 0
  OBVIOUS
<1>1. Where(<<>>, r, flags) = {}
  BY DEF Where
<1> QED
  BY <1>1, FS_EmptySet DEF Count, Where

LEMMA CountOne ==
    ASSUME NEW x, NEW r, NEW flags
    PROVE  Count(<<x>>, r, flags) = IF x.rover = r /\ x.flag \in flags THEN 1 ELSE 0
<1>1. CASE x.rover = r /\ x.flag \in flags
  <2>1. Where(<<x>>, r, flags) = {1}
    BY <1>1 DEF Where
  <2> QED
    BY <1>1, <2>1, FS_Singleton DEF Count, Where
<1>2. CASE ~(x.rover = r /\ x.flag \in flags)
  <2>1. Where(<<x>>, r, flags) = {}
    BY <1>2 DEF Where
  <2> QED
    BY <1>2, <2>1, FS_EmptySet DEF Count, Where
<1> QED
  BY <1>1, <1>2

LEMMA CountConcat ==
    ASSUME NEW S, NEW s \in Seq(S), NEW t \in Seq(S), NEW r, NEW flags
    PROVE  Count(s \o t, r, flags) = Count(s, r, flags) + Count(t, r, flags)
<1> DEFINE A == Where(s, r, flags)
           B == Where(t, r, flags)
           moved == {i \in (Len(s) + 1)..(Len(s) + Len(t)) : i - Len(s) \in B}
           f == [i \in moved |-> i - Len(s)]
<1>1. /\ Len(s) \in Nat /\ Len(t) \in Nat
      /\ DOMAIN s = 1..Len(s) /\ DOMAIN t = 1..Len(t)
  BY LenProperties
<1>2. /\ s \o t \in Seq(S) /\ Len(s \o t) = Len(s) + Len(t)
      /\ DOMAIN (s \o t) = 1..(Len(s) + Len(t))
      /\ \A i \in 1..(Len(s) + Len(t)) :
            (s \o t)[i] = IF i <= Len(s) THEN s[i] ELSE t[i - Len(s)]
  BY <1>1, ConcatProperties, LenProperties
<1>3. Where(s \o t, r, flags) = A \cup moved
  <2>1. ASSUME NEW i \in 1..(Len(s) + Len(t))
        PROVE  i \in Where(s \o t, r, flags) <=> i \in A \cup moved
    <3>1. CASE i <= Len(s)
      <4>1. i \in 1..Len(s) /\ i \notin moved /\ (s \o t)[i] = s[i]
        BY <1>1, <1>2, <3>1
      <4> QED
        BY <1>1, <1>2, <4>1 DEF Where
    <3>2. CASE i > Len(s)
      <4>1. /\ i \notin A /\ i - Len(s) \in 1..Len(t)
            /\ i \in (Len(s) + 1)..(Len(s) + Len(t))
            /\ (s \o t)[i] = t[i - Len(s)]
        BY <1>1, <1>2, <3>2 DEF Where
      <4> QED
        BY <1>1, <1>2, <4>1 DEF Where
    <3> QED
      BY <1>1, <3>1, <3>2
  <2>2. Where(s \o t, r, flags) \subseteq 1..(Len(s) + Len(t))
    BY <1>2 DEF Where
  <2>3. A \subseteq 1..(Len(s) + Len(t)) /\ moved \subseteq 1..(Len(s) + Len(t))
    BY <1>1 DEF Where
  <2> QED
    BY <2>1, <2>2, <2>3
<1>4. A \cap moved = {}
  BY <1>1 DEF Where
<1>5. Count(s, r, flags) = Cardinality(A) /\ IsFiniteSet(A) /\ Cardinality(A) \in Nat
      /\ Count(t, r, flags) = Cardinality(B) /\ IsFiniteSet(B) /\ Cardinality(B) \in Nat
  BY CountType
<1>6. IsFiniteSet(moved) /\ Cardinality(moved) = Cardinality(B)
  <2>1. B \subseteq 1..Len(t)
    BY <1>1 DEF Where
  <2>2. f \in [moved -> B]
    OBVIOUS
  <2>3. \A i, j \in moved : f[i] = f[j] => i = j
    BY <1>1
  <2>4. \A k \in B : \E i \in moved : f[i] = k
    <3> SUFFICES ASSUME NEW k \in B PROVE \E i \in moved : f[i] = k
      OBVIOUS
    <3>1. k \in 1..Len(t) /\ k + Len(s) \in (Len(s) + 1)..(Len(s) + Len(t))
          /\ (k + Len(s)) - Len(s) = k
      BY <1>1, <2>1
    <3>2. k + Len(s) \in moved
      BY <3>1
    <3> QED
      BY <3>1, <3>2
  <2> HIDE DEF f, moved, B
  <2>5. f \in Bijection(moved, B)
    BY <2>2, <2>3, <2>4, Fun_IsBij
  <2>6. ExistsBijection(B, moved)
    BY <2>5, Fun_ExistsBij, Fun_ExistsBijSymmetric
  <2> QED
    BY <1>5, <2>6, FS_Bijection
<1> HIDE DEF A, B, moved
<1>7. Cardinality(A \cup moved) = Cardinality(A) + Cardinality(moved)
  <2>1. Cardinality(A \cap moved) = 0
    BY <1>4, FS_EmptySet
  <2>2. Cardinality(A \cup moved)
           = Cardinality(A) + Cardinality(moved) - Cardinality(A \cap moved)
    BY <1>5, <1>6, FS_Union
  <2> QED
    BY <1>5, <1>6, <2>1, <2>2
<1> QED
  BY <1>2, <1>3, <1>5, <1>6, <1>7, CountType

LEMMA CountTail ==
    ASSUME NEW S, NEW seq \in Seq(S), seq # <<>>, NEW r, NEW flags
    PROVE  Count(seq, r, flags)
              = Count(Tail(seq), r, flags)
                + IF Head(seq).rover = r /\ Head(seq).flag \in flags THEN 1 ELSE 0
<1> DEFINE h == Head(seq)
           t == Tail(seq)
<1>1. /\ h \in S /\ t \in Seq(S) /\ Len(t) = Len(seq) - 1 /\ Len(seq) \in Nat
      /\ Len(seq) # 0 /\ h = seq[1]
      /\ \A i \in 1..(Len(seq) - 1) : t[i] = seq[i + 1]
  BY HeadTailProperties, LenProperties
<1> HIDE DEF h, t
<1> DEFINE one == <<h>>
<1>2. one \in Seq(S) /\ Len(one) = 1 /\ one[1] = h
  BY <1>1
<1>3. Count(one, r, flags) = IF h.rover = r /\ h.flag \in flags THEN 1 ELSE 0
  BY CountOne
<1> HIDE DEF one
<1>4. seq = one \o t
  <2> DEFINE u == one \o t
  <2>0. one \in Seq(S) /\ t \in Seq(S)
    BY <1>1, <1>2
  <2>a. /\ u \in Seq(S) /\ Len(u) = Len(one) + Len(t)
        /\ \A i \in 1..(Len(one) + Len(t)) :
              u[i] = IF i <= Len(one) THEN one[i] ELSE t[i - Len(one)]
    BY <2>0, ConcatProperties
  <2> HIDE DEF u
  <2>1. /\ u \in Seq(S) /\ Len(u) = Len(seq)
        /\ \A i \in 1..Len(seq) : u[i] = IF i <= 1 THEN one[i] ELSE t[i - 1]
    BY <1>1, <1>2, <2>a
  <2>2. \A i \in 1..Len(seq) : seq[i] = u[i]
    BY <1>1, <1>2, <2>1
  <2>3. seq = u
    BY <2>1, <2>2, SeqEqual
  <2> QED
    BY <2>3 DEF u
<1>5. Count(one \o t, r, flags) = Count(one, r, flags) + Count(t, r, flags)
  BY <1>1, <1>2, CountConcat
<1>6. Count(t, r, flags) \in Nat /\ Count(one, r, flags) \in Nat
  BY <1>1, <1>2, CountType
<1>7. Count(seq, r, flags) = Count(t, r, flags) + Count(one, r, flags)
  BY <1>4, <1>5, <1>6
<1> QED
  BY <1>3, <1>7 DEF h, t

-----------------------------------------------------------------------------
(* push_request *)

LEMMA PushMany ==
    ASSUME NEW q \in Seq(Packages), Len(q) <= QueueCapacity, NEW reqs \in Seq(Packages)
    PROVE  /\ QueuePush(q, reqs) \in Seq(Packages)
           /\ Len(QueuePush(q, reqs)) <= QueueCapacity
           /\ (\A i \in DOMAIN reqs : reqs[i].flag \notin Served) =>
                 \A r : Count(QueuePush(q, reqs), r, Served) = Count(q, r, Served)
<1> DEFINE room == QueueCapacity - Len(q)
           n == IF Len(reqs) <= room THEN Len(reqs) ELSE room
           some == SubSeq(reqs, 1, n)
<1>1. /\ Len(q) \in Nat /\ Len(reqs) \in Nat /\ DOMAIN reqs = 1..Len(reqs)
      /\ QueueCapacity \in Nat
  BY LenProperties, CycleAssumption
<1>2. n \in Nat /\ n <= Len(reqs) /\ Len(q) + n <= QueueCapacity
  BY <1>1
<1> HIDE DEF n
<1>3. \A i \in 1..n : reqs[i] \in Packages
  BY <1>1, <1>2, ElementOfSeq
<1>4. /\ some \in Seq(Packages) /\ Len(some) = n
      /\ \A i \in 1..n : some[i] = reqs[i]
  <2>1. /\ SubSeq(reqs, 1, n) \in Seq(Packages)
        /\ Len(SubSeq(reqs, 1, n)) = IF 1 <= n THEN n - 1 + 1 ELSE 0
        /\ \A i \in 1..(n - 1 + 1) : SubSeq(reqs, 1, n)[i] = reqs[1 + i - 1]
    BY <1>2, <1>3, SubSeqProperties
  <2> QED
    BY <1>2, <2>1
<1>5. QueuePush(q, reqs) = q \o some
  BY DEF QueuePush, n
<1> HIDE DEF some
<1>6. QueuePush(q, reqs) \in Seq(Packages) /\ Len(QueuePush(q, reqs)) = Len(q) + n
  BY <1>4, <1>5, ConcatProperties
<1>7. ASSUME \A i \in DOMAIN reqs : reqs[i].flag \notin Served, NEW r
      PROVE  Count(QueuePush(q, reqs), r, Served) = Count(q, r, Served)
  <2>1. \A i \in 1..n : some[i].flag \notin Served
    BY <1>1, <1>2, <1>4, <1>7
  <2>2. Where(some, r, Served) = {}
    BY <1>4, <2>1, LenProperties DEF Where
  <2>3. Count(some, r, Served) = 0
    BY <2>2, FS_EmptySet DEF Count, Where
  <2>4. Count(q, r, Served) \in Nat
    BY CountType
  <2> QED
    BY <1>4, <1>5, <2>3, <2>4, CountConcat
<1> QED
  BY <1>1, <1>2, <1>6, <1>7

\* One request is dropped exactly when the queue stays what it was.
LEMMA PushOne ==
    ASSUME NEW q \in Seq(Packages), Len(q) <= QueueCapacity, NEW x \in Packages
    PROVE  /\ QueuePush(q, <<x>>) \in Seq(Packages)
           /\ Len(QueuePush(q, <<x>>)) <= QueueCapacity
           /\ QueuePush(q, <<x>>) # q => \A r :
                 Count(QueuePush(q, <<x>>), r, Served)
                    = Count(q, r, Served)
                      + IF x.rover = r /\ x.flag \in Served THEN 1 ELSE 0
<1> DEFINE one == <<x>>
<1>1. one \in Seq(Packages) /\ Len(one) = 1 /\ one[1] = x
  OBVIOUS
<1>2. Len(q) \in Nat /\ QueueCapacity \in Nat
  BY LenProperties, CycleAssumption
<1>c. \A r : Count(one, r, Served) = IF x.rover = r /\ x.flag \in Served THEN 1 ELSE 0
  BY CountOne
<1> HIDE DEF one
<1>3. CASE Len(q) < QueueCapacity
  <2>1. SubSeq(one, 1, 1) = one
    <3>1. /\ SubSeq(one, 1, 1) \in Seq(Packages) /\ Len(SubSeq(one, 1, 1)) = 1
          /\ SubSeq(one, 1, 1)[1] = one[1]
      <4>1. \A i \in 1..1 : one[i] \in Packages
        BY <1>1
      <4> QED
        BY <4>1, SubSeqProperties
    <3> QED
      BY <1>1, <3>1, SeqEqual
  <2>2. QueuePush(q, one) = q \o one
    <3>1. QueuePush(q, one) = q \o SubSeq(one, 1, 1)
      BY <1>1, <1>2, <1>3 DEF QueuePush
    <3> QED
      BY <2>1, <3>1
  <2>3. ASSUME NEW r
        PROVE  Count(q \o one, r, Served) = Count(q, r, Served) + Count(one, r, Served)
    BY <1>1, CountConcat
  <2>4. /\ QueuePush(q, one) \in Seq(Packages)
        /\ Len(QueuePush(q, one)) <= QueueCapacity
    BY <1>1, PushMany
  <2> QED
    BY <1>c, <2>2, <2>3, <2>4 DEF one
<1>4. CASE Len(q) = QueueCapacity
  <2>1. SubSeq(one, 1, 0) = <<>>
    BY SubSeqEmpty
  <2>2. q \o <<>> = q
    BY ConcatEmptySeq
  <2>3. QueuePush(q, one) = q
    <3>1. QueuePush(q, one) = q \o SubSeq(one, 1, 0)
      BY <1>1, <1>2, <1>4 DEF QueuePush
    <3> QED
      BY <2>1, <2>2, <3>1
  <2> QED
    BY <1>2, <1>4, <2>3 DEF one
<1> QED
  BY <1>2, <1>3, <1>4

-----------------------------------------------------------------------------
(* The batch *)

Picked(fate, fates, r) ==
    {i \in DOMAIN pending : /\ fate[i] \in fates
                            /\ pending[i].rover = r /\ pending[i].flag \in Flags}

LEMMA WithProperties ==
    ASSUME pending \in Seq(Routes), NEW fate \in [DOMAIN pending -> Fates], NEW fates
    PROVE  /\ With(fate, fates) \in Seq(Routes)
           /\ \A r : Count(With(fate, fates), r, Flags) = Cardinality(Picked(fate, fates, r))
<1> DEFINE S == {i \in DOMAIN fate : fate[i] \in fates}
           n == Cardinality(S)
           c == SetToSeq(S)
<1>1. DOMAIN pending = 1..Len(pending) /\ Len(pending) \in Nat
      /\ \A i \in 1..Len(pending) : pending[i] \in Routes
  BY LenProperties, ElementOfSeq
<1>2. S \subseteq 1..Len(pending) /\ IsFiniteSet(S) /\ n \in Nat
  <2>1. S \subseteq 1..Len(pending)
    BY <1>1
  <2>2. IsFiniteSet(1..Len(pending))
    BY <1>1, FS_Interval
  <2>3. IsFiniteSet(S)
    BY <2>1, <2>2, FS_Subset
  <2> QED
    BY <2>1, <2>3, FS_CardinalityType
<1> HIDE DEF S, n
<1>3. c \in [1..n -> S] /\ \A i, j \in 1..n : c[i] = c[j] => i = j
  <2>1. ExistsBijection(1..n, S)
    BY <1>2, FS_CardinalityType DEF n
  <2>2. PICK b : b \in Bijection(1..n, S)
    BY <2>1, Fun_ExistsBij
  <2>3. b \in [1..n -> S] /\ IsInjective(b)
    BY <2>2 DEF Bijection, Injection
  <2>4. c \in [1..n -> S] /\ IsInjective(c)
    BY <2>3 DEF SetToSeq, n
  <2> QED
    BY <2>4 DEF IsInjective
<1>w. With(fate, fates) = [k \in 1..n |-> pending[c[k]]]
  BY <1>3 DEF With, S
<1> HIDE DEF c
<1>4. \A i \in S : \E k \in 1..n : c[k] = i
  <2>1. IsFiniteSet(1..n) /\ Cardinality(1..n) = n
    BY <1>2, FS_Interval
  <2>2. c \in Injection(1..n, S)
    BY <1>3, Fun_IsInj
  <2>3. c \in Surjection(1..n, S)
    BY <1>2, <2>1, <2>2, FS_Injection DEF n
  <2> QED
    BY <2>3 DEF Surjection
<1>5. With(fate, fates) \in Seq(Routes)
  <2>1. With(fate, fates) \in [1..n -> Routes]
    BY <1>1, <1>2, <1>3, <1>w
  <2> QED
    BY <1>2, <2>1
<1>6. ASSUME NEW r
      PROVE  Count(With(fate, fates), r, Flags) = Cardinality(Picked(fate, fates, r))
  <2> DEFINE W == Where(With(fate, fates), r, Flags)
             P == Picked(fate, fates, r)
             f == [k \in W |-> c[k]]
  <2>1. \A k : k \in W <=> /\ k \in 1..n
                           /\ pending[c[k]].rover = r /\ pending[c[k]].flag \in Flags
    BY <1>w DEF Where
  <2>2. \A i : i \in P <=> /\ i \in S
                           /\ pending[i].rover = r /\ pending[i].flag \in Flags
    BY DEF Picked, S
  <2> HIDE DEF W, P
  <2>3. f \in [W -> P] /\ \A j, k \in W : f[j] = f[k] => j = k
    BY <1>3, <2>1, <2>2
  <2>4. \A i \in P : \E k \in W : f[k] = i
    BY <1>4, <2>1, <2>2
  <2> HIDE DEF f
  <2>5. f \in Bijection(W, P)
    BY <2>3, <2>4, Fun_IsBij
  <2>6. ExistsBijection(W, P)
    BY <2>5, Fun_ExistsBij
  <2>7. IsFiniteSet(W) /\ Count(With(fate, fates), r, Flags) = Cardinality(W)
    BY <1>5, CountType DEF W
  <2> QED
    BY <2>6, <2>7, FS_Bijection DEF P
<1> QED
  BY <1>5, <1>6

\* Every route in the heap has one fate: it stays, is sent, or is lost.
LEMMA BatchPartition ==
    ASSUME pending \in Seq(Routes), NEW fate \in [DOMAIN pending -> Fates], NEW r
    PROVE  Count(pending, r, Flags)
              = Count(With(fate, {"left"}), r, Flags)
                + Count(With(fate, {"scheduled", "both"}), r, Flags)
                + Count(With(fate, {"sent back", "dropped"}), r, Flags)
<1> DEFINE A == Picked(fate, {"left"}, r)
           B == Picked(fate, {"scheduled", "both"}, r)
           C == Picked(fate, {"sent back", "dropped"}, r)
           All == Where(pending, r, Flags)
<1>1. IsFiniteSet(All) /\ Count(pending, r, Flags) = Cardinality(All)
  BY CountType
<1>2. All = (A \cup B) \cup C
  BY DEF Picked, Where, Fates
<1>3. A \cap B = {} /\ (A \cup B) \cap C = {}
  BY DEF Picked
<1> HIDE DEF A, B, C, All
<1>4. IsFiniteSet(A) /\ IsFiniteSet(B) /\ IsFiniteSet(C) /\ IsFiniteSet(A \cup B)
  BY <1>1, <1>2, FS_Subset
<1>5. /\ Cardinality(A) \in Nat /\ Cardinality(B) \in Nat /\ Cardinality(C) \in Nat
      /\ Cardinality(A \cup B) \in Nat
  BY <1>4, FS_CardinalityType
<1>6. Cardinality(A \cup B) = Cardinality(A) + Cardinality(B) - Cardinality(A \cap B)
  BY <1>4, FS_Union
<1>7. Cardinality((A \cup B) \cup C)
         = Cardinality(A \cup B) + Cardinality(C) - Cardinality((A \cup B) \cap C)
  BY <1>4, FS_Union
<1>8. Cardinality(All) = Cardinality(A) + Cardinality(B) + Cardinality(C)
  <2>1. Cardinality(A \cap B) = 0 /\ Cardinality((A \cup B) \cap C) = 0
    BY <1>3, FS_EmptySet
  <2> QED
    BY <1>2, <1>5, <1>6, <1>7, <2>1
<1> QED
  BY <1>1, <1>8, WithProperties DEF A, B, C

-----------------------------------------------------------------------------
(* The invariant *)

\* What the places of a request hold.  A planned route carries one of the flags
\* planning leaves on it, none of them a flag with a case.
CycleTypes ==
    /\ armed \subseteq Rovers /\ resting \subseteq Rovers
    /\ called \in [Rovers -> Nat] /\ done \in [Rovers -> Nat]
    /\ queue \in Seq(Packages) /\ Len(queue) <= QueueCapacity
    /\ pending \in Seq(Routes) /\ sending \in Seq(Routes)
    /\ goals \in [Rovers -> Nat] /\ results \in [Rovers -> Nat]
    /\ extra \in [Rovers -> Nat] /\ lost \in [Rovers -> Nat]

CycleInv == CycleTypes /\ EveryRequestAccountedFor

AtShim(r) == Has(armed, r) + Has(resting, r) + called[r] + done[r]
AtServer(r) == Count(queue, r, Served) + Count(pending, r, Flags) + Count(sending, r, Flags)
AtRover(r) == goals[r] + results[r]

\* A step keeps the account of a rover when the places and `lost' together grow by
\* what `extra' grows by.
Balanced(r) ==
    AtShim(r)' + AtServer(r)' + AtRover(r)' + lost'[r] + extra[r]
        = AtShim(r) + AtServer(r) + AtRover(r) + lost[r] + extra'[r]

LEMMA ServedFlags == Served \subseteq Flags /\ \A flag : PlannedFlag(flag) \in Flags \ Served
BY DEF Served, Flags, PlannedFlag, ROUTE_REQUEST, CRITICAL_BATTERY, LOW_BATTERY,
       ROVER_NO_OBJECTIVE, POWER_REQUEST

LEMMA AddAt ==
    ASSUME NEW f \in [Rovers -> Nat], NEW r \in Rovers, NEW n \in Int, f[r] + n >= 0
    PROVE  /\ Add(f, r, n) \in [Rovers -> Nat]
           /\ \A p \in Rovers : Add(f, r, n)[p] = IF p = r THEN f[p] + n ELSE f[p]
BY DEF Add

LEMMA PlacesTypes ==
    ASSUME CycleTypes, NEW r \in Rovers
    PROVE  /\ AtShim(r) \in Nat /\ AtServer(r) \in Nat /\ AtRover(r) \in Nat
           /\ Has(armed, r) \in Nat /\ Has(resting, r) \in Nat
           /\ called[r] \in Nat /\ done[r] \in Nat
           /\ Count(queue, r, Served) \in Nat /\ Count(pending, r, Flags) \in Nat
           /\ Count(sending, r, Flags) \in Nat
           /\ goals[r] \in Nat /\ results[r] \in Nat /\ lost[r] \in Nat /\ extra[r] \in Nat
<1>1. Has(armed, r) \in Nat /\ Has(resting, r) \in Nat
  BY DEF Has
<1>2. /\ called[r] \in Nat /\ done[r] \in Nat
      /\ goals[r] \in Nat /\ results[r] \in Nat /\ lost[r] \in Nat /\ extra[r] \in Nat
  BY DEF CycleTypes
<1>3. /\ Count(queue, r, Served) \in Nat /\ Count(pending, r, Flags) \in Nat
      /\ Count(sending, r, Flags) \in Nat
  BY CountType DEF CycleTypes
<1> QED
  BY <1>1, <1>2, <1>3 DEF AtShim, AtServer, AtRover

Accounts ==
    \A r \in Rovers :
        /\ AtShim(r) \in Nat /\ AtServer(r) \in Nat /\ AtRover(r) \in Nat
        /\ lost[r] \in Nat /\ extra[r] \in Nat
        /\ UnderWay(r) = AtShim(r) + AtServer(r) + AtRover(r)

LEMMA Account == CycleTypes => Accounts
BY PlacesTypes DEF Accounts, UnderWay, AtShim, AtServer, AtRover

LEMMA AccountNext == CycleTypes' => Accounts'
BY Account, PTL

LEMMA AccountKept ==
    ASSUME CycleInv, CycleTypes', \A r \in Rovers : Balanced(r)
    PROVE  CycleInv'
<1> SUFFICES ASSUME NEW r \in Rovers
             PROVE  UnderWay(r)' + lost'[r] = 1 + extra'[r]
  BY DEF CycleInv, EveryRequestAccountedFor
<1>1. /\ AtShim(r) \in Nat /\ AtServer(r) \in Nat /\ AtRover(r) \in Nat
      /\ lost[r] \in Nat /\ extra[r] \in Nat
      /\ UnderWay(r) = AtShim(r) + AtServer(r) + AtRover(r)
  BY Account DEF CycleInv, Accounts
<1>2. /\ AtShim(r)' \in Nat /\ AtServer(r)' \in Nat /\ AtRover(r)' \in Nat
      /\ lost'[r] \in Nat /\ extra'[r] \in Nat
      /\ UnderWay(r)' = AtShim(r)' + AtServer(r)' + AtRover(r)'
  BY AccountNext DEF Accounts
<1>3. UnderWay(r) + lost[r] = 1 + extra[r]
  BY DEF CycleInv, EveryRequestAccountedFor
<1>4. Balanced(r)
  OBVIOUS
<1> QED
  BY <1>1, <1>2, <1>3, <1>4 DEF Balanced

-----------------------------------------------------------------------------
(* The steps of the shim *)

LEMMA MakeRequestAt ==
    ASSUME CycleTypes, NEW r \in Rovers, MakeRequest(r)
    PROVE  /\ called' \in [Rovers -> Nat] /\ lost' \in [Rovers -> Nat]
           /\ \A p \in Rovers : called'[p] + lost'[p]
                                   = called[p] + lost[p] + IF p = r THEN 1 ELSE 0
<1>1. /\ called \in [Rovers -> Nat] /\ lost \in [Rovers -> Nat]
      /\ called[r] + 1 >= 0 /\ lost[r] + 1 >= 0 /\ 1 \in Int
  BY DEF CycleTypes
<1>2. CASE called' = Add(called, r, 1) /\ UNCHANGED lost
  <2>1. /\ Add(called, r, 1) \in [Rovers -> Nat]
        /\ \A p \in Rovers : Add(called, r, 1)[p] = IF p = r THEN called[p] + 1 ELSE called[p]
    BY <1>1, AddAt
  <2> QED
    BY <1>1, <1>2, <2>1
<1>3. CASE lost' = Add(lost, r, 1) /\ UNCHANGED called
  <2>1. /\ Add(lost, r, 1) \in [Rovers -> Nat]
        /\ \A p \in Rovers : Add(lost, r, 1)[p] = IF p = r THEN lost[p] + 1 ELSE lost[p]
    BY <1>1, AddAt
  <2> QED
    BY <1>1, <1>3, <2>1
<1> QED
  BY <1>2, <1>3 DEF MakeRequest

\* A step that leaves the server and the rover's goals alone.
LEMMA ShimOnly ==
    ASSUME CycleInv, CycleTypes', UNCHANGED <<server, rover>>,
           \A p \in Rovers :
              Has(armed', p) + Has(resting', p) + called'[p] + done'[p] + lost'[p] + extra[p]
                 = Has(armed, p) + Has(resting, p) + called[p] + done[p] + lost[p] + extra'[p]
    PROVE  CycleInv'
<1> SUFFICES ASSUME NEW p \in Rovers PROVE Balanced(p)
  BY AccountKept
<1>1. AtServer(p)' = AtServer(p) /\ AtRover(p)' = AtRover(p)
  BY DEF AtServer, AtRover, server, rover
<1>2. /\ AtShim(p)' = Has(armed', p) + Has(resting', p) + called'[p] + done'[p]
      /\ AtShim(p) = Has(armed, p) + Has(resting, p) + called[p] + done[p]
  BY DEF AtShim
<1>3. AtServer(p) \in Nat /\ AtRover(p) \in Nat /\ AtShim(p) \in Nat
      /\ AtShim(p)' \in Nat /\ lost'[p] \in Nat /\ extra'[p] \in Nat
      /\ lost[p] \in Nat /\ extra[p] \in Nat
  BY Account, AccountNext DEF CycleInv, Accounts
<1>4. AtShim(p)' + lost'[p] + extra[p] = AtShim(p) + lost[p] + extra'[p]
  BY <1>2
<1> QED
  BY <1>1, <1>3, <1>4 DEF Balanced

LEMMA ShimKeeps ==
    ASSUME CycleInv, NEW r \in Rovers,
           InitialRequest(r) \/ HearDone(r) \/ RequestAgain(r) \/ ShimRestart(r)
    PROVE  CycleInv'
<1>c. CycleTypes
  BY DEF CycleInv
<1>h. \A p \in Rovers : /\ Has(armed, p) \in Nat /\ Has(resting, p) \in Nat
                        /\ Has(armed', p) \in Nat /\ Has(resting', p) \in Nat
  BY DEF Has
<1>t. \A p \in Rovers : /\ called[p] \in Nat /\ done[p] \in Nat
                        /\ lost[p] \in Nat /\ extra[p] \in Nat
  BY <1>c DEF CycleTypes
<1>1. CASE InitialRequest(r)
  <2>1. /\ called' \in [Rovers -> Nat] /\ lost' \in [Rovers -> Nat]
        /\ \A p \in Rovers : called'[p] + lost'[p]
                                = called[p] + lost[p] + IF p = r THEN 1 ELSE 0
    BY <1>1, <1>c, MakeRequestAt DEF InitialRequest
  <2>2. /\ armed' = armed \ {r} /\ r \in armed
        /\ UNCHANGED <<resting, done, server, rover, extra>>
    BY <1>1 DEF InitialRequest
  <2>3. CycleTypes'
    BY <1>c, <2>1, <2>2 DEF CycleTypes, server, rover
  <2>4. \A p \in Rovers : Has(armed', p) = Has(armed, p) - IF p = r THEN 1 ELSE 0
    BY <2>2 DEF Has
  <2>5. \A p \in Rovers : called'[p] \in Nat /\ lost'[p] \in Nat
    BY <2>1
  <2>6. ASSUME NEW p \in Rovers
        PROVE  Has(armed', p) + Has(resting', p) + called'[p] + done'[p] + lost'[p] + extra[p]
                 = Has(armed, p) + Has(resting, p) + called[p] + done[p] + lost[p] + extra'[p]
    <3> DEFINE d == IF p = r THEN 1 ELSE 0
    <3>1. /\ Has(armed, p) \in Nat /\ Has(resting, p) \in Nat /\ d \in Nat
          /\ called[p] \in Nat /\ done[p] \in Nat /\ lost[p] \in Nat /\ extra[p] \in Nat
          /\ called'[p] \in Nat /\ lost'[p] \in Nat
      BY <1>h, <1>t, <2>1, <2>2, <2>4, <2>5
    <3>2. /\ Has(armed', p) = Has(armed, p) - d /\ Has(resting', p) = Has(resting, p)
          /\ called'[p] + lost'[p] = called[p] + lost[p] + d
          /\ done'[p] = done[p] /\ extra'[p] = extra[p]
      BY <2>1, <2>2, <2>4, <2>5
    <3> HIDE DEF d
    <3> QED
      BY <3>1, <3>2
  <2> QED
    BY <2>2, <2>3, <2>6, ShimOnly
<1>2. CASE HearDone(r)
  <2>1. /\ done[r] > 0 /\ r \notin resting /\ done' = Add(done, r, -1)
        /\ resting' = resting \cup {r}
        /\ UNCHANGED <<armed, called, server, rover, extra, lost>>
    BY <1>2 DEF HearDone
  <2>2. /\ Add(done, r, -1) \in [Rovers -> Nat]
        /\ \A p \in Rovers : Add(done, r, -1)[p] = IF p = r THEN done[p] + (-1) ELSE done[p]
    <3>1. -1 \in Int /\ done[r] + (-1) >= 0 /\ done \in [Rovers -> Nat]
      BY <1>c, <1>t, <2>1 DEF CycleTypes
    <3> QED
      BY <3>1, AddAt
  <2>3. CycleTypes'
    BY <1>c, <2>1, <2>2 DEF CycleTypes, server, rover
  <2>4. \A p \in Rovers : Has(resting', p) = Has(resting, p) + IF p = r THEN 1 ELSE 0
    BY <2>1 DEF Has
  <2>6. ASSUME NEW p \in Rovers
        PROVE  Has(armed', p) + Has(resting', p) + called'[p] + done'[p] + lost'[p] + extra[p]
                 = Has(armed, p) + Has(resting, p) + called[p] + done[p] + lost[p] + extra'[p]
    <3> DEFINE d == IF p = r THEN 1 ELSE 0
    <3>1. /\ Has(armed, p) \in Nat /\ Has(resting, p) \in Nat /\ d \in Nat
          /\ called[p] \in Nat /\ done[p] \in Nat /\ lost[p] \in Nat /\ extra[p] \in Nat
          /\ called'[p] \in Nat /\ lost'[p] \in Nat
      BY <1>h, <1>t, <2>1
    <3>2. /\ Has(armed', p) = Has(armed, p) /\ Has(resting', p) = Has(resting, p) + d
          /\ called'[p] = called[p] /\ lost'[p] = lost[p]
          /\ done'[p] = done[p] - d /\ extra'[p] = extra[p]
      <4>1. UNCHANGED <<armed, called, lost, extra>> /\ done' = Add(done, r, -1)
        BY <2>1
      <4>2. done'[p] = done[p] - d
        BY <1>t, <2>2, <4>1
      <4>3. Has(resting', p) = Has(resting, p) + d
        BY <2>4
      <4> QED
        BY <4>1, <4>2, <4>3
    <3> HIDE DEF d
    <3> QED
      BY <3>1, <3>2
  <2> QED
    BY <2>1, <2>3, <2>6, ShimOnly
<1>3. CASE RequestAgain(r)
  <2>1. /\ called' \in [Rovers -> Nat] /\ lost' \in [Rovers -> Nat]
        /\ \A p \in Rovers : called'[p] + lost'[p]
                                = called[p] + lost[p] + IF p = r THEN 1 ELSE 0
    BY <1>3, <1>c, MakeRequestAt DEF RequestAgain
  <2>2. /\ resting' = resting \ {r} /\ r \in resting
        /\ UNCHANGED <<armed, done, server, rover, extra>>
    BY <1>3 DEF RequestAgain
  <2>3. CycleTypes'
    BY <1>c, <2>1, <2>2 DEF CycleTypes, server, rover
  <2>4. \A p \in Rovers : Has(resting', p) = Has(resting, p) - IF p = r THEN 1 ELSE 0
    BY <2>2 DEF Has
  <2>5. \A p \in Rovers : called'[p] \in Nat /\ lost'[p] \in Nat
    BY <2>1
  <2>6. ASSUME NEW p \in Rovers
        PROVE  Has(armed', p) + Has(resting', p) + called'[p] + done'[p] + lost'[p] + extra[p]
                 = Has(armed, p) + Has(resting, p) + called[p] + done[p] + lost[p] + extra'[p]
    <3> DEFINE d == IF p = r THEN 1 ELSE 0
    <3>1. /\ Has(armed, p) \in Nat /\ Has(resting, p) \in Nat /\ d \in Nat
          /\ called[p] \in Nat /\ done[p] \in Nat /\ lost[p] \in Nat /\ extra[p] \in Nat
          /\ called'[p] \in Nat /\ lost'[p] \in Nat
      BY <1>h, <1>t, <2>1, <2>2, <2>4, <2>5
    <3>2. /\ Has(armed', p) = Has(armed, p) /\ Has(resting', p) = Has(resting, p) - d
          /\ called'[p] + lost'[p] = called[p] + lost[p] + d
          /\ done'[p] = done[p] /\ extra'[p] = extra[p]
      BY <2>1, <2>2, <2>4, <2>5
    <3> HIDE DEF d
    <3> QED
      BY <3>1, <3>2
  <2> QED
    BY <2>2, <2>3, <2>6, ShimOnly
<1>4. CASE ShimRestart(r)
  <2> DEFINE k == Has(armed, r) + Has(resting, r) + done[r]
  <2>1. /\ extra' = Add(extra, r, 1) /\ lost' = Add(lost, r, k)
        /\ armed' = armed \cup {r} /\ resting' = resting \ {r}
        /\ done' = [done EXCEPT ![r] = 0]
        /\ UNCHANGED <<called, server, rover>>
    BY <1>4 DEF ShimRestart
  <2>2. k \in Nat
    BY <1>h, <1>t
  <2>3. /\ Add(extra, r, 1) \in [Rovers -> Nat]
        /\ \A p \in Rovers : Add(extra, r, 1)[p] = IF p = r THEN extra[p] + 1 ELSE extra[p]
    <3>1. 1 \in Int /\ extra[r] + 1 >= 0 /\ extra \in [Rovers -> Nat]
      BY <1>c, <1>t DEF CycleTypes
    <3> QED
      BY <3>1, AddAt
  <2>4. /\ Add(lost, r, k) \in [Rovers -> Nat]
        /\ \A p \in Rovers : Add(lost, r, k)[p] = IF p = r THEN lost[p] + k ELSE lost[p]
    <3> HIDE DEF k
    <3>1. k \in Int /\ lost[r] + k >= 0 /\ lost \in [Rovers -> Nat]
      BY <1>c, <1>t, <2>2 DEF CycleTypes
    <3> QED
      BY <3>1, AddAt
  <2>5. /\ done' \in [Rovers -> Nat]
        /\ \A p \in Rovers : done'[p] = IF p = r THEN 0 ELSE done[p]
    BY <1>c, <2>1 DEF CycleTypes
  <2>6. CycleTypes'
    BY <1>c, <2>1, <2>3, <2>4, <2>5 DEF CycleTypes, server, rover
  <2>7. \A p \in Rovers : /\ Has(armed', p) = IF p = r THEN 1 ELSE Has(armed, p)
                          /\ Has(resting', p) = IF p = r THEN 0 ELSE Has(resting, p)
    BY <2>1 DEF Has
  <2>8. ASSUME NEW p \in Rovers
        PROVE  Has(armed', p) + Has(resting', p) + called'[p] + done'[p] + lost'[p] + extra[p]
                 = Has(armed, p) + Has(resting, p) + called[p] + done[p] + lost[p] + extra'[p]
    <3>1. CASE p = r
      <4>1. /\ Has(armed', p) = 1 /\ Has(resting', p) = 0 /\ done'[p] = 0
            /\ called'[p] = called[p] /\ extra'[p] = extra[p] + 1
            /\ lost'[p] = lost[p] + (Has(armed, p) + Has(resting, p) + done[p])
        <5>1. UNCHANGED called
          BY <2>1
        <5>2. lost'[p] = lost[p] + k
          BY <2>1, <2>4, <3>1
        <5>3. extra'[p] = extra[p] + 1
          BY <2>1, <2>3, <3>1
        <5>4. lost'[p] = lost[p] + (Has(armed, p) + Has(resting, p) + done[p])
          BY <3>1, <5>2
        <5>5. Has(armed', p) = 1 /\ Has(resting', p) = 0 /\ done'[p] = 0
          BY <2>5, <2>7, <3>1
        <5> QED
          BY <5>1, <5>3, <5>4, <5>5
      <4>2. /\ Has(armed, p) \in Nat /\ Has(resting, p) \in Nat
            /\ called[p] \in Nat /\ done[p] \in Nat /\ lost[p] \in Nat /\ extra[p] \in Nat
        BY <1>h, <1>t
      <4>3. \A a, b, c, e, l, x \in Nat :
               1 + 0 + c + 0 + (l + (a + b + e)) + x = a + b + c + e + l + (x + 1)
        OBVIOUS
      <4>4. 1 + 0 + called[p] + 0 + (lost[p] + (Has(armed, p) + Has(resting, p) + done[p])) + extra[p]
               = Has(armed, p) + Has(resting, p) + called[p] + done[p] + lost[p] + (extra[p] + 1)
        BY <4>2, <4>3
      <4> HIDE DEF k
      <4> QED
        BY <4>1, <4>4
    <3>2. CASE p # r
      BY <1>h, <1>t, <2>1, <2>3, <2>4, <2>5, <2>7, <3>2
    <3> QED
      BY <3>1, <3>2
  <2> QED
    BY <2>1, <2>6, <2>8, ShimOnly
<1> QED
  BY <1>1, <1>2, <1>3, <1>4

-----------------------------------------------------------------------------
(* The service thread, haphazard and the action client's thread *)

LEMMA HandleAddRequestAt ==
    ASSUME CycleTypes, NEW r \in Rovers, NEW flag, HandleAddRequest(r, flag)
    PROVE  /\ queue' \in Seq(Packages) /\ Len(queue') <= QueueCapacity
           /\ lost' \in [Rovers -> Nat]
           /\ \A p \in Rovers :
                 Count(queue', p, Served) + lost'[p]
                    = Count(queue, p, Served) + lost[p] + IF p = r THEN 1 ELSE 0
<1> DEFINE x == [rover |-> r, flag |-> flag]
<1>1. /\ queue \in Seq(Packages) /\ Len(queue) <= QueueCapacity
      /\ lost \in [Rovers -> Nat] /\ lost[r] + 1 >= 0 /\ 1 \in Int
  BY DEF CycleTypes
<1>2. /\ Add(lost, r, 1) \in [Rovers -> Nat]
      /\ \A p \in Rovers : Add(lost, r, 1)[p] = IF p = r THEN lost[p] + 1 ELSE lost[p]
  BY <1>1, AddAt
<1>3. \A p \in Rovers : Count(queue, p, Served) \in Nat /\ lost[p] \in Nat
  BY <1>1, CountType
<1>4. flag \in Flags => x \in Packages
  BY DEF Packages
<1>5. /\ x.rover = r /\ x.flag = flag
      /\ queue' = IF flag \in Flags THEN QueuePush(queue, <<x>>) ELSE queue
      /\ lost' = IF flag \in Served /\ queue' # queue THEN lost ELSE Add(lost, r, 1)
  BY DEF HandleAddRequest
<1> HIDE DEF x
<1>6. CASE flag \in Flags /\ queue' # queue
  <2>1. /\ QueuePush(queue, <<x>>) \in Seq(Packages)
        /\ Len(QueuePush(queue, <<x>>)) <= QueueCapacity
        /\ QueuePush(queue, <<x>>) # queue => \A p :
              Count(QueuePush(queue, <<x>>), p, Served)
                 = Count(queue, p, Served)
                   + IF x.rover = p /\ x.flag \in Served THEN 1 ELSE 0
    BY <1>1, <1>4, <1>6, PushOne
  <2>2. /\ queue' \in Seq(Packages) /\ Len(queue') <= QueueCapacity
        /\ \A p : Count(queue', p, Served)
                     = Count(queue, p, Served) + IF r = p /\ flag \in Served THEN 1 ELSE 0
    BY <1>5, <1>6, <2>1
  <2>3. CASE flag \in Served
    <3>1. /\ lost' = lost
          /\ \A p : Count(queue', p, Served)
                       = Count(queue, p, Served) + IF r = p THEN 1 ELSE 0
      BY <1>5, <1>6, <2>2, <2>3
    <3> QED
      BY <1>1, <1>3, <2>2, <3>1
  <2>4. CASE flag \notin Served
    <3>1. /\ lost' = Add(lost, r, 1)
          /\ \A p \in Rovers : Count(queue', p, Served) = Count(queue, p, Served)
      BY <1>3, <1>5, <2>2, <2>4
    <3> QED
      BY <1>2, <1>3, <2>2, <3>1
  <2> QED
    BY <2>3, <2>4
<1>7. CASE queue' = queue
  BY <1>1, <1>2, <1>3, <1>5, <1>7
<1> QED
  BY <1>5, <1>6, <1>7

LEMMA ServiceKeeps ==
    ASSUME CycleInv, NEW r \in Rovers,
           ShimCall(r) \/ \E flag \in ManualFlags : ManualCall(r, flag)
    PROVE  CycleInv'
<1>c. CycleTypes
  BY DEF CycleInv
<1>1. CASE ShimCall(r)
  <2>1. /\ called[r] > 0 /\ called' = Add(called, r, -1)
        /\ HandleAddRequest(r, ROUTE_REQUEST)
        /\ UNCHANGED <<armed, resting, done, pending, sending, goals, results, extra>>
    BY <1>1 DEF ShimCall, rover
  <2>2. /\ queue' \in Seq(Packages) /\ Len(queue') <= QueueCapacity
        /\ lost' \in [Rovers -> Nat]
        /\ \A p \in Rovers :
              Count(queue', p, Served) + lost'[p]
                 = Count(queue, p, Served) + lost[p] + IF p = r THEN 1 ELSE 0
    BY <1>c, <2>1, HandleAddRequestAt
  <2>3. /\ called' \in [Rovers -> Nat]
        /\ \A p \in Rovers : called'[p] = called[p] - IF p = r THEN 1 ELSE 0
    <3>1. -1 \in Int /\ called[r] + (-1) >= 0 /\ called \in [Rovers -> Nat]
      BY <1>c, <2>1 DEF CycleTypes
    <3>2. /\ Add(called, r, -1) \in [Rovers -> Nat]
          /\ \A p \in Rovers :
                Add(called, r, -1)[p] = IF p = r THEN called[p] + (-1) ELSE called[p]
      BY <3>1, AddAt
    <3> QED
      BY <2>1, <3>1, <3>2
  <2>4. CycleTypes'
    BY <1>c, <2>1, <2>2, <2>3 DEF CycleTypes
  <2>5. ASSUME NEW p \in Rovers PROVE Balanced(p)
    <3> DEFINE d == IF p = r THEN 1 ELSE 0
    <3>1. /\ called'[p] = called[p] - d /\ d \in Nat
          /\ Count(queue', p, Served) + lost'[p] = Count(queue, p, Served) + lost[p] + d
      BY <2>2, <2>3
    <3> HIDE DEF d
    <3>2. /\ called'[p] \in Nat /\ Count(queue', p, Served) \in Nat /\ lost'[p] \in Nat
      BY <2>2, <2>3, CountType
    <3>3. /\ AtShim(p)' = AtShim(p) - d /\ AtRover(p)' = AtRover(p) /\ extra' = extra
      BY <1>c, <2>1, <3>1, <3>2, PlacesTypes DEF AtShim, AtRover
    <3>4. AtServer(p)' + lost'[p] = AtServer(p) + lost[p] + d
      BY <1>c, <2>1, <3>1, <3>2, PlacesTypes DEF AtServer
    <3>5. AtServer(p)' \in Nat
      BY <2>4, AccountNext DEF Accounts
    <3> QED
      BY <1>c, <3>1, <3>2, <3>3, <3>4, <3>5, PlacesTypes DEF Balanced
  <2> QED
    BY <2>4, <2>5, AccountKept
<1>2. ASSUME NEW flag \in ManualFlags, ManualCall(r, flag)
      PROVE  CycleInv'
  <2>1. /\ extra' = Add(extra, r, 1)
        /\ HandleAddRequest(r, flag)
        /\ UNCHANGED <<armed, resting, called, done, pending, sending, goals, results>>
    BY <1>2 DEF ManualCall, rover, shim
  <2>2. /\ queue' \in Seq(Packages) /\ Len(queue') <= QueueCapacity
        /\ lost' \in [Rovers -> Nat]
        /\ \A p \in Rovers :
              Count(queue', p, Served) + lost'[p]
                 = Count(queue, p, Served) + lost[p] + IF p = r THEN 1 ELSE 0
    BY <1>c, <2>1, HandleAddRequestAt
  <2>3. /\ extra' \in [Rovers -> Nat]
        /\ \A p \in Rovers : extra'[p] = extra[p] + IF p = r THEN 1 ELSE 0
    <3>1. 1 \in Int /\ extra[r] + 1 >= 0 /\ extra \in [Rovers -> Nat]
      BY <1>c DEF CycleTypes
    <3>2. /\ Add(extra, r, 1) \in [Rovers -> Nat]
          /\ \A p \in Rovers :
                Add(extra, r, 1)[p] = IF p = r THEN extra[p] + 1 ELSE extra[p]
      BY <3>1, AddAt
    <3> QED
      BY <2>1, <3>1, <3>2
  <2>4. CycleTypes'
    BY <1>c, <2>1, <2>2, <2>3 DEF CycleTypes
  <2>5. ASSUME NEW p \in Rovers PROVE Balanced(p)
    <3> DEFINE d == IF p = r THEN 1 ELSE 0
    <3>1. /\ extra'[p] = extra[p] + d /\ d \in Nat
          /\ Count(queue', p, Served) + lost'[p] = Count(queue, p, Served) + lost[p] + d
      BY <2>2, <2>3
    <3> HIDE DEF d
    <3>2. Count(queue', p, Served) \in Nat /\ lost'[p] \in Nat
      BY <2>2, CountType
    <3>3. AtShim(p)' = AtShim(p) /\ AtRover(p)' = AtRover(p)
      BY <2>1 DEF AtShim, AtRover
    <3>4. AtServer(p)' + lost'[p] = AtServer(p) + lost[p] + d
      BY <1>c, <2>1, <3>1, <3>2, PlacesTypes DEF AtServer
    <3>5. AtServer(p)' \in Nat
      BY <2>4, AccountNext DEF Accounts
    <3> QED
      BY <1>c, <3>1, <3>2, <3>3, <3>4, <3>5, PlacesTypes DEF Balanced
  <2> QED
    BY <2>4, <2>5, AccountKept
<1> QED
  BY <1>1, <1>2

LEMMA GoalKeeps ==
    ASSUME CycleInv, NEW r \in Rovers,
           GoalSucceeds(r) \/ GoalCancelled(r) \/ PublishDone(r)
    PROVE  CycleInv'
<1>c. CycleTypes
  BY DEF CycleInv
<1>t. /\ goals \in [Rovers -> Nat] /\ results \in [Rovers -> Nat]
      /\ lost \in [Rovers -> Nat] /\ done \in [Rovers -> Nat]
  BY <1>c DEF CycleTypes
<1>1. CASE GoalSucceeds(r)
  <2>1. /\ goals[r] > 0 /\ goals' = Add(goals, r, -1) /\ results' = Add(results, r, 1)
        /\ UNCHANGED <<armed, resting, called, done, queue, pending, sending, extra, lost>>
    BY <1>1 DEF GoalSucceeds, shim, server
  <2>2. /\ goals' \in [Rovers -> Nat]
        /\ \A p \in Rovers : goals'[p] = goals[p] - IF p = r THEN 1 ELSE 0
    <3>1. -1 \in Int /\ goals[r] + (-1) >= 0
      BY <1>t, <2>1
    <3>2. /\ Add(goals, r, -1) \in [Rovers -> Nat]
          /\ \A p \in Rovers : Add(goals, r, -1)[p] = IF p = r THEN goals[p] + (-1) ELSE goals[p]
      BY <1>t, <3>1, AddAt
    <3> QED
      BY <1>t, <2>1, <3>2
  <2>3. /\ results' \in [Rovers -> Nat]
        /\ \A p \in Rovers : results'[p] = results[p] + IF p = r THEN 1 ELSE 0
    <3>1. 1 \in Int /\ results[r] + 1 >= 0
      BY <1>t
    <3>2. /\ Add(results, r, 1) \in [Rovers -> Nat]
          /\ \A p \in Rovers : Add(results, r, 1)[p] = IF p = r THEN results[p] + 1 ELSE results[p]
      BY <1>t, <3>1, AddAt
    <3> QED
      BY <1>t, <2>1, <3>2
  <2>4. CycleTypes'
    BY <1>c, <2>1, <2>2, <2>3 DEF CycleTypes
  <2>5. ASSUME NEW p \in Rovers PROVE Balanced(p)
    <3> DEFINE d == IF p = r THEN 1 ELSE 0
    <3>1. goals'[p] = goals[p] - d /\ results'[p] = results[p] + d /\ d \in Nat
      BY <2>2, <2>3
    <3> HIDE DEF d
    <3>2. goals[p] \in Nat /\ results[p] \in Nat
      BY <1>t
    <3>3. AtRover(p)' = AtRover(p)
      BY <3>1, <3>2 DEF AtRover
    <3>4. AtShim(p)' = AtShim(p) /\ AtServer(p)' = AtServer(p)
      BY <2>1 DEF AtShim, AtServer
    <3> QED
      BY <2>1, <3>3, <3>4 DEF Balanced
  <2> QED
    BY <2>4, <2>5, AccountKept
<1>2. CASE GoalCancelled(r)
  <2>1. /\ goals[r] > 0 /\ goals' = Add(goals, r, -1) /\ lost' = Add(lost, r, 1)
        /\ UNCHANGED <<armed, resting, called, done, queue, pending, sending, results, extra>>
    BY <1>2 DEF GoalCancelled, shim, server
  <2>2. /\ goals' \in [Rovers -> Nat]
        /\ \A p \in Rovers : goals'[p] = goals[p] - IF p = r THEN 1 ELSE 0
    <3>1. -1 \in Int /\ goals[r] + (-1) >= 0
      BY <1>t, <2>1
    <3>2. /\ Add(goals, r, -1) \in [Rovers -> Nat]
          /\ \A p \in Rovers : Add(goals, r, -1)[p] = IF p = r THEN goals[p] + (-1) ELSE goals[p]
      BY <1>t, <3>1, AddAt
    <3> QED
      BY <1>t, <2>1, <3>2
  <2>3. /\ lost' \in [Rovers -> Nat]
        /\ \A p \in Rovers : lost'[p] = lost[p] + IF p = r THEN 1 ELSE 0
    <3>1. 1 \in Int /\ lost[r] + 1 >= 0
      BY <1>t
    <3>2. /\ Add(lost, r, 1) \in [Rovers -> Nat]
          /\ \A p \in Rovers : Add(lost, r, 1)[p] = IF p = r THEN lost[p] + 1 ELSE lost[p]
      BY <1>t, <3>1, AddAt
    <3> QED
      BY <1>t, <2>1, <3>2
  <2>4. CycleTypes'
    BY <1>c, <2>1, <2>2, <2>3 DEF CycleTypes
  <2>5. ASSUME NEW p \in Rovers PROVE Balanced(p)
    <3> DEFINE d == IF p = r THEN 1 ELSE 0
    <3>1. goals'[p] = goals[p] - d /\ lost'[p] = lost[p] + d /\ d \in Nat
      BY <2>2, <2>3
    <3> HIDE DEF d
    <3>2. goals[p] \in Nat /\ results[p] \in Nat /\ lost[p] \in Nat
      BY <1>t
    <3>3. AtRover(p)' = AtRover(p) - d
      BY <2>1, <3>1, <3>2 DEF AtRover
    <3>4. AtShim(p)' = AtShim(p) /\ AtServer(p)' = AtServer(p) /\ extra' = extra
      BY <2>1 DEF AtShim, AtServer
    <3> QED
      BY <1>c, <3>1, <3>2, <3>3, <3>4, PlacesTypes DEF Balanced
  <2> QED
    BY <2>4, <2>5, AccountKept
<1>3. CASE PublishDone(r)
  <2>1. /\ results[r] > 0 /\ results' = Add(results, r, -1)
        /\ done' = [done EXCEPT ![r] = 1] /\ lost' = Add(lost, r, done[r])
        /\ UNCHANGED <<armed, resting, called, queue, pending, sending, goals, extra>>
    BY <1>3 DEF PublishDone, server
  <2>2. /\ results' \in [Rovers -> Nat]
        /\ \A p \in Rovers : results'[p] = results[p] - IF p = r THEN 1 ELSE 0
    <3>1. -1 \in Int /\ results[r] + (-1) >= 0
      BY <1>t, <2>1
    <3>2. /\ Add(results, r, -1) \in [Rovers -> Nat]
          /\ \A p \in Rovers :
                Add(results, r, -1)[p] = IF p = r THEN results[p] + (-1) ELSE results[p]
      BY <1>t, <3>1, AddAt
    <3> QED
      BY <1>t, <2>1, <3>2
  <2>3. /\ lost' \in [Rovers -> Nat]
        /\ \A p \in Rovers : lost'[p] = lost[p] + IF p = r THEN done[p] ELSE 0
    <3>1. done[r] \in Int /\ lost[r] + done[r] >= 0
      BY <1>t
    <3>2. /\ Add(lost, r, done[r]) \in [Rovers -> Nat]
          /\ \A p \in Rovers :
                Add(lost, r, done[r])[p] = IF p = r THEN lost[p] + done[r] ELSE lost[p]
      BY <1>t, <3>1, AddAt
    <3> QED
      BY <1>t, <2>1, <3>2
  <2>4. /\ done' \in [Rovers -> Nat]
        /\ \A p \in Rovers : done'[p] = IF p = r THEN 1 ELSE done[p]
    BY <1>t, <2>1
  <2>5. CycleTypes'
    BY <1>c, <2>1, <2>2, <2>3, <2>4 DEF CycleTypes
  <2>6. ASSUME NEW p \in Rovers PROVE Balanced(p)
    <3>1. done'[p] + results'[p] + lost'[p] = done[p] + results[p] + lost[p]
      BY <1>t, <2>2, <2>3, <2>4
    <3>2. /\ done[p] \in Nat /\ results[p] \in Nat /\ lost[p] \in Nat
          /\ done'[p] \in Nat /\ results'[p] \in Nat /\ lost'[p] \in Nat
      BY <1>t, <2>2, <2>3, <2>4
    <3>3. AtRover(p)' = AtRover(p) - results[p] + results'[p]
      BY <1>c, <2>1, <3>2, PlacesTypes DEF AtRover
    <3>4. AtShim(p)' = AtShim(p) - done[p] + done'[p]
      BY <1>c, <2>1, <3>2, PlacesTypes DEF AtShim
    <3>5. AtServer(p)' = AtServer(p) /\ extra' = extra
      BY <2>1 DEF AtServer
    <3> QED
      BY <1>c, <3>1, <3>2, <3>3, <3>4, <3>5, PlacesTypes DEF Balanced
  <2> QED
    BY <2>5, <2>6, AccountKept
<1> QED
  BY <1>1, <1>2, <1>3

-----------------------------------------------------------------------------
(* The main loop *)

\* A step of the main loop: it moves routes between the queue, the heap, the
\* packages and the goals, or gives them up.
LEMMA MainOnly ==
    ASSUME CycleInv, CycleTypes', UNCHANGED <<armed, resting, called, done, results, extra>>,
           \A p \in Rovers :
              AtServer(p)' + goals'[p] + lost'[p] = AtServer(p) + goals[p] + lost[p]
    PROVE  CycleInv'
<1> SUFFICES ASSUME NEW p \in Rovers PROVE Balanced(p)
  BY AccountKept
<1>1. AtShim(p)' = AtShim(p) /\ results' = results /\ extra' = extra
  BY DEF AtShim
<1>2. /\ AtServer(p) \in Nat /\ AtShim(p) \in Nat /\ goals[p] \in Nat
      /\ results[p] \in Nat /\ lost[p] \in Nat /\ extra[p] \in Nat
  BY PlacesTypes DEF CycleInv
<1>3. /\ AtServer(p)' \in Nat /\ lost'[p] \in Nat /\ goals'[p] \in Nat
  BY AccountNext DEF Accounts, CycleTypes
<1>4. AtRover(p)' = goals'[p] + results[p] /\ AtRover(p) = goals[p] + results[p]
  BY <1>1 DEF AtRover
<1>5. AtServer(p)' + goals'[p] + lost'[p] = AtServer(p) + goals[p] + lost[p]
  OBVIOUS
<1> QED
  BY <1>1, <1>2, <1>3, <1>4, <1>5 DEF Balanced

LEMMA LoseOne ==
    ASSUME CycleTypes, NEW r \in Rovers
    PROVE  /\ Add(lost, r, 1) \in [Rovers -> Nat]
           /\ \A p \in Rovers : Add(lost, r, 1)[p] = lost[p] + IF p = r THEN 1 ELSE 0
<1>1. lost \in [Rovers -> Nat] /\ 1 \in Int /\ lost[r] + 1 >= 0
  BY DEF CycleTypes
<1>2. /\ Add(lost, r, 1) \in [Rovers -> Nat]
      /\ \A p \in Rovers : Add(lost, r, 1)[p] = IF p = r THEN lost[p] + 1 ELSE lost[p]
  BY <1>1, AddAt
<1> QED
  BY <1>1, <1>2

LEMMA TakeHead ==
    ASSUME CycleTypes, queue # <<>>
    PROVE  /\ Tail(queue) \in Seq(Packages) /\ Len(Tail(queue)) < QueueCapacity
           /\ Head(queue) \in Packages
           /\ \A p \in Rovers :
                 Count(queue, p, Served)
                    = Count(Tail(queue), p, Served)
                      + IF Head(queue).rover = p /\ Head(queue).flag \in Served
                        THEN 1 ELSE 0
<1>1. queue \in Seq(Packages) /\ Len(queue) <= QueueCapacity
  BY DEF CycleTypes
<1>2. /\ Head(queue) \in Packages /\ Tail(queue) \in Seq(Packages)
      /\ Len(Tail(queue)) = Len(queue) - 1 /\ Len(queue) \in Nat /\ QueueCapacity \in Nat
  BY <1>1, HeadTailProperties, LenProperties, CycleAssumption
<1> QED
  BY <1>1, <1>2, CountTail

LEMMA PlannedIsRoute ==
    ASSUME CycleTypes, Plannable
    PROVE  /\ Asker \in Rovers /\ Planned \in Routes /\ Planned \in Packages
           /\ Planned.rover = Asker /\ Planned.flag \in Flags /\ Planned.flag \notin Served
           /\ \A p \in Rovers :
                 Count(queue, p, Served)
                    = Count(Tail(queue), p, Served) + IF p = Asker THEN 1 ELSE 0
<1>1. queue # <<>> /\ Head(queue).flag \in Served
  BY DEF Plannable
<1>2. Head(queue) \in Packages
  BY <1>1, TakeHead
<1>3. Asker \in Rovers
  BY <1>2 DEF Asker, Packages
<1>4. PlannedFlag(Head(queue).flag) \in Flags \ Served
  BY ServedFlags
<1>5. \A p \in Rovers : Count(queue, p, Served)
                           = Count(Tail(queue), p, Served) + IF p = Asker THEN 1 ELSE 0
  BY <1>1, TakeHead DEF Asker
<1> QED
  BY <1>3, <1>4, <1>5 DEF Planned, Routes, Packages

LEMMA HeapPushAt ==
    ASSUME CycleTypes, NEW x \in Routes, HeapPush(x)
    PROVE  /\ pending' \in Seq(Routes) /\ lost' \in [Rovers -> Nat]
           /\ \A p \in Rovers :
                 Count(pending', p, Flags) + lost'[p]
                    = Count(pending, p, Flags) + lost[p] + IF p = x.rover THEN 1 ELSE 0
<1>1. /\ pending \in Seq(Routes) /\ lost \in [Rovers -> Nat]
      /\ x.rover \in Rovers /\ x.flag \in Flags
  BY DEF CycleTypes, Routes
<1>2. \A p \in Rovers : Count(pending, p, Flags) \in Nat /\ lost[p] \in Nat
  BY <1>1, CountType
<1>l. /\ Add(lost, x.rover, 1) \in [Rovers -> Nat]
      /\ \A p \in Rovers :
            Add(lost, x.rover, 1)[p] = lost[p] + IF p = x.rover THEN 1 ELSE 0
  BY <1>1, LoseOne
<1>3. CASE pending' = Append(pending, x) /\ UNCHANGED lost
  <2> DEFINE one == <<x>>
  <2>1. one \in Seq(Routes)
    OBVIOUS
  <2>2. Append(pending, x) = pending \o one
    BY <1>1
  <2>3. \A p \in Rovers : Count(one, p, Flags) = IF p = x.rover THEN 1 ELSE 0
    BY <1>1, CountOne
  <2> HIDE DEF one
  <2>4. \A p \in Rovers :
           Count(pending \o one, p, Flags) = Count(pending, p, Flags) + Count(one, p, Flags)
    BY <1>1, <2>1, CountConcat
  <2>5. pending' \in Seq(Routes)
    BY <1>1, <1>3
  <2>6. pending' = pending \o one /\ lost' = lost
    BY <1>3, <2>2
  <2> QED
    BY <1>1, <1>2, <2>3, <2>4, <2>5, <2>6
<1>4. CASE UNCHANGED pending /\ lost' = Add(lost, x.rover, 1)
  <2>1. \A p \in Rovers : /\ lost'[p] = lost[p] + IF p = x.rover THEN 1 ELSE 0
                          /\ Count(pending', p, Flags) = Count(pending, p, Flags)
    BY <1>4, <1>l
  <2>2. pending' \in Seq(Routes) /\ lost' \in [Rovers -> Nat]
    BY <1>1, <1>4, <1>l
  <2>3. ASSUME NEW a \in Nat, NEW b \in Nat, NEW d \in Nat PROVE a + (b + d) = a + b + d
    OBVIOUS
  <2>4. \A p \in Rovers : (IF p = x.rover THEN 1 ELSE 0) \in Nat
    OBVIOUS
  <2> QED
    BY <1>2, <2>1, <2>2, <2>3, <2>4
<1>5. ASSUME NEW i \in DOMAIN pending, pending[i].rover = x.rover,
             pending' = [pending EXCEPT ![i] = x], lost' = Add(lost, x.rover, 1)
      PROVE  /\ pending' \in Seq(Routes) /\ lost' \in [Rovers -> Nat]
             /\ \A p \in Rovers :
                   Count(pending', p, Flags) + lost'[p]
                      = Count(pending, p, Flags) + lost[p] + IF p = x.rover THEN 1 ELSE 0
  <2>1. pending' \in Seq(Routes) /\ DOMAIN pending' = DOMAIN pending
    BY <1>1, <1>5
  <2>2. \A k \in DOMAIN pending : pending[k] \in Routes
    BY <1>1, ElementOfSeq, LenProperties
  <2>3. \A p : Where(pending', p, Flags) = Where(pending, p, Flags)
    BY <1>1, <1>5, <2>1, <2>2 DEF Where, Routes
  <2>4. \A p : Count(pending', p, Flags) = Count(pending, p, Flags)
    BY <2>3 DEF Count, Where
  <2> QED
    <3>1. \A p \in Rovers : lost'[p] = lost[p] + IF p = x.rover THEN 1 ELSE 0
      BY <1>5, <1>l
    <3>2. lost' \in [Rovers -> Nat]
      BY <1>5, <1>l
    <3>3. ASSUME NEW a \in Nat, NEW b \in Nat, NEW d \in Nat PROVE a + (b + d) = a + b + d
      OBVIOUS
    <3>4. \A p \in Rovers : (IF p = x.rover THEN 1 ELSE 0) \in Nat
      OBVIOUS
    <3> QED
      BY <1>2, <2>1, <2>4, <3>1, <3>2, <3>3, <3>4
<1> QED
  BY <1>3, <1>4, <1>5 DEF HeapPush

LEMMA PlanKeeps ==
    ASSUME CycleInv, Drop \/ PlanNothing \/ PlanRetry \/ PlanRoute
    PROVE  CycleInv'
<1>c. CycleTypes
  BY DEF CycleInv
<1>q. queue # <<>>
  BY DEF Drop, PlanNothing, PlanRetry, PlanRoute, Plannable
<1>h. /\ Tail(queue) \in Seq(Packages) /\ Len(Tail(queue)) < QueueCapacity
      /\ QueueCapacity \in Nat /\ Len(Tail(queue)) \in Nat
      /\ \A p \in Rovers : Count(Tail(queue), p, Served) \in Nat
  BY <1>c, <1>q, TakeHead, CountType, CycleAssumption, LenProperties
<1>1. CASE Drop
  <2>1. /\ Head(queue).flag \notin Served /\ queue' = Tail(queue)
        /\ UNCHANGED <<armed, resting, called, done, pending, sending, goals, results,
                       extra, lost>>
    BY <1>1 DEF Drop, shim, rover
  <2>2. CycleTypes'
    BY <1>c, <1>h, <2>1 DEF CycleTypes
  <2>3. \A p \in Rovers : Count(queue', p, Served) = Count(queue, p, Served)
    BY <1>c, <1>h, <1>q, <2>1, TakeHead
  <2>4. \A p \in Rovers : AtServer(p)' = AtServer(p)
    BY <2>1, <2>3 DEF AtServer
  <2> QED
    BY <2>1, <2>2, <2>4, MainOnly
<1>2. CASE PlanNothing
  <2>1. /\ Plannable /\ queue' = Tail(queue) /\ lost' = Add(lost, Asker, 1)
        /\ UNCHANGED <<armed, resting, called, done, pending, sending, goals, results, extra>>
    BY <1>2 DEF PlanNothing, shim, rover
  <2>2. /\ lost' \in [Rovers -> Nat]
        /\ \A p \in Rovers : lost'[p] = lost[p] + IF p = Asker THEN 1 ELSE 0
    BY <1>c, <2>1, PlannedIsRoute, LoseOne
  <2>3. CycleTypes'
    BY <1>c, <1>h, <2>1, <2>2 DEF CycleTypes
  <2>4. ASSUME NEW p \in Rovers
        PROVE  AtServer(p)' + goals'[p] + lost'[p] = AtServer(p) + goals[p] + lost[p]
    <3> DEFINE d == IF p = Asker THEN 1 ELSE 0
    <3>1. /\ Count(queue, p, Served) = Count(queue', p, Served) + d
          /\ lost'[p] = lost[p] + d /\ d \in Nat /\ Count(queue', p, Served) \in Nat
      BY <1>c, <1>h, <2>1, <2>2, PlannedIsRoute
    <3> HIDE DEF d
    <3>2. AtServer(p) = AtServer(p)' + d
      BY <1>c, <2>1, <3>1, PlacesTypes DEF AtServer
    <3>3. AtServer(p)' \in Nat
      BY <2>3, AccountNext DEF Accounts
    <3> QED
      BY <1>c, <2>1, <3>1, <3>2, <3>3, PlacesTypes
  <2> QED
    BY <2>1, <2>3, <2>4, MainOnly
<1>3. CASE PlanRetry
  <2> DEFINE t == Tail(queue)
             one == <<Planned>>
  <2>1. /\ Plannable /\ queue' = QueuePush(t, one) /\ lost' = Add(lost, Asker, 1)
        /\ UNCHANGED <<armed, resting, called, done, pending, sending, goals, results, extra>>
    BY <1>3 DEF PlanRetry, shim, rover
  <2>2. /\ lost' \in [Rovers -> Nat]
        /\ \A p \in Rovers : lost'[p] = lost[p] + IF p = Asker THEN 1 ELSE 0
    BY <1>c, <2>1, PlannedIsRoute, LoseOne
  <2>3. one \in Seq(Packages) /\ \A i \in DOMAIN one : one[i].flag \notin Served
    BY <1>c, <2>1, PlannedIsRoute
  <2>t. t \in Seq(Packages) /\ Len(t) <= QueueCapacity
    BY <1>h
  <2> HIDE DEF t, one
  <2>4. /\ queue' \in Seq(Packages) /\ Len(queue') <= QueueCapacity
        /\ \A p : Count(queue', p, Served) = Count(t, p, Served)
    BY <2>1, <2>3, <2>t, PushMany
  <2>5. CycleTypes'
    BY <1>c, <2>1, <2>2, <2>4 DEF CycleTypes
  <2>6. ASSUME NEW p \in Rovers
        PROVE  AtServer(p)' + goals'[p] + lost'[p] = AtServer(p) + goals[p] + lost[p]
    <3> DEFINE d == IF p = Asker THEN 1 ELSE 0
    <3>1. /\ Count(queue, p, Served) = Count(queue', p, Served) + d
          /\ lost'[p] = lost[p] + d /\ d \in Nat /\ Count(queue', p, Served) \in Nat
      BY <1>c, <1>h, <2>1, <2>2, <2>4, PlannedIsRoute DEF t
    <3> HIDE DEF d
    <3>2. AtServer(p) = AtServer(p)' + d
      BY <1>c, <2>1, <3>1, PlacesTypes DEF AtServer
    <3>3. AtServer(p)' \in Nat
      BY <2>5, AccountNext DEF Accounts
    <3> QED
      BY <1>c, <2>1, <3>1, <3>2, <3>3, PlacesTypes
  <2> QED
    BY <2>1, <2>5, <2>6, MainOnly
<1>4. CASE PlanRoute
  <2>1. /\ Plannable /\ queue' = Tail(queue) /\ HeapPush(Planned)
        /\ UNCHANGED <<armed, resting, called, done, sending, goals, results, extra>>
    BY <1>4 DEF PlanRoute, shim, rover
  <2>2. Planned \in Routes /\ Planned.rover = Asker
    BY <1>c, <2>1, PlannedIsRoute
  <2>3. /\ pending' \in Seq(Routes) /\ lost' \in [Rovers -> Nat]
        /\ \A p \in Rovers :
              Count(pending', p, Flags) + lost'[p]
                 = Count(pending, p, Flags) + lost[p] + IF p = Asker THEN 1 ELSE 0
    BY <1>c, <2>1, <2>2, HeapPushAt
  <2>4. CycleTypes'
    BY <1>c, <1>h, <2>1, <2>3 DEF CycleTypes
  <2>5. ASSUME NEW p \in Rovers
        PROVE  AtServer(p)' + goals'[p] + lost'[p] = AtServer(p) + goals[p] + lost[p]
    <3> DEFINE d == IF p = Asker THEN 1 ELSE 0
    <3>1. /\ Count(queue, p, Served) = Count(queue', p, Served) + d
          /\ Count(pending', p, Flags) + lost'[p] = Count(pending, p, Flags) + lost[p] + d
          /\ d \in Nat /\ Count(queue', p, Served) \in Nat
          /\ Count(pending', p, Flags) \in Nat /\ lost'[p] \in Nat
      <4>1. Count(queue, p, Served) = Count(queue', p, Served) + d
        BY <1>c, <2>1, PlannedIsRoute
      <4>2. Count(pending', p, Flags) + lost'[p] = Count(pending, p, Flags) + lost[p] + d
        BY <2>3
      <4>3. Count(queue', p, Served) \in Nat /\ lost'[p] \in Nat
        BY <1>h, <2>1, <2>3
      <4>4. Count(pending', p, Flags) \in Nat
        BY <2>3, CountType
      <4> QED
        BY <4>1, <4>2, <4>3, <4>4
    <3> HIDE DEF d
    <3>0. /\ Count(sending', p, Flags) = Count(sending, p, Flags)
          /\ Count(sending, p, Flags) \in Nat /\ Count(queue, p, Served) \in Nat
          /\ Count(pending, p, Flags) \in Nat /\ lost[p] \in Nat
      BY <1>c, <2>1, PlacesTypes
    <3>2. AtServer(p)' + lost'[p] = AtServer(p) + lost[p]
      BY <3>0, <3>1 DEF AtServer
    <3>3. AtServer(p)' \in Nat
      BY <2>4, AccountNext DEF Accounts
    <3>4. AtServer(p) \in Nat /\ goals[p] \in Nat /\ goals' = goals
      BY <1>c, <2>1, PlacesTypes
    <3> QED
      BY <3>0, <3>1, <3>2, <3>3, <3>4
  <2> QED
    BY <2>1, <2>4, <2>5, MainOnly
<1> QED
  BY <1>1, <1>2, <1>3, <1>4

LEMMA BatchKeeps ==
    ASSUME CycleInv, CreateSchedules
    PROVE  CycleInv'
<1>c. CycleTypes
  BY DEF CycleInv
<1> DEFINE left(fate) == With(fate, {"left"})
           sent(fate) == With(fate, {"scheduled", "both"})
           back(fate) == With(fate, {"sent back", "both"})
           gone(fate) == With(fate, {"sent back", "dropped"})
<1>1. PICK fate \in [DOMAIN pending -> Fates] :
        /\ pending' = left(fate) /\ sending' = sent(fate)
        /\ queue' = QueuePush(queue, back(fate))
        /\ lost' = [r \in Rovers |-> lost[r] + Count(gone(fate), r, Flags)]
  BY DEF CreateSchedules
<1>2. UNCHANGED <<armed, resting, called, done, goals, results, extra>> /\ sending = <<>>
  BY DEF CreateSchedules, shim, rover, Free
<1>p. pending \in Seq(Routes)
  BY <1>c DEF CycleTypes
<1>3. /\ left(fate) \in Seq(Routes) /\ sent(fate) \in Seq(Routes)
      /\ back(fate) \in Seq(Routes) /\ gone(fate) \in Seq(Routes)
  BY <1>p, WithProperties
<1>4. \A p : Count(pending, p, Flags)
                = Count(left(fate), p, Flags) + Count(sent(fate), p, Flags)
                  + Count(gone(fate), p, Flags)
  BY <1>p, BatchPartition
<1> HIDE DEF left, sent, back, gone
<1>5. \A p : /\ Count(left(fate), p, Flags) \in Nat /\ Count(sent(fate), p, Flags) \in Nat
             /\ Count(gone(fate), p, Flags) \in Nat
  BY <1>3, CountType
<1>6. /\ queue' \in Seq(Packages) /\ Len(queue') <= QueueCapacity
      /\ \A p : Count(queue', p, Served) = Count(queue, p, Served)
  <2>1. /\ back(fate) \in Seq(Packages)
        /\ \A i \in DOMAIN back(fate) : back(fate)[i].flag \notin Served
    <3>1. \A i \in 1..Len(back(fate)) : back(fate)[i] \in Routes
      BY <1>3, ElementOfSeq
    <3>2. Routes \subseteq Packages
      BY DEF Routes, Packages
    <3>3. DOMAIN back(fate) = 1..Len(back(fate))
      BY <1>3, LenProperties
    <3> QED
      BY <1>3, <3>1, <3>2, <3>3 DEF Routes
  <2>2. queue \in Seq(Packages) /\ Len(queue) <= QueueCapacity
    BY <1>c DEF CycleTypes
  <2> QED
    BY <1>1, <2>1, <2>2, PushMany
<1>7. lost' \in [Rovers -> Nat]
      /\ \A p \in Rovers : lost'[p] = lost[p] + Count(gone(fate), p, Flags)
  <2>1. \A p \in Rovers : lost[p] \in Nat
    BY <1>c DEF CycleTypes
  <2> QED
    BY <1>1, <1>5, <2>1
<1>8. CycleTypes'
  BY <1>c, <1>1, <1>2, <1>3, <1>6, <1>7 DEF CycleTypes
<1>9. ASSUME NEW p \in Rovers
      PROVE  AtServer(p)' + goals'[p] + lost'[p] = AtServer(p) + goals[p] + lost[p]
  <2>1. /\ Count(queue, p, Served) \in Nat /\ Count(pending, p, Flags) \in Nat
        /\ goals[p] \in Nat /\ lost[p] \in Nat /\ goals' = goals
    BY <1>c, <1>2, PlacesTypes
  <2>2. Count(sending, p, Flags) = 0
    BY <1>2, CountEmpty
  <2> DEFINE l == Count(left(fate), p, Flags)
             u == Count(sent(fate), p, Flags)
             g == Count(gone(fate), p, Flags)
  <2>3. /\ Count(pending', p, Flags) = l /\ Count(sending', p, Flags) = u
        /\ Count(queue', p, Served) = Count(queue, p, Served)
        /\ lost'[p] = lost[p] + g /\ Count(pending, p, Flags) = l + u + g
        /\ l \in Nat /\ u \in Nat /\ g \in Nat
    BY <1>1, <1>4, <1>5, <1>6, <1>7
  <2> HIDE DEF l, u, g
  <2> QED
    BY <2>1, <2>2, <2>3 DEF AtServer
<1> QED
  BY <1>2, <1>8, <1>9, MainOnly

LEMMA SendKeeps ==
    ASSUME CycleInv, SendNext
    PROVE  CycleInv'
<1>c. CycleTypes
  BY DEF CycleInv
<1> DEFINE r == Head(sending).rover
<1>1. /\ sending # <<>> /\ Send(r) /\ sending' = Tail(sending)
      /\ UNCHANGED <<armed, resting, called, done, queue, pending, results, extra>>
  BY DEF SendNext, Free, shim
<1>s. /\ sending \in Seq(Routes) /\ goals \in [Rovers -> Nat] /\ lost \in [Rovers -> Nat]
  BY <1>c DEF CycleTypes
<1>2. /\ Head(sending) \in Routes /\ Tail(sending) \in Seq(Routes)
  BY <1>1, <1>s, HeadTailProperties
<1>3. r \in Rovers /\ Head(sending).flag \in Flags
  BY <1>2 DEF Routes
<1>4. \A p \in Rovers : Count(sending, p, Flags)
                           = Count(Tail(sending), p, Flags) + IF p = r THEN 1 ELSE 0
  BY <1>1, <1>3, <1>s, CountTail
<1> HIDE DEF r
<1>5. /\ goals' \in [Rovers -> Nat] /\ lost' \in [Rovers -> Nat]
      /\ \A p \in Rovers : goals'[p] + lost'[p]
                              = goals[p] + lost[p] + IF p = r THEN 1 ELSE 0
  <2>1. CASE goals' = Add(goals, r, 1) /\ UNCHANGED lost
    <3>1. goals[r] + 1 >= 0 /\ 1 \in Int
      BY <1>3, <1>s
    <3>2. /\ Add(goals, r, 1) \in [Rovers -> Nat]
          /\ \A p \in Rovers : Add(goals, r, 1)[p] = IF p = r THEN goals[p] + 1 ELSE goals[p]
      BY <1>3, <1>s, <3>1, AddAt
    <3> QED
      BY <1>s, <2>1, <3>2
  <2>2. CASE lost' = Add(lost, r, 1) /\ UNCHANGED goals
    <3>1. /\ Add(lost, r, 1) \in [Rovers -> Nat]
          /\ \A p \in Rovers : Add(lost, r, 1)[p] = lost[p] + IF p = r THEN 1 ELSE 0
      BY <1>c, <1>3, LoseOne
    <3> QED
      BY <1>s, <2>2, <3>1
  <2> QED
    BY <1>1, <2>1, <2>2 DEF Send
<1>6. CycleTypes'
  BY <1>c, <1>1, <1>2, <1>5 DEF CycleTypes
<1>7. ASSUME NEW p \in Rovers
      PROVE  AtServer(p)' + goals'[p] + lost'[p] = AtServer(p) + goals[p] + lost[p]
  <2> DEFINE d == IF p = r THEN 1 ELSE 0
  <2>1. /\ Count(sending, p, Flags) = Count(sending', p, Flags) + d
        /\ goals'[p] + lost'[p] = goals[p] + lost[p] + d /\ d \in Nat
        /\ goals'[p] \in Nat /\ lost'[p] \in Nat
    BY <1>1, <1>4, <1>5
  <2>2. Count(sending', p, Flags) \in Nat
    BY <1>1, <1>2, CountType
  <2>3. /\ Count(queue, p, Served) \in Nat /\ Count(pending, p, Flags) \in Nat
        /\ goals[p] \in Nat /\ lost[p] \in Nat
    BY <1>c, PlacesTypes
  <2>4. /\ Count(queue', p, Served) = Count(queue, p, Served)
        /\ Count(pending', p, Flags) = Count(pending, p, Flags)
    BY <1>1
  <2> HIDE DEF d
  <2> QED
    BY <2>1, <2>2, <2>3, <2>4 DEF AtServer
<1> QED
  BY <1>1, <1>6, <1>7, MainOnly

-----------------------------------------------------------------------------
(* The theorems *)

\* The account of the requests is an invariant of every behaviour: the steps of
\* rover_shim.cpp, ros2_service_wrapper.cpp, requests_process.c, deconf_main.c,
\* io_send_instructions.cpp and haphazard.cpp keep it, one lemma each.
THEOREM CycleInvariant == Spec => []CycleInv
<1>1. Init => CycleInv
  <2> SUFFICES ASSUME Init PROVE CycleInv
    OBVIOUS
  <2>1. CycleTypes
    BY CycleAssumption DEF Init, CycleTypes
  <2>2. ASSUME NEW r \in Rovers PROVE UnderWay(r) + lost[r] = 1 + extra[r]
    <3>1. Has(armed, r) = 1 /\ Has(resting, r) = 0
      BY DEF Init, Has
    <3>2. /\ Count(queue, r, Served) = 0 /\ Count(pending, r, Flags) = 0
          /\ Count(sending, r, Flags) = 0
      BY CountEmpty DEF Init
    <3>3. /\ called[r] = 0 /\ done[r] = 0 /\ goals[r] = 0 /\ results[r] = 0
          /\ lost[r] = 0 /\ extra[r] = 0
      BY DEF Init
    <3> QED
      BY <3>1, <3>2, <3>3 DEF UnderWay
  <2> QED
    BY <2>1, <2>2 DEF CycleInv, EveryRequestAccountedFor
<1>2. CycleInv /\ [Next]_vars => CycleInv'
  <2> SUFFICES ASSUME CycleInv, [Next]_vars PROVE CycleInv'
    OBVIOUS
  <2>1. CASE MainStep
    BY <2>1, PlanKeeps, BatchKeeps, SendKeeps DEF MainStep
  <2>2. ASSUME NEW r \in Rovers, ShimStep(r) \/ ShimCall(r) \/ PublishDone(r) \/ RoverEvent(r)
        PROVE  CycleInv'
    BY <2>2, ShimKeeps, ServiceKeeps, GoalKeeps DEF ShimStep, RoverEvent
  <2>3. CASE UNCHANGED vars
    <3>1. UNCHANGED <<armed, resting, called, queue, pending, sending, goals, results,
                      done, extra, lost>>
      BY <2>3 DEF vars
    <3>2. CycleTypes'
      BY <3>1 DEF CycleInv, CycleTypes
    <3>3. \A p \in Rovers :
             AtServer(p)' + goals'[p] + lost'[p] = AtServer(p) + goals[p] + lost[p]
      BY <3>1 DEF AtServer
    <3> QED
      BY <3>1, <3>2, <3>3, MainOnly
  <2> QED
    BY <2>1, <2>2, <2>3 DEF Next
<1> QED
  BY <1>1, <1>2, PTL DEF Spec

\* EveryRequestAccountedFor for every configuration: no step anywhere makes two
\* requests of one or loses one unseen.
THEOREM EveryRequestAlwaysAccountedFor == Spec => []EveryRequestAccountedFor
<1>1. CycleInv => EveryRequestAccountedFor
  BY DEF CycleInv
<1> QED
  BY <1>1, CycleInvariant, PTL

LEMMA AtMostOne ==
    ASSUME NEW S, IsFiniteSet(S), Cardinality(S) <= 1, NEW x \in S, NEW y \in S
    PROVE  x = y
<1>1. IsFiniteSet(S \ {x}) /\ Cardinality(S \ {x}) = Cardinality(S) - 1
  BY FS_RemoveElement
<1>2. Cardinality(S) \in Nat /\ Cardinality(S \ {x}) \in Nat
  BY <1>1, FS_CardinalityType
<1>3. Cardinality(S \ {x}) = 0
  BY <1>1, <1>2
<1>4. S \ {x} = {}
  BY <1>1, <1>3, FS_EmptySet
<1> QED
  BY <1>4

\* With one request per rover, no two routes in the heap are of one rover, and none
\* is of the rover whose request is planned: the routes fit into the others.
LEMMA RoomInv == CycleInv => RoomForEveryRoute
<1> SUFFICES ASSUME CycleInv, \A r \in Rovers : extra[r] = 0, Plannable
             PROVE  Len(pending) < Cardinality(Rovers)
  BY DEF RoomForEveryRoute
<1>c. CycleTypes
  BY DEF CycleInv
<1>1. ASSUME NEW r \in Rovers
      PROVE  Count(queue, r, Served) + Count(pending, r, Flags) <= 1
  <2>1. UnderWay(r) + lost[r] = 1
    <3>1. UnderWay(r) + lost[r] = 1 + extra[r] /\ extra[r] = 0
      BY DEF CycleInv, EveryRequestAccountedFor
    <3> QED
      BY <3>1
  <2>2. /\ UnderWay(r) = AtShim(r) + AtServer(r) + AtRover(r)
        /\ AtShim(r) \in Nat /\ AtServer(r) \in Nat /\ AtRover(r) \in Nat /\ lost[r] \in Nat
    BY <1>c, Account DEF Accounts
  <2>3. AtServer(r) <= 1
    BY <2>1, <2>2
  <2>4. /\ Count(queue, r, Served) \in Nat /\ Count(pending, r, Flags) \in Nat
        /\ Count(sending, r, Flags) \in Nat
    BY <1>c, PlacesTypes
  <2> QED
    BY <2>3, <2>4 DEF AtServer
<1>2. /\ pending \in Seq(Routes) /\ Len(pending) \in Nat /\ DOMAIN pending = 1..Len(pending)
  BY <1>c, LenProperties DEF CycleTypes
<1>3. \A r \in Rovers : /\ Count(queue, r, Served) \in Nat
                        /\ Count(pending, r, Flags) \in Nat
                        /\ IsFiniteSet(Where(pending, r, Flags))
                        /\ Count(pending, r, Flags) = Cardinality(Where(pending, r, Flags))
  BY <1>c, CountType DEF CycleTypes
<1>4. /\ Asker \in Rovers /\ queue # <<>>
      /\ Count(queue, Asker, Served) = Count(Tail(queue), Asker, Served) + 1
      /\ Count(Tail(queue), Asker, Served) \in Nat
  <2>1. Asker \in Rovers /\ queue # <<>>
    BY <1>c, PlannedIsRoute DEF Plannable
  <2>2. Tail(queue) \in Seq(Packages)
    BY <1>c, <2>1, TakeHead
  <2>3. Count(queue, Asker, Served) = Count(Tail(queue), Asker, Served) + 1
    BY <1>c, <2>1, PlannedIsRoute
  <2>4. Count(Tail(queue), Asker, Served) \in Nat
    BY <2>2, CountType
  <2> QED
    BY <2>1, <2>3, <2>4
<1>5. Count(pending, Asker, Flags) = 0
  BY <1>1, <1>3, <1>4
<1>6. \A i \in 1..Len(pending) : /\ pending[i].rover \in Rovers
                                 /\ i \in Where(pending, pending[i].rover, Flags)
  <2>1. \A i \in 1..Len(pending) : pending[i] \in Routes
    BY <1>2, ElementOfSeq
  <2> QED
    BY <1>2, <2>1 DEF Routes, Where
<1> DEFINE f == [i \in 1..Len(pending) |-> pending[i].rover]
<1>7. f \in [1..Len(pending) -> Rovers \ {Asker}]
  <2>1. Where(pending, Asker, Flags) = {}
    BY <1>3, <1>4, <1>5, FS_EmptySet
  <2> QED
    BY <1>6, <2>1
<1>8. \A i, j \in 1..Len(pending) : f[i] = f[j] => i = j
  <2> SUFFICES ASSUME NEW i \in 1..Len(pending), NEW j \in 1..Len(pending),
                      pending[i].rover = pending[j].rover
               PROVE  i = j
    OBVIOUS
  <2> DEFINE r == pending[i].rover
             S == Where(pending, r, Flags)
  <2>1. i \in S /\ j \in S /\ r \in Rovers
    BY <1>6
  <2>2. IsFiniteSet(S) /\ Cardinality(S) <= 1
    <3>1. /\ Count(queue, r, Served) \in Nat /\ Cardinality(S) \in Nat
          /\ Count(queue, r, Served) + Cardinality(S) <= 1
      BY <1>1, <1>3, <2>1
    <3> QED
      BY <1>3, <2>1, <3>1
  <2> HIDE DEF S
  <2> QED
    BY <2>1, <2>2, AtMostOne
<1>9. IsFiniteSet(Rovers \ {Asker}) /\ Cardinality(Rovers \ {Asker}) = Cardinality(Rovers) - 1
  BY <1>4, CycleAssumption, FS_RemoveElement
<1> HIDE DEF f
<1>10. f \in Injection(1..Len(pending), Rovers \ {Asker})
  BY <1>7, <1>8, Fun_IsInj
<1>11. Cardinality(1..Len(pending)) <= Cardinality(Rovers \ {Asker})
  BY <1>9, <1>10, FS_Injection
<1>12. Cardinality(1..Len(pending)) = Len(pending)
  BY <1>2, FS_Interval
<1>13. Cardinality(Rovers) \in Nat
  BY CycleAssumption, FS_CardinalityType
<1> QED
  BY <1>2, <1>9, <1>11, <1>12, <1>13

\* RoomForEveryRoute for every configuration: while no shim restarts and nobody
\* calls by hand, instrpack_heap_push never meets a full heap.
THEOREM RoomAlwaysForEveryRoute == Spec => []RoomForEveryRoute
BY RoomInv, CycleInvariant, PTL
=============================================================================
