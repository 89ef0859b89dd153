------------------------ MODULE ServerProcessProofs ------------------------
(***************************************************************************)
(* What the server's process guarantees for every set of routes and every  *)
(* length of the file: when a signal that stops it may leave it waiting    *)
(* for a thread, that before any signal nodes are there when they are      *)
(* needed, and that stored paths are not given to rovers.                  *)
(***************************************************************************)
EXTENDS ServerProcess, SequenceTheorems, WellFoundedInduction, TLAPS

Closing == {"dropService", "joinService", "joinClients", "dropClients", "shutdown"}

\* What the flag of main, the context and the signals have to do with each other.
\* A signal that comes too early leaves `running' false for good and no trace in a
\* context that is made after it; any other is still on its way to the context or
\* has shut it down.
SignalInv ==
    /\ stage \in Startup /\ ~running => early
    /\ stage \in Closing => ~running
    /\ stage \notin Startup \cup Ended => context # "none"
    /\ ~running /\ ~early => asked \/ context # "up"

\* Before any signal the context is up once it was made, and the threads spin, or
\* are about to spin, a node that is there.
QuietInv ==
    /\ stage = "start" => \A t \in Threads : spin[t] = "none"
    /\ running /\ stage \notin Ended =>
          /\ ~asked /\ (stage = "start" \/ context = "up")
          /\ \A t \in Threads : /\ spin[t] # "done"
                                /\ spin[t] = "starting" => node[t]

\* What is saved is never marked valid, and what was loaded from whole records is
\* what was saved.
StorageInv ==
    /\ \A i \in DOMAIN file : ~file[i].package.valid
    /\ ~Torn => \A k \in DOMAIN stored : ~stored[k].valid
    /\ PlansAfresh

ProcessTypeOK ==
    /\ stage \in Stages
    /\ running \in BOOLEAN /\ asked \in BOOLEAN /\ early \in BOOLEAN
    /\ context \in {"none", "up", "down"}
    /\ node \in [Threads -> BOOLEAN]
    /\ spin \in [Threads -> {"none", "starting", "spinning", "done"}]

ProcessInv == ProcessTypeOK /\ SignalInv /\ QuietInv
FileInv == StorageTypeOK /\ StorageInv

-----------------------------------------------------------------------------
(* The stored paths *)

\* A set of numbers that is not empty has a smallest one.
LEMMA MinInSet ==
    ASSUME NEW S, S \subseteq Nat, S # {}
    PROVE  Min(S) \in S
<1>1. PICK x \in S : \A y \in S : ~(<<y, x>> \in OpToRel(<, Nat))
  BY NatLessThanWellFounded, WFMin
<1>2. \A y \in S : ~(y < x)
  BY <1>1 DEF OpToRel
<1>3. \A y \in S : x =< y
  BY <1>2
<1> QED
  BY <1>3 DEF Min

LEMMA MinOfTwo ==
    ASSUME NEW a \in Nat, NEW b \in Nat
    PROVE  Min({a, b}) \in Nat /\ Min({a, b}) <= a /\ Min({a, b}) <= b
<1>1. \E x \in {a, b} : \A y \in {a, b} : x =< y
  OBVIOUS
<1> QED
  BY <1>1 DEF Min

LEMMA StorageInvInit == StorageInit => FileInv
<1> SUFFICES ASSUME StorageInit PROVE FileInv
  OBVIOUS
<1>1. file = << >> /\ stored = << >> /\ answer = NoPackage
  BY DEF StorageInit
<1>2. Len(file) = 0 /\ Len(stored) = 0
  BY <1>1
<1>3. file \in Seq(Half) /\ stored \in Seq(Package)
  BY <1>1
<1>4. DOMAIN file = {} /\ DOMAIN stored = {}
  BY <1>1
<1> QED
  BY <1>1, <1>2, <1>3, <1>4, StorageAssumption
     DEF FileInv, StorageTypeOK, StorageInv, PlansAfresh

LEMMA LoadStep == ASSUME FileInv, Load PROVE FileInv'
<1> DEFINE n == Min({Records, MaxPaths})
<1>1. Len(file) \in Nat
  BY DEF FileInv, StorageTypeOK
<1>2. Records \in Nat
  BY <1>1 DEF Records
<1>3. n \in Nat /\ n <= Records /\ n <= MaxPaths
  BY <1>2, MinOfTwo, StorageAssumption
<1>4. /\ stored' \in [1..n -> Package]
      /\ \A k \in DOMAIN stored' : stored'[k] \in ReadAs(k)
      /\ UNCHANGED <<file, answer>>
  BY DEF Load
<1> HIDE DEF n
<1>5. stored' \in Seq(Package) /\ Len(stored') = n /\ DOMAIN stored' = 1..n
  BY <1>3, <1>4
<1>6. StorageTypeOK'
  BY <1>3, <1>4, <1>5 DEF FileInv, StorageTypeOK
<1>7. Torn' = Torn
  BY <1>4 DEF Torn, Records, Whole
<1>8. ASSUME ~Torn, NEW k \in DOMAIN stored' PROVE ~stored'[k].valid
  <2>1. k \in 1..Records /\ Whole(k)
    BY <1>2, <1>3, <1>5, <1>8 DEF Torn
  <2>2. stored'[k] = file[2 * k].package
    BY <1>4, <1>8, <2>1 DEF ReadAs
  <2>3. 2 * k \in DOMAIN file
    BY <1>1, <2>1 DEF Records, FileInv, StorageTypeOK
  <2> QED
    BY <2>2, <2>3 DEF FileInv, StorageInv
<1>9. StorageInv'
  BY <1>4, <1>7, <1>8 DEF FileInv, StorageInv, PlansAfresh
<1> QED
  BY <1>6, <1>9 DEF FileInv

\* A record that is torn stays torn: the file only grows.
LEMMA TornStays ==
    ASSUME FileInv, Torn, NEW more \in Seq(Half), file' = file \o more
    PROVE  Torn'
<1>1. PICK k \in 1..Records : ~Whole(k)
  BY DEF Torn
<1>2. file \in Seq(Half) /\ Len(file) \in Nat
  BY DEF FileInv, StorageTypeOK
<1>3. /\ Len(file') = Len(file) + Len(more)
      /\ \A i \in 1..Len(file) : file'[i] = file[i]
  BY <1>2, ConcatProperties
<1>m. Len(more) \in Nat
  OBVIOUS
<1>4. k \in Nat /\ 2 * k - 1 \in 1..Len(file) /\ 2 * k \in 1..Len(file)
  BY <1>1, <1>2 DEF Records
<1>5. k \in 1..Records'
  BY <1>2, <1>3, <1>4, <1>m DEF Records
<1>6. ~Whole(k)'
  BY <1>1, <1>3, <1>4 DEF Whole
<1> QED
  BY <1>5, <1>6 DEF Torn

LEMMA ProvideStoredStep ==
    ASSUME FileInv, NEW r \in Routes, ProvideStored(r) PROVE FileInv'
<1>1. Match(r) # {} /\ answer' = stored[Min(Match(r))] /\ UNCHANGED <<file, stored>>
  BY DEF ProvideStored
<1>2. stored \in Seq(Package) /\ DOMAIN stored = 1..Len(stored) /\ Len(stored) \in Nat
  BY DEF FileInv, StorageTypeOK
<1>3. Match(r) \subseteq Nat
  BY <1>2 DEF Match
<1>4. Min(Match(r)) \in Match(r)
  BY <1>1, <1>3, MinInSet
<1>5. Min(Match(r)) \in DOMAIN stored /\ stored[Min(Match(r))].valid
  BY <1>4 DEF Match
<1>6. answer' \in Package
  BY <1>1, <1>2, <1>5
<1>7. StorageTypeOK'
  BY <1>1, <1>6 DEF FileInv, StorageTypeOK
<1>8. Torn /\ Torn' = Torn
  BY <1>1, <1>5 DEF FileInv, StorageInv, Torn, Records, Whole
<1>9. StorageInv'
  BY <1>1, <1>8 DEF FileInv, StorageInv, PlansAfresh
<1> QED
  BY <1>7, <1>9 DEF FileInv

LEMMA ProvideNothingStep ==
    ASSUME FileInv, NEW r \in Routes, ProvideNothing(r) PROVE FileInv'
<1>1. answer' = NoPackage /\ UNCHANGED <<file, stored>>
  BY DEF ProvideNothing
<1>2. Torn' = Torn
  BY <1>1 DEF Torn, Records, Whole
<1> QED
  BY <1>1, <1>2 DEF FileInv, StorageTypeOK, StorageInv, PlansAfresh

LEMMA ProvideNewStep ==
    ASSUME FileInv, NEW r \in Routes, NEW halves \in 0..2, ProvideNew(r, halves)
    PROVE  FileInv'
<1> DEFINE more == [i \in 1..halves |-> [package |-> Generated(r), part |-> i]]
<1>1. /\ Len(file) + 2 <= MaxHalves /\ file' = file \o more
      /\ answer' = NoPackage /\ stored' = stored
  BY DEF ProvideNew
<1>2. Generated(r) \in Package /\ ~Generated(r).valid
  BY DEF Generated, Package
<1>3. \A i \in 1..halves : [package |-> Generated(r), part |-> i] \in Half
  BY <1>2 DEF Half
<1>4. more \in Seq(Half) /\ Len(more) = halves
  BY <1>3
<1>5. \A i \in 1..halves : ~more[i].package.valid
  BY <1>2
<1> HIDE DEF more
<1>6. file \in Seq(Half) /\ Len(file) \in Nat
  BY DEF FileInv, StorageTypeOK
<1>7. /\ file' \in Seq(Half) /\ Len(file') = Len(file) + halves
      /\ \A i \in 1..Len(file) + halves :
            file'[i] = IF i <= Len(file) THEN file[i] ELSE more[i - Len(file)]
  BY <1>1, <1>4, <1>6, ConcatProperties
<1>8. StorageTypeOK'
  BY <1>1, <1>6, <1>7, StorageAssumption DEF FileInv, StorageTypeOK
<1>9. \A i \in DOMAIN file' : ~file'[i].package.valid
  <2> SUFFICES ASSUME NEW i \in DOMAIN file' PROVE ~file'[i].package.valid
    OBVIOUS
  <2>1. i \in 1..Len(file) + halves
    BY <1>7
  <2>2. CASE i <= Len(file)
    BY <1>6, <1>7, <2>1, <2>2 DEF FileInv, StorageInv
  <2>3. CASE ~(i <= Len(file))
    <3>1. i - Len(file) \in 1..halves
      BY <1>6, <2>1, <2>3
    <3> QED
      BY <1>5, <1>7, <2>1, <2>3, <3>1
  <2> QED
    BY <2>2, <2>3
<1>10. ~Torn' => ~Torn
  BY <1>1, <1>4, TornStays
<1>11. StorageInv'
  BY <1>1, <1>9, <1>10 DEF FileInv, StorageInv, PlansAfresh
<1> QED
  BY <1>8, <1>11 DEF FileInv

LEMMA UnchangedStorage ==
    ASSUME FileInv, UNCHANGED file, stored' \in {stored, << >>},
           answer' \in {answer, NoPackage}
    PROVE  FileInv'
<1>1. Torn' = Torn
  BY DEF Torn, Records, Whole
<1>2. << >> \in Seq(Package) /\ Len(<< >>) = 0 /\ DOMAIN << >> = {}
  OBVIOUS
<1>3. CASE stored' = stored
  BY <1>1, <1>3 DEF FileInv, StorageTypeOK, StorageInv, PlansAfresh
<1>4. CASE stored' = << >>
  BY <1>1, <1>2, <1>4, StorageAssumption DEF FileInv, StorageTypeOK, StorageInv, PlansAfresh
<1> QED
  BY <1>3, <1>4

-----------------------------------------------------------------------------
(* The process *)

LEMMA ProcessInvInit == Init => ProcessInv
BY DEF Init, ProcessInv, ProcessTypeOK, SignalInv, QuietInv,
       Stages, Startup, Ended, Closing, Threads

\* No step of the main thread disturbs what signals, context and threads have to
\* do with each other.
LEMMA MainStep == ASSUME ProcessInv, Main PROVE ProcessInv'
<1> USE DEF ProcessInv, ProcessTypeOK, SignalInv, QuietInv,
            Stages, Startup, Ended, Closing, Threads, ros
<1>1. CASE InitClients
  BY <1>1 DEF InitClients, RclcppInit, Go
<1>2. CASE ClientsRefused
  BY <1>2 DEF ClientsRefused, Refused, Go
<1>3. CASE ConfigFails
  BY <1>3 DEF ConfigFails, Go
<1>4. CASE ServeClients
  BY <1>4 DEF ServeClients, Serve, Go
<1>5. CASE LoadPaths
  BY <1>5 DEF LoadPaths, Go
<1>6. CASE InitService
  BY <1>6 DEF InitService, RclcppInit, Go
<1>7. CASE KeepContext
  BY <1>7 DEF KeepContext, Go
<1>8. CASE ServiceRefused
  BY <1>8 DEF ServiceRefused, Refused, Go
<1>9. CASE ServeRequests
  BY <1>9 DEF ServeRequests, Serve, Go
<1>10. CASE CreateTimer
  BY <1>10 DEF CreateTimer, Go
<1>11. CASE TimerFails
  BY <1>11 DEF TimerFails, Go
<1>12. CASE Loop
  BY <1>12 DEF Loop, Go
<1>13. CASE Tick
  BY <1>13 DEF Tick, Go
<1>14. CASE Round
  BY <1>14 DEF Round, Go
<1>21. CASE RoundCrashes
  BY <1>21 DEF RoundCrashes, Go
<1>22. CASE RoundHangs
  BY <1>22 DEF RoundHangs, Go
<1>15. CASE DropService
  BY <1>15 DEF DropService, Go
<1>16. CASE JoinService
  BY <1>16 DEF JoinService, Join, Go
<1>17. CASE JoinClients
  BY <1>17 DEF JoinClients, Join, Go
<1>18. CASE DropClients
  BY <1>18 DEF DropClients, Go
<1>19. CASE RclcppShutdown
  BY <1>19 DEF RclcppShutdown, Go
<1>20. CASE Cleanup
  BY <1>20 DEF Cleanup, Go
<1> QED
  BY <1>1, <1>2, <1>3, <1>4, <1>5, <1>6, <1>7, <1>8, <1>9, <1>10, <1>11, <1>12, <1>13, <1>14, <1>15, <1>16, <1>17, <1>18, <1>19, <1>20, <1>21, <1>22
     DEF Main

\* Neither do signals, rclcpp's thread, the spin threads, a kill and a restart.
LEMMA OtherStep ==
    ASSUME ProcessInv, Deferred \/ (\E t \in Threads : Spin(t)) \/ Outside
    PROVE  ProcessInv'
<1> USE DEF ProcessInv, ProcessTypeOK, SignalInv, QuietInv,
            Stages, Startup, Ended, Closing, Threads, ros
<1>1. CASE Signal
  BY <1>1 DEF Signal
<1>2. CASE Deferred
  BY <1>2 DEF Deferred
<1>3. ASSUME NEW t \in Threads, SpinStarts(t) PROVE ProcessInv'
  BY <1>3 DEF SpinStarts
<1>4. ASSUME NEW t \in Threads, SpinFindsNoNode(t) PROVE ProcessInv'
  BY <1>4 DEF SpinFindsNoNode
<1>5. ASSUME NEW t \in Threads, SpinEnds(t) PROVE ProcessInv'
  BY <1>5 DEF SpinEnds
<1>6. CASE Restart
  BY <1>6 DEF Restart
<1>7. CASE Kill
  BY <1>7 DEF Kill
<1> QED
  BY <1>1, <1>2, <1>3, <1>4, <1>5, <1>6, <1>7 DEF Spin, Outside

\* What each step does to the stored paths.
LEMMA FileStep == ASSUME FileInv, [Next]_vars PROVE FileInv'
<1>1. CASE UNCHANGED storage
  BY <1>1, UnchangedStorage DEF storage
<1>2. CASE LoadPaths
  BY <1>2, LoadStep DEF LoadPaths
<1>3. CASE Round \/ RoundCrashes \/ RoundHangs
  <2>1. Answered
    BY <1>3 DEF Round, RoundCrashes, RoundHangs
  <2> QED
    BY <1>1, <2>1, ProvideStoredStep, ProvideNothingStep, ProvideNewStep DEF Answered
<1>4. CASE Cleanup
  BY <1>4, UnchangedStorage DEF Cleanup
<1>5. CASE Restart
  BY <1>5, UnchangedStorage DEF Restart
<1>6. CASE Kill
  BY <1>1, <1>6, ProvideNewStep DEF Kill
<1>7. CASE Main /\ ~(Round \/ RoundCrashes \/ RoundHangs) /\ ~LoadPaths /\ ~Cleanup
  <2>1. UNCHANGED storage
    BY <1>7 DEF Main, InitClients, RclcppInit, ClientsRefused, Refused, ConfigFails,
                ServeClients, Serve, InitService, KeepContext, ServiceRefused,
                ServeRequests, CreateTimer, TimerFails, Loop, Tick, DropService,
                JoinService, JoinClients, Join, DropClients, RclcppShutdown
  <2> QED
    BY <1>1, <2>1
<1>8. CASE Signal \/ Deferred \/ \E t \in Threads : Spin(t)
  BY <1>1, <1>8 DEF Signal, Deferred, Spin, SpinStarts, SpinFindsNoNode, SpinEnds
<1>9. CASE UNCHANGED vars
  BY <1>1, <1>9 DEF vars
<1> QED
  BY <1>2, <1>3, <1>4, <1>5, <1>6, <1>7, <1>8, <1>9 DEF Next, Outside

-----------------------------------------------------------------------------
(* The theorems *)

\* The inductive invariant holds in every life of the process (main.c,
\* path_storage.c): what a signal set off is still on its way.
THEOREM ServerInvariant == Spec => [](ProcessInv /\ FileInv)
<1>1. Init => ProcessInv /\ FileInv
  BY ProcessInvInit, StorageInvInit DEF Init
<1>2. ProcessInv /\ FileInv /\ [Next]_vars => (ProcessInv /\ FileInv)'
  <2> SUFFICES ASSUME ProcessInv, FileInv, [Next]_vars
               PROVE  ProcessInv' /\ FileInv'
    OBVIOUS
  <2>1. FileInv'
    BY FileStep
  <2>2. CASE Next
    <3>1. CASE Main
      BY <2>1, <3>1, MainStep
    <3>2. CASE Deferred \/ (\E t \in Threads : Spin(t)) \/ Outside
      BY <2>1, <3>2, OtherStep
    <3> QED
      BY <2>2, <3>1, <3>2 DEF Next
  <2>3. CASE UNCHANGED vars
    BY <2>1, <2>3 DEF vars, ros, ProcessInv, ProcessTypeOK, SignalInv, QuietInv
  <2> QED
    BY <2>2, <2>3
<1> QED
  BY <1>1, <1>2, PTL DEF Spec

\* The variables of the process, and those of the stored paths, have their types:
\* no more than MAX_PATHS_TO_LOAD packages are ever loaded.
THEOREM ServerTypeCorrect == Spec => []TypeOK
<1>1. ProcessInv /\ FileInv => TypeOK
  BY DEF ProcessInv, ProcessTypeOK, FileInv, TypeOK
<1> QED
  BY <1>1, ServerInvariant, PTL

\* The main thread waits for a spin thread in vain only when the signal came before
\* the last rclcpp::init: every later one shuts the context down, however the
\* threads and rclcpp's handler are scheduled.
THEOREM OneSignalIsEnough == Spec => []StuckOnlyWhenEarly
<1>1. ProcessInv => StuckOnlyWhenEarly
  BY DEF ProcessInv, SignalInv, StuckOnlyWhenEarly, Stuck, Closing
<1> QED
  BY <1>1, ServerInvariant, PTL

\* Before any signal no node is made in a context that was shut down, and no thread
\* spins a node that is not there, from main to the last round.
THEOREM NodesAlwaysThere == Spec => []NodesAreThere
<1>1. ProcessInv => NodesAreThere
  BY DEF ProcessInv, QuietInv, NodesAreThere, Ended
<1> QED
  BY <1>1, ServerInvariant, PTL

\* No rover is given a package of a process that is gone, unless an append to the
\* file was cut short.
THEOREM AlwaysPlansAfresh == Spec => []PlansAfresh
<1>1. FileInv => PlansAfresh
  BY DEF FileInv, StorageInv
<1> QED
  BY <1>1, ServerInvariant, PTL
=============================================================================
