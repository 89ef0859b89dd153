---------------------------- MODULE PathStorage ----------------------------
(***************************************************************************)
(* The stored paths: save_instruction_package_to_file,                     *)
(* load_instruction_package_from_file, find_matching_path and              *)
(* cleanup_path_storage (src/path_storage.c), and what route_provider      *)
(* (src/route/route_provider.c) and rover_request_handler                  *)
(* (src/requests/request_handler.c) do with them.                          *)
(*                                                                         *)
(* A package is its route, which stands for the pair of a start and an end *)
(* location, and the flag `valid` of its metadata.  The pointers in a      *)
(* package are those of the process that wrote it: every package loaded    *)
(* holds pointers of a process that is gone.                               *)
(*                                                                         *)
(* A record is written in two halves, so that an append can be cut short;  *)
(* what a reader makes of two halves that do not belong together is open.  *)
(***************************************************************************)
EXTENDS Naturals, Sequences, FiniteSetsExt

CONSTANTS
    Routes,         \* pairs of locations a rover may be routed between
    MaxPaths,       \* MAX_PATHS_TO_LOAD
    MaxHalves,      \* bound: half records in the file
    NoPackage       \* no answer

Package == [route : Routes, valid : BOOLEAN]

ASSUME StorageAssumption ==
    /\ MaxPaths \in Nat \ {0} /\ MaxHalves \in Nat
    /\ NoPackage \notin Package

VARIABLES
    file,       \* PATH_FILENAME: the half records in it
    stored,     \* g_stored_paths
    answer      \* the stored package given to the rover of the last request

storage == <<file, stored, answer>>

Half == [package : Package, part : 1..2]

StorageInit ==
    /\ file = << >>
    /\ stored = << >>
    /\ answer = NoPackage

-----------------------------------------------------------------------------
(* Reading *)

Records == Len(file) \div 2

\* Do the two halves of record k belong together?
Whole(k) ==
    /\ file[2 * k - 1].package = file[2 * k].package
    /\ file[2 * k - 1].part = 1 /\ file[2 * k].part = 2

\* What fread makes of record k.
ReadAs(k) == IF Whole(k) THEN {file[2 * k].package} ELSE Package

\* Mutant: everything in the file is loaded.
LoadAll ==
    /\ stored' \in {s \in [1..Records -> Package] : \A k \in DOMAIN s : s[k] \in ReadAs(k)}
    /\ UNCHANGED <<file, answer>>

\* The oldest MaxPaths records.  There are few, so the reads are enumerated.
Load ==
    /\ stored' \in {s \in [1..Min({Records, MaxPaths}) -> Package] :
                        \A k \in DOMAIN s : s[k] \in ReadAs(k)}
    /\ UNCHANGED <<file, answer>>

-----------------------------------------------------------------------------
(* Answering *)

\* Mutant: a stored package is a match whatever its flag says.
MatchAny(r) == {k \in DOMAIN stored : stored[k].route = r}

Match(r) == {k \in DOMAIN stored : stored[k].valid /\ stored[k].route = r}

\* search_for_instructions finds the first match and assign_route takes it,
\* unless the battery leaves no room for waits.  The handler has no case for
\* ROUTE_ASSIGNED: the request ends here.
ProvideStored(r) ==
    /\ Match(r) # {}
    /\ answer' = stored[Min(Match(r))]
    /\ UNCHANGED <<file, stored>>

\* NEED_NEW_INSTRUCTIONS, and then no path, or no instructions.
ProvideNothing(r) ==
    /\ answer' = NoPackage
    /\ UNCHANGED <<file, stored>>

\* The package nav_main makes: its metadata is zeroed, and `valid` is set only
\* once the route is on the grid, in the copy that was not saved.
Generated(r) == [route |-> r, valid |-> FALSE]

\* NEED_NEW_INSTRUCTIONS, and a path: the new package is appended, `halves` of it
\* if the disk or the process ends there.  What save_current_path returns is not
\* looked at; nor is what fclose returns in it.
ProvideNew(r, halves) ==
    /\ Len(file) + 2 <= MaxHalves
    /\ file' = file \o [i \in 1..halves |-> [package |-> Generated(r), part |-> i]]
    /\ answer' = NoPackage
    /\ UNCHANGED stored

-----------------------------------------------------------------------------

StorageTypeOK ==
    /\ file \in Seq(Half) /\ Len(file) <= MaxHalves
    /\ stored \in Seq(Package) /\ Len(stored) <= MaxPaths
    /\ answer \in Package \cup {NoPackage}

\* Some record of the file is made of two that were cut short.
Torn == \E k \in 1..Records : ~Whole(k)

\* A rover is given a package of a process that is gone, whose pointers lead
\* nowhere and whose request is dropped, only after an append was cut short: the
\* flag that keeps stored paths from being found is what protects from it.
PlansAfresh == answer # NoPackage => Torn
=============================================================================
