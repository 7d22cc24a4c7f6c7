--------------------------- MODULE TemporaryFile ---------------------------
(***************************************************************************)
(* The temporary files of movies and the counter they share: Make and      *)
(* Delete of TemporaryFile, step by step, where the atomic total_count is  *)
(* incremented, read and decremented in steps of its own while other       *)
(* streams make and delete theirs.                                         *)
(*                                                                         *)
(* A slot is a TemporaryFile with the stream that uses it: Make is called  *)
(* on one that has no file, Delete on one that has. Reading, writing and   *)
(* resizing pass through to the file's handle (see FsLibrary), and what    *)
(* Delete's flush and close return is ignored. On a quest unit Make does   *)
(* nothing. The save data TM is dropped with the process.                  *)
(***************************************************************************)
EXTENDS Integers, FiniteSets

CONSTANTS
  Slot,           \* the TemporaryFiles
  Path,           \* the random names
  Limit,          \* files and calls under way stay below it, 0x20
  Tries,          \* how often Make tries to create a file, 0x100
  None

ASSUME SlotAssumption == IsFiniteSet(Slot)
ASSUME LimitAssumption == Limit \in Nat \ {0} /\ Tries \in Nat \ {0}
ASSUME NoneAssumption == None \notin Path

VARIABLES
  total_count,
  pc,             \* Slot -> where its call is
  path,           \* Slot -> the path of its file
  tries,          \* Slot -> how often Make has met a name that exists
  read,           \* Slot -> the count Delete has read
  files,          \* the files on TM
  orphans,        \* the files the library could not delete (history)
  aborted

vars == << total_count, pc, path, tries, read, files, orphans, aborted >>

(* The steps of Make, and those of Delete after "live". *)
PC == {"none", "check", "create", "open", "undo", "back"}
        \cup {"live", "delete", "read", "decrement", "assert"}

Init ==
  /\ total_count = 0
  /\ pc = [s \in Slot |-> "none"]
  /\ path = [s \in Slot |-> None]
  /\ tries = [s \in Slot |-> 0]
  /\ read = [s \in Slot |-> 0]
  /\ files = {}
  /\ orphans = {}
  /\ aborted = FALSE

At(s, label) == ~ aborted /\ pc[s] = label

GoTo(s, label) == pc' = [pc EXCEPT ![s] = label]

disk == << files, orphans >>

-----------------------------------------------------------------------------

(* Make counts itself first, ... *)
Count(s) ==
  /\ At(s, "none")
  /\ total_count' = total_count + 1
  /\ GoTo(s, "check")
  /\ UNCHANGED << path, tries, read, disk, aborted >>

(* Fault: one file too many. *)
BelowLimitFault(n) == n <= Limit

BelowLimit(n) == n < Limit

(* ... and then reads the counter again. *)
Check(s) ==
  /\ At(s, "check")
  /\ IF BelowLimit(total_count)
     THEN /\ GoTo(s, "create")
          /\ tries' = [tries EXCEPT ![s] = 0]
     ELSE /\ GoTo(s, "back")
          /\ UNCHANGED tries
  /\ UNCHANGED << total_count, path, read, disk, aborted >>

(* Fault: the counter of the loop is a byte, which wraps at 0x100. *)
TriedFault(n) == (n + 1) % Tries

Tried(n) == n + 1

(* CreateFile with a random name: created, tried again, or failed. *)
Create(s) ==
  /\ At(s, "create")
  /\ \/ \E p \in Path \ files :
          /\ files' = files \cup {p}
          /\ path' = [path EXCEPT ![s] = p]
          /\ GoTo(s, "open")
          /\ UNCHANGED tries
     \/ /\ files # {}
        /\ tries' = [tries EXCEPT ![s] = Tried(@)]
        /\ GoTo(s, IF tries'[s] < Tries THEN "create" ELSE "back")
        /\ UNCHANGED << path, files >>
     \/ /\ GoTo(s, "back")
        /\ UNCHANGED << path, tries, files >>
  /\ UNCHANGED << total_count, read, orphans, aborted >>

Open(s) ==
  /\ At(s, "open")
  /\ \E label \in {"live", "undo"} : GoTo(s, label)
  /\ UNCHANGED << total_count, path, tries, read, disk, aborted >>

(* Fault: the file is left behind. *)
DeletedFault(p) == files

Deleted(p) == files \ {p}

(* The library's DeleteFile, whose result nobody looks at. *)
DeleteFile(s) ==
  /\ \/ /\ files' = Deleted(path[s])
        /\ UNCHANGED orphans
     \/ /\ orphans' = orphans \cup {path[s]}
        /\ UNCHANGED files
  /\ path' = [path EXCEPT ![s] = None]

(* A file that cannot be opened is deleted, and Make gives up. *)
Undo(s) ==
  /\ At(s, "undo")
  /\ DeleteFile(s)
  /\ GoTo(s, "back")
  /\ UNCHANGED << total_count, tries, read, aborted >>

(* Fault: the guard is cancelled although Make fails. *)
GivenBackFault(n) == n

(* Fault: what the guard gives back is also given back by hand. *)
GivenBackTwice(n) == n - 2

GivenBack(n) == n - 1

(* The count_guard of a Make that fails. *)
GiveBack(s) ==
  /\ At(s, "back")
  /\ total_count' = GivenBack(total_count)
  /\ GoTo(s, "none")
  /\ UNCHANGED << path, tries, read, disk, aborted >>

(* Delete flushes and closes the file, ... *)
Close(s) ==
  /\ At(s, "live")
  /\ GoTo(s, "delete")
  /\ UNCHANGED << total_count, path, tries, read, disk, aborted >>

(* ... deletes it, ... *)
Delete(s) ==
  /\ At(s, "delete")
  /\ DeleteFile(s)
  /\ GoTo(s, "read")
  /\ UNCHANGED << total_count, tries, read, aborted >>

(* ... reads the counter, ... *)
ReadCount(s) ==
  /\ At(s, "read")
  /\ read' = [read EXCEPT ![s] = total_count]
  /\ GoTo(s, "decrement")
  /\ UNCHANGED << total_count, path, tries, disk, aborted >>

(* ... decrements it, ... *)
Decrement(s) ==
  /\ At(s, "decrement")
  /\ total_count' = total_count - 1
  /\ GoTo(s, "assert")
  /\ UNCHANGED << path, tries, read, disk, aborted >>

(* ... and makes sure that what it had read was not zero. *)
AssertCount(s) ==
  /\ At(s, "assert")
  /\ aborted' = (read[s] = 0)
  /\ read' = [read EXCEPT ![s] = 0]
  /\ GoTo(s, "none")
  /\ UNCHANGED << total_count, path, tries, disk >>

Step(s) ==
  \/ Check(s) \/ Create(s) \/ Open(s) \/ Undo(s) \/ GiveBack(s)
  \/ Delete(s) \/ ReadCount(s) \/ Decrement(s) \/ AssertCount(s)

Next == \E s \in Slot : Count(s) \/ Close(s) \/ Step(s)

Spec == Init /\ [][Next]_vars

(* A call that has begun is run on, whatever the others do. *)
FairSpec == Spec /\ \A s \in Slot : WF_vars(Step(s))

-----------------------------------------------------------------------------

TypeOK ==
  /\ total_count \in Nat
  /\ pc \in [Slot -> PC]
  /\ path \in [Slot -> Path \cup {None}]
  /\ tries \in [Slot -> 0 .. Tries]
  /\ read \in [Slot -> Nat]
  /\ files \subseteq Path /\ orphans \subseteq files
  /\ aborted \in BOOLEAN

(* The slots counted in total_count, and those that passed the check. *)
Counted == {s \in Slot : pc[s] \notin {"none", "assert"}}
Passed  == Counted \ {s \in Slot : pc[s] \in {"check", "back"}}

HasFile == {s \in Slot : path[s] # None}

(* The counter is never lost or given back twice on any way out of Make    *)
(* and Delete: it is the number of calls and files that are under way.     *)
CountIsExact == total_count = Cardinality(Counted)

(* However the increments and checks of several calls of Make interleave,  *)
(* fewer than Limit files are in use at any time.                          *)
LimitIsKept == Cardinality(HasFile) < Limit

(* The files on TM are those of the slots, one each, and those the library *)
(* could not delete: no failure of Make leaves a file behind.              *)
NoFileLeftBehind ==
  /\ files = {path[s] : s \in HasFile} \cup orphans
  /\ \A s, r \in HasFile : path[s] = path[r] => s = r

(* The assertion at the end of Delete never fails. *)
NeverAborts == ~ aborted

(* Every Make and every Delete returns: Make gives up after Tries names.   *)
EveryCallReturns ==
  \A s \in Slot : pc[s] \notin {"none", "live"} ~> pc[s] \in {"none", "live"}

=============================================================================
