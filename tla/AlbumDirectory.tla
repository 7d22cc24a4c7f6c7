--------------------------- MODULE AlbumDirectory ---------------------------
(***************************************************************************)
(* The scan of a mounted storage: ProcessImageDirectory descends through   *)
(* the folders of the years, months and days and hands the files whose     *)
(* names FromString accepts to the callbacks of ListEntries and            *)
(* CountEntries. The library may fail at every call; a read that fails     *)
(* ends one folder, an open that fails ends the scan, and the callers      *)
(* answer with Success in any case.                                        *)
(*                                                                         *)
(* The commands hold g_AlbumMutex, so the files do not change meanwhile.   *)
(* A folder's name is the number atoi makes of it. Of a file's name there  *)
(* is what FromString looks at: its length, the month of its date, how     *)
(* many of the 16 digit pairs of the identifier are numbers, the second    *)
(* word the identifier decrypts to, whether "X" follows, and the extension.*)
(***************************************************************************)
EXTENDS Integers, Sequences, FiniteSets, SequencesExt

CONSTANTS
  DayFolder,      \* the day folders of the storage: << year, month, day >>
  Name,           \* file names
  MaxFiles,       \* how many files there are at most
  Flags,          \* the content_type_flags asked for: sets of content types
  MaxEntries      \* the sizes of the entries arrays passed to ListEntries

ContentType == {"Screenshot", "Movie", "ExtraScreenshot", "ExtraMovie"}

ASSUME FolderAssumption == DayFolder \subseteq Int \X Int \X Int
ASSUME NameAssumption ==
  Name \subseteq [length: Nat, month: Nat, pairs: 0 .. 16, word: 0 .. 2,
                  x: BOOLEAN, ext: {".jpg", ".mp4", "other"}]
ASSUME ArgumentAssumption ==
  /\ MaxFiles \in Nat
  /\ Flags \subseteq SUBSET ContentType
  /\ MaxEntries \subseteq Nat

VARIABLES
  tree,           \* DayFolder -> the names of its files
  pc,
  args,           \* the command: [op, flags, max]
  path,           \* the names of the folders that are open, the root aside
  unread,         \* for each open folder, what ReadDirectory has not returned
  entries,        \* what ListEntries stored, or CountEntries counted: [folder, name, type]
  failed          \* a library call of this command failed (history)

vars == << tree, pc, args, path, unread, entries, failed >>

(* The names FromString accepts; word is the second one decrypted.         *)
(* "month - 1 < 12" compares ints, so month 0 passes. A pair of digits     *)
(* that is not a number ends the loop and what follows it is taken for the *)
(* extension: with the lengths admitted, that can only be the last pair.   *)
FromString(n, word) ==
  /\ n.length \in {53, 54}
  /\ n.month - 1 < 12
  /\ n.pairs >= 15
  /\ word <= 1
  /\ n.x <=> word = 1
  /\ n.ext # "other"

(* What an identifier may decrypt to: its last byte is uninitialized when  *)
(* the last pair is not a number.                                          *)
Decrypted(n) == IF n.pairs = 16 THEN {n.word} ELSE 0 .. 2

TypeOfName(n, word) ==
  CASE n.ext = ".jpg" -> IF word = 1 THEN "ExtraScreenshot" ELSE "Screenshot"
    [] n.ext = ".mp4" -> IF word = 1 THEN "ExtraMovie" ELSE "Movie"

(* Fault: months are not checked. *)
ValidNameFault(level, n) ==
  CASE level = 1 -> n <= 10000
    [] level = 2 -> TRUE
    [] level = 3 -> 1 <= n /\ n <= 31

(* The folder names the scan descends into: years, months, days. *)
ValidName(level, n) ==
  CASE level = 1 -> n <= 10000
    [] level = 2 -> 1 <= n /\ n <= 12
    [] level = 3 -> 1 <= n /\ n <= 31

(* What is in the folder p: names of folders, or, in a day, of files. *)
Contents(p) ==
  IF Len(p) = 3 THEN tree[p]
  ELSE {d[Len(p) + 1] : d \in {d \in DayFolder : SubSeq(d, 1, Len(p)) = p}}

Init ==
  /\ tree \in [DayFolder -> SUBSET Name]
  /\ Cardinality({f \in DayFolder \X Name : f[2] \in tree[f[1]]}) <= MaxFiles
  /\ pc = "idle"
  /\ args = [op |-> "None", flags |-> {}, max |-> 0]
  /\ path = << >>
  /\ unread = << >>
  /\ entries = << >>
  /\ failed = FALSE

-----------------------------------------------------------------------------

ListEntries ==
  \E f \in Flags, m \in MaxEntries : args' = [op |-> "ListEntries", flags |-> f, max |-> m]

CountEntries ==
  \E f \in Flags : args' = [op |-> "CountEntries", flags |-> f, max |-> 0]

(* A command begins, its storage being mounted. *)
Start ==
  /\ pc = "idle"
  /\ ListEntries \/ CountEntries
  /\ pc' = "open"
  /\ entries' = << >>
  /\ failed' = FALSE
  /\ UNCHANGED << tree, path, unread >>

(* The scan ends: every folder that is open is closed. *)
Finish ==
  /\ pc' = "idle"
  /\ path' = << >>
  /\ unread' = << >>

OpenRoot ==
  /\ pc = "open"
  /\ \/ /\ pc' = "scan"
        /\ unread' = << Contents(<< >>) >>
        /\ UNCHANGED << path, failed >>
     \/ /\ Finish
        /\ failed' = TRUE
  /\ UNCHANGED << tree, args, entries >>

level == Len(unread)

(* ReadDirectory returned n. *)
Without(n) == [unread EXCEPT ![level] = @ \ {n}]

SkipFolder ==
  /\ pc = "scan" /\ level \in 1 .. 3
  /\ \E n \in Last(unread) :
       /\ ~ ValidName(level, n)
       /\ unread' = Without(n)
  /\ UNCHANGED << tree, pc, args, path, entries, failed >>

(* A folder is opened; if it cannot be, the whole scan ends. *)
OpenFolder ==
  /\ pc = "scan" /\ level \in 1 .. 3
  /\ \E n \in Last(unread) :
       /\ ValidName(level, n)
       /\ \/ /\ path' = Append(path, n)
             /\ unread' = Append(Without(n), Contents(path'))
             /\ UNCHANGED << pc, failed >>
          \/ /\ Finish
             /\ failed' = TRUE
  /\ UNCHANGED << tree, args, entries >>

(* Fault: one entry too many is stored. *)
IsFullFault(stored) == args.op = "ListEntries" /\ Len(stored) > args.max

(* What the callback returns: whether the scan is to stop. It compares     *)
(* after it stored, so that there is no stop before an overrun if max is 0.*)
IsFull(stored) == args.op = "ListEntries" /\ Len(stored) = args.max

(* The callback of a command for a file of type t. *)
Callback(n, t) ==
  /\ entries' = IF t \in args.flags
                THEN Append(entries, [folder |-> path, name |-> n, type |-> t])
                ELSE entries
  /\ IF IsFull(entries')
     THEN Finish
     ELSE unread' = Without(n) /\ UNCHANGED << pc, path >>

ReadFile ==
  /\ pc = "scan" /\ level = 4
  /\ \E n \in Last(unread), word \in 0 .. 2 :
       /\ word \in Decrypted(n)
       /\ IF FromString(n, word)
          THEN Callback(n, TypeOfName(n, word))
          ELSE unread' = Without(n) /\ UNCHANGED << pc, path, entries >>
  /\ UNCHANGED << tree, args, failed >>

Parent(p) == IF p = << >> THEN p ELSE Front(p)

(* Fault: the end of a folder ends the scan. *)
LeaveFolderFault == Finish

LeaveFolder ==
  /\ unread' = Front(unread)
  /\ path' = Parent(path)
  /\ UNCHANGED pc

(* A folder ends when nothing is left in it, or a read fails. *)
EndOfFolder ==
  /\ pc = "scan"
  /\ \/ Last(unread) = {} /\ UNCHANGED failed
     \/ failed' = TRUE
  /\ IF level = 1 THEN Finish ELSE LeaveFolder
  /\ UNCHANGED << tree, args, entries >>

Next ==
  \/ Start \/ OpenRoot \/ SkipFolder \/ OpenFolder \/ ReadFile \/ EndOfFolder

Spec == Init /\ [][Next]_vars

-----------------------------------------------------------------------------

(* A scan has a set of what is unread for the root and each folder of its  *)
(* path; between scans nothing is open.                                    *)
TypeOK ==
  /\ tree \in [DayFolder -> SUBSET Name]
  /\ pc \in {"idle", "open", "scan"}
  /\ args \in [op: {"None", "ListEntries", "CountEntries"},
               flags: SUBSET ContentType, max: Nat]
  /\ path \in Seq(Int) /\ Len(path) <= 3
  /\ \A k \in 1 .. level : unread[k] \subseteq (IF k = 4 THEN Name ELSE Int)
  /\ IF pc = "scan" THEN level = Len(path) + 1 ELSE path = << >> /\ unread = << >>
  /\ entries \in Seq([folder: DayFolder, name: Name, type: ContentType])
  /\ failed \in BOOLEAN

(* Places and names of the files of a storage that a command with given    *)
(* flags must see, and of those it may see: they differ in the files       *)
(* whose identifier is not a number.                                       *)
DatedFolder == {d \in DayFolder : d[1] <= 10000 /\ d[2] \in 1 .. 12 /\ d[3] \in 1 .. 31}
Matches(n, word, flags) == FromString(n, word) /\ TypeOfName(n, word) \in flags
MustSee(flags) ==
  {f \in DatedFolder \X Name :
     f[2] \in tree[f[1]] /\ \A word \in Decrypted(f[2]) : Matches(f[2], word, flags)}
MaySee(flags) ==
  {f \in DatedFolder \X Name :
     f[2] \in tree[f[1]] /\ \E word \in Decrypted(f[2]) : Matches(f[2], word, flags)}
Seen == {<< entries[i].folder, entries[i].name >> : i \in DOMAIN entries}

(* What a command reports is in the storage, in a folder of a day, of a    *)
(* type it asked for, and reported once, wherever the library failed.      *)
ReportedOnce ==
  /\ Seen \subseteq MaySee(args.flags)
  /\ Cardinality(Seen) = Len(entries)

(* ListEntries stores no more entries than the array has room for, unless  *)
(* it has none: then a first file it finds is written past the array.      *)
RoomIsRespected ==
  args.op = "ListEntries" /\ args.max > 0 => Len(entries) <= args.max

(* A scan no library call of which failed, and that was not cut short by   *)
(* the size of the array, has seen every file it was asked for.            *)
ScanIsComplete ==
  pc = "idle" /\ args.op # "None" /\ ~ failed =>
    IsFull(entries) \/ MustSee(args.flags) \subseteq Seen

=============================================================================
