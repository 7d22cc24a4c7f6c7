----------------------------- MODULE AlbumFiles -----------------------------
(***************************************************************************)
(* The files of the album storages and the cache of how many there are:    *)
(* the AlbumManager's CopyFile, DeleteFile and RefreshCache, step by step, *)
(* with every library call free to fail, and with crashes of the process.  *)
(*                                                                         *)
(* All of these commands hold g_AlbumMutex (see AlbumMount), so one runs   *)
(* at a time. The mount calls of other commands happen between them, and   *)
(* those of GenerateCurrentAlbumFileId, which takes no mutex, at any time; *)
(* all are the atomic calls of AlbumStorage.                               *)
(*                                                                         *)
(* A file is the sequence of its chunks, which may be empty. A turn of     *)
(* CopyFile's loop moves as many of them as ReadFile returns, none to a    *)
(* whole work memory. The contents the console stored are Whole(v): v      *)
(* chunks of version v. Blank chunks are what CreateFile and SetFileSize   *)
(* allocate. The files are those at the paths MakeAlbumPath makes of valid *)
(* file ids; the reserves, which nothing fills, are left out.              *)
(***************************************************************************)
EXTENDS Integers, Sequences, FiniteSets

CONSTANTS
  Storage,              \* the album storages
  File,                 \* file ids but for their storage_id
  Asked,                \* those that clients name; the others only take room
  Type,                 \* content types
  TypeOf,               \* File -> Type
  Versions,             \* the last whole content; version v is v chunks long
  Absent,               \* no file, which is not a file without chunks
  WorkMemorySize,       \* work_memory_size, in chunks
  AllowedFileSize,      \* GetAllowedFileSize, in chunks
  FileMaxCount,         \* GetFileMaxCount
  Word                  \* counts wrap at this number: 2^64 in the program

ASSUME TypeOfAssumption == TypeOf \in [File -> Type]
ASSUME FileAssumption == IsFiniteSet(File)
ASSUME AskedAssumption == Asked \subseteq File
ASSUME BoundsAssumption ==
  /\ Versions \in Nat /\ AllowedFileSize \in Nat /\ FileMaxCount \in Nat
  /\ WorkMemorySize \in Nat \ {0} /\ Word \in Nat \ {0}

VARIABLES
  status, table,        \* of AlbumStorage
  files,                \* Storage -> File -> the content, or Absent
  count,                \* Storage -> Type -> the count AlbumManagerCache keeps
  cmd,                  \* the running command: [op, file, src, dst], or Idle
  pc,                   \* where it is
  offset,               \* how many chunks CopyFile has written
  read_size,            \* how many it has read into the work memory
  before,               \* what dst held when CopyFile created it (history)
  spoiled,              \* the files a crash, a failed clean-up or a failed
                        \* flush may have left incomplete (history)
  reply                 \* result of the last command, "None" while one runs

mount == << status, table >>
disk  == << files, spoiled >>
work  == << cmd, offset, read_size, before >>
vars  == << mount, disk, count, work, pc, reply >>

Mount == INSTANCE AlbumStorage

Blank     == 0
Whole(v)  == [i \in 1 .. v |-> v]
Originals == {Whole(v) : v \in 0 .. Versions}
Content   == UNION {[1 .. n -> 0 .. Versions] : n \in 0 .. Versions}

ASSUME AbsentAssumption == Absent \notin Content

Commands == [op: {"CopyFile", "DeleteFile", "RefreshCache"},
             file: Asked, src: Storage, dst: Storage]
Idle == [op |-> "None"]
PC == {"idle", "src", "dst", "open", "create", "read", "write", "clean", "delete", "scan"}

(* The files of a type on a storage. *)
Present(s, ty) == {f \in File : TypeOf[f] = ty /\ files[s][f] # Absent}

Source == files[cmd.src][cmd.file]
Target == files[cmd.dst][cmd.file]

Init ==
  /\ Mount!Init
  /\ files \in [Storage -> [File -> Originals \cup {Absent}]]
  /\ \A s \in Storage, ty \in Type : Cardinality(Present(s, ty)) <= FileMaxCount
  /\ count = [s \in Storage |-> [ty \in Type |-> 0]]
  /\ cmd = Idle
  /\ pc = "idle"
  /\ offset = 0
  /\ read_size = 0
  /\ before = Absent
  /\ spoiled = {}
  /\ reply = "Success"

(* The command ends with result r. *)
Return(r) ==
  /\ pc' = "idle"
  /\ cmd' = Idle
  /\ reply' = r
  /\ offset' = 0
  /\ read_size' = 0
  /\ before' = Absent

(* AlbumManagerCache's Increment and Decrement of an unsigned count. *)
Incremented(n) == (n + 1) % Word
Decremented(n) == (n + Word - 1) % Word

SetTarget(c) == files' = [files EXCEPT ![cmd.dst][cmd.file] = c]

-----------------------------------------------------------------------------

(* A command takes g_AlbumMutex. CopyFile onto the same storage succeeds   *)
(* at once.                                                                *)
Start ==
  /\ pc = "idle"
  /\ \E c \in Commands :
       /\ c.op = "CopyFile" \/ c.dst = c.src
       /\ IF c.op = "CopyFile" /\ c.src = c.dst
          THEN Return("Success")
          ELSE /\ cmd' = c
               /\ pc' = "src"
               /\ before' = files[c.dst][c.file]
               /\ reply' = "None"
               /\ UNCHANGED << offset, read_size >>
  /\ UNCHANGED << mount, disk, count >>

(* EnsureMountState of storage s, and then on to label. *)
Ensure(s, label) ==
  \/ /\ \/ status[s].state = "mounted" /\ UNCHANGED mount
        \/ Mount!Open(s)
     /\ pc' = label
     /\ UNCHANGED << work, reply >>
  \/ /\ \/ status[s].state = "unmounted" /\ UNCHANGED mount
        \/ Mount!OpenFails(s)
     /\ Return("Failure")

EnsureSource ==
  /\ pc = "src"
  /\ Ensure(cmd.src, CASE cmd.op = "CopyFile" -> "dst"
                       [] cmd.op = "DeleteFile" -> "delete"
                       [] cmd.op = "RefreshCache" -> "scan")
  /\ UNCHANGED << disk, count >>

EnsureTarget ==
  /\ pc = "dst"
  /\ Ensure(cmd.dst, "open")
  /\ UNCHANGED << disk, count >>

(* Fault: the limit is exceeded by one. *)
HasRoomFault == count[cmd.dst][TypeOf[cmd.file]] <= FileMaxCount

(* CopyFile's check of the limit, which looks at the cached count. *)
HasRoom == count[cmd.dst][TypeOf[cmd.file]] < FileMaxCount

(* CopyFile opens the source, and refuses one that is too large, and a     *)
(* target storage without room.                                            *)
OpenSource ==
  /\ pc = "open"
  /\ \/ /\ Source # Absent
        /\ Len(Source) <= AllowedFileSize
        /\ HasRoom
        /\ pc' = "create"
        /\ UNCHANGED << work, reply >>
     \/ Return("Failure")
  /\ UNCHANGED << mount, disk, count >>

(* What is in the target once it has the size of the source. *)
Resized == [i \in 1 .. Len(Source) |->
              IF Target # Absent /\ i <= Len(Target) THEN Target[i] ELSE Blank]

(* CreateAlbumFileImpl: the target is created, or, if it exists, opened    *)
(* and resized. A file that was created but cannot be opened is deleted    *)
(* again, if that is possible.                                             *)
CreateTarget ==
  /\ pc = "create"
  /\ \/ /\ SetTarget(Resized)
        /\ pc' = "read"
        /\ offset' = 0
        /\ UNCHANGED << spoiled, cmd, read_size, before, reply >>
     \/ /\ Return("Failure")
        /\ UNCHANGED disk
     \/ /\ Return("Failure")
        /\ Target = Absent
        /\ SetTarget(Resized)
        /\ spoiled' = spoiled \cup {<< cmd.dst, cmd.file >>}
  /\ UNCHANGED << mount, count >>

(* The condition of CopyFile's loop. *)
MoreToCopy == offset < Len(Source)

(* Fault: the offset is not advanced. *)
AdvancedFault == offset

(* Fault: a read is taken to fill the work memory. *)
AdvancedFullFault == offset + WorkMemorySize

Advanced == offset + read_size

(* The loop reads what the work memory holds, or less, ... *)
ReadChunk ==
  /\ pc = "read"
  /\ MoreToCopy
  /\ \/ /\ read_size' \in 0 .. WorkMemorySize
        /\ offset + read_size' <= Len(Source)
        /\ pc' = "write"
        /\ UNCHANGED << cmd, offset, before, reply >>
     \/ /\ pc' = "clean"
        /\ UNCHANGED << work, reply >>
  /\ UNCHANGED << mount, disk, count >>

(* What is in the target once what was read is written at the offset. *)
Written == [i \in DOMAIN Target |->
              IF i \in offset + 1 .. offset + read_size THEN Source[i] ELSE Target[i]]

(* ... and writes as much; either may fail. *)
WriteChunk ==
  /\ pc = "write"
  /\ \/ /\ SetTarget(Written)
        /\ offset' = Advanced
        /\ pc' = "read"
        /\ UNCHANGED << spoiled, cmd, read_size, before, reply >>
     \/ /\ pc' = "clean"
        /\ UNCHANGED << disk, work, reply >>
  /\ UNCHANGED << mount, count >>

(* Fault: the failure guard is cancelled too early. *)
CleanedFault == Target

(* What file_failure_guard makes of the target. *)
Cleaned == Absent

(* A failed copy closes the target and deletes it; the result of that is   *)
(* ignored.                                                                *)
CleanUp ==
  /\ pc = "clean"
  /\ Return("Failure")
  /\ \/ /\ SetTarget(Cleaned)
        /\ spoiled' = spoiled \ {<< cmd.dst, cmd.file >>}
     \/ /\ spoiled' = spoiled \cup {<< cmd.dst, cmd.file >>}
        /\ UNCHANGED files
  /\ UNCHANGED << mount, count >>

(* The flush of the target wrote all of it. A copy of an incomplete file   *)
(* is as incomplete.                                                       *)
FlushDone ==
  /\ spoiled' = IF << cmd.src, cmd.file >> \in spoiled
                THEN spoiled \cup {<< cmd.dst, cmd.file >>}
                ELSE spoiled \ {<< cmd.dst, cmd.file >>}
  /\ UNCHANGED files

(* The flush failed, and any chunk may be missing. *)
FlushFails ==
  /\ \E lost \in SUBSET DOMAIN Target :
       SetTarget([i \in DOMAIN Target |-> IF i \in lost THEN Blank ELSE Target[i]])
  /\ spoiled' = spoiled \cup {<< cmd.dst, cmd.file >>}

(* The end of CopyFile, which ignores the result of the flush. *)
FinishCopy ==
  /\ pc = "read"
  /\ ~ MoreToCopy
  /\ FlushDone \/ FlushFails
  /\ count' = [count EXCEPT ![cmd.dst][TypeOf[cmd.file]] = Incremented(@)]
  /\ Return("Success")
  /\ UNCHANGED mount

(* DeleteFile ignores the result of the library's DeleteFile: the file may *)
(* be missing, or stay.                                                    *)
DeleteFile ==
  /\ pc = "delete"
  /\ \/ /\ SetTarget(Absent)
        /\ spoiled' = spoiled \ {<< cmd.dst, cmd.file >>}
     \/ UNCHANGED disk
  /\ count' = [count EXCEPT ![cmd.src][TypeOf[cmd.file]] = Decremented(@)]
  /\ Return("Success")
  /\ UNCHANGED mount

(* RefreshCache counts the files it finds on top of uninitialized memory,  *)
(* so any number may come out.                                             *)
RefreshCache ==
  /\ pc = "scan"
  /\ \E c \in [Type -> 0 .. Word - 1] : count' = [count EXCEPT ![cmd.src] = c]
  /\ Return("Success")
  /\ UNCHANGED << mount, disk >>

(* The mount calls of other commands: of those that take the mutex while   *)
(* none of these runs, of GenerateCurrentAlbumFileId at any time.          *)
OtherCommand ==
  /\ \/ pc = "idle" /\ Mount!Next
     \/ \E s \in Storage : Mount!Open(s) \/ Mount!OpenFails(s)
  /\ UNCHANGED << disk, count, work, pc, reply >>

(* The process stops, and starts again with server::Initialize. The file   *)
(* CopyFile was writing may be incomplete.                                 *)
Crash ==
  /\ status' = Mount!Initial /\ table' = {}
  /\ count' = [s \in Storage |-> [ty \in Type |-> 0]]
  /\ spoiled' = IF pc \in {"read", "write", "clean"}
                THEN spoiled \cup {<< cmd.dst, cmd.file >>} ELSE spoiled
  /\ Return("Crash")
  /\ UNCHANGED files

Step ==
  \/ EnsureSource \/ EnsureTarget \/ OpenSource \/ CreateTarget
  \/ ReadChunk \/ WriteChunk \/ CleanUp \/ FinishCopy \/ DeleteFile \/ RefreshCache

Next == Start \/ Step \/ OtherCommand \/ Crash

Spec == Init /\ [][Next]_vars

(* The library's calls return, and a read that is repeated for ever moves  *)
(* something again and again: the code does not look at read_size.         *)
Fairness == WF_vars(Step) /\ SF_vars(ReadChunk /\ read_size' # 0)

FairSpec == Spec /\ Fairness

-----------------------------------------------------------------------------

TypeOK ==
  /\ Mount!TypeOK
  /\ files \in [Storage -> [File -> Content \cup {Absent}]]
  /\ count \in [Storage -> [Type -> 0 .. Word - 1]]
  /\ cmd \in Commands \cup {Idle}
  /\ cmd = Idle <=> pc = "idle"
  /\ pc \in PC
  /\ offset \in 0 .. Versions
  /\ read_size \in 0 .. WorkMemorySize
  /\ before \in Content \cup {Absent}
  /\ spoiled \subseteq Storage \X File
  /\ reply \in {"None", "Success", "Failure", "Crash"}

(* Between commands every file is whole, unless a crash cut its copy       *)
(* short, a failed copy could not delete it, or its flush failed: no other *)
(* order of failures leaves a fragment behind.                             *)
NoFragmentAtRest ==
  pc = "idle" =>
    \A s \in Storage, f \in File :
      << s, f >> \notin spoiled => files[s][f] \in Originals \cup {Absent}

(* A copy that succeeds leaves the target equal to the source, whatever    *)
(* the target held and however often CopyFile failed before; only a flush  *)
(* that fails unnoticed may lose some of it.                               *)
CopyIsFaithful ==
  [][pc = "read" /\ pc' = "idle" /\ reply' = "Success" =>
       /\ Target = Source
       /\ files'[cmd.dst][cmd.file] = Source \/ FlushFails]_vars

(* A copy that fails leaves in the target what it held before, or nothing: *)
(* an older copy may be lost, but is not replaced by something else.       *)
FailedCopyKeepsOrDrops ==
  [][cmd.op = "CopyFile" /\ pc' = "idle" /\ reply' = "Failure"
       /\ << cmd.dst, cmd.file >> \notin spoiled'
     => files'[cmd.dst][cmd.file] \in {before, Absent}]_vars

(* Every command ends. *)
EveryCommandEnds == pc # "idle" ~> pc = "idle"

(* No step takes a storage over its limit, or adds to one that is over it, *)
(* unless the cached count is behind the number of files: the check of     *)
(* CopyFile, made some steps before the file appears, still holds then.    *)
LimitIsKept ==
  [][\A s \in Storage, ty \in Type :
       LET now == Cardinality(Present(s, ty))
           then == Cardinality(Present(s, ty)')
       IN then > now /\ then > FileMaxCount => count[s][ty] < now]_vars

=============================================================================
