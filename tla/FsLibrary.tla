----------------------------- MODULE FsLibrary -----------------------------
(***************************************************************************)
(* The file system library as capsrv uses it: the table of mounted file    *)
(* systems, the accessor behind each name, the accessors of open files,    *)
(* and the result of a failed write that a file keeps.                     *)
(*                                                                         *)
(* The table and the list of open files have mutexes of their own, but an  *)
(* accessor is found under the mutex of the table and used after it was    *)
(* given back. What keeps it alive is the caller: files are opened and     *)
(* file systems unmounted by the holder of g_AlbumMutex alone, with the    *)
(* files closed before (ON_SCOPE_EXIT); any thread may mount, which        *)
(* GenerateCurrentAlbumFileId does without the mutex.                      *)
(*                                                                         *)
(* Calls that leave this state alone (reading, creating, deleting or       *)
(* sizing a file, a failed one of the others) appear as the use of an      *)
(* accessor or not at all. A handle of a directory is one nothing is       *)
(* written to. An accessor and a file are their addresses, which are       *)
(* allocated again once they are freed.                                    *)
(***************************************************************************)
EXTENDS FiniteSets

CONSTANTS Thread, Name, Accessor, Handle, None

ASSUME NoneAssumption == None \notin Thread \cup Name \cup Accessor \cup Handle

VARIABLES
  table,          \* the accessors in fs_list
  name,           \* Accessor -> the name it was made for, None if it is free
  file,           \* Handle -> its FileAccessor, NoFile if it is closed
  holder,         \* the thread with g_AlbumMutex
  opened,         \* the handles in the scope of its command
  call,           \* Thread -> the library call it is in
  aborted         \* the process is gone

vars == << table, name, file, holder, opened, call, aborted >>

(* A FileAccessor. "failed" is write_result, pending whether the storage   *)
(* has yet to be given what was written (no variable of the program).      *)
FileAccessor ==
  [parent: Accessor, write_state: {"None", "NeedsFlush", "Failed"},
   failed: BOOLEAN, pending: BOOLEAN]

NoFile == [parent |-> None]

IsOpen(h) == file[h] # NoFile

(* Fault: the accessor is made without its parent. *)
NewFileFault(a) ==
  [parent |-> None, write_state |-> "None", failed |-> FALSE, pending |-> FALSE]

(* OpenFile's accessor. *)
NewFile(a) ==
  [parent |-> a, write_state |-> "None", failed |-> FALSE, pending |-> FALSE]

NoCall == [op |-> "None", name |-> None, accessor |-> None]

Call ==
  [op: {"Mount", "Unmount", "Use"}, name: Name, accessor: Accessor] \cup {NoCall}

Init ==
  /\ table = {}
  /\ name = [a \in Accessor |-> None]
  /\ file = [h \in Handle |-> NoFile]
  /\ holder = None
  /\ opened = {}
  /\ call = [t \in Thread |-> NoCall]
  /\ aborted = FALSE

Idle(t) == ~ aborted /\ call[t] = NoCall

InCall(t, op) == ~ aborted /\ call[t].op = op

Enter(t, op, n, a) ==
  call' = [call EXCEPT ![t] = [op |-> op, name |-> n, accessor |-> a]]

Return(t) == call' = [call EXCEPT ![t] = NoCall]

-----------------------------------------------------------------------------

(* A command of the album services takes g_AlbumMutex, ... *)
Lock(t) ==
  /\ Idle(t)
  /\ holder = None
  /\ holder' = t
  /\ UNCHANGED << table, name, file, opened, call, aborted >>

(* Fault: a command returns without closing its files. *)
MayUnlockFault == TRUE

(* ... and has closed its files when it gives it back. *)
MayUnlock == opened = {}

Unlock(t) ==
  /\ Idle(t)
  /\ holder = t
  /\ MayUnlock
  /\ holder' = None
  /\ opened' = {}
  /\ UNCHANGED << table, name, file, call, aborted >>

(* MountTable::Find. *)
Find(n, a) == a \in table /\ name[a] = n

(* MountImageDirectory opens the file system and makes an accessor, ... *)
MountBegin(t, n) ==
  /\ Idle(t)
  /\ \E a \in Accessor :
       /\ name[a] = None
       /\ name' = [name EXCEPT ![a] = n]
       /\ Enter(t, "Mount", n, a)
  /\ UNCHANGED << table, file, holder, opened, aborted >>

(* Fault: the check is left to the caller. *)
CanAcceptMountNameFault(n) == TRUE

CanAcceptMountName(n) == \A a \in table : name[a] # n

(* ... and registers it; one that is rejected is freed. *)
MountEnd(t) ==
  /\ InCall(t, "Mount")
  /\ LET a == call[t].accessor IN
       IF CanAcceptMountName(name[a])
       THEN /\ table' = table \cup {a}
            /\ UNCHANGED name
       ELSE /\ name' = [name EXCEPT ![a] = None]
            /\ UNCHANGED table
  /\ Return(t)
  /\ UNCHANGED << file, holder, opened, aborted >>

(* Fault: g_AlbumMutex is not taken. *)
MayUseFault(t) == TRUE

(* Who may unmount, and use what is mounted. *)
MayUse(t) == holder = t

(* UnmountImpl looks the accessor up. Two rules of the caller are guards   *)
(* here: AlbumManager unmounts only what is mounted, or Unmount aborts     *)
(* (shown of the AlbumManager: NeverUnmountedTwice of AlbumMount), and no  *)
(* command unmounts while it has files open (the scope exits of CopyFile). *)
UnmountBegin(t, n) ==
  /\ Idle(t)
  /\ MayUse(t)
  /\ opened = {}
  /\ \E a \in Accessor : Find(n, a) /\ Enter(t, "Unmount", n, a)
  /\ UNCHANGED << table, name, file, holder, opened, aborted >>

(* The accessor's destructor aborts if a file is open. *)
Destroy(a) ==
  IF \E h \in Handle : IsOpen(h) /\ file[h].parent = a
  THEN aborted' = TRUE /\ UNCHANGED name
  ELSE name' = [name EXCEPT ![a] = None] /\ UNCHANGED aborted

(* MountTable::Unmount looks the name up again, and aborts without it. *)
UnmountEnd(t) ==
  /\ InCall(t, "Unmount")
  /\ \/ \E a \in Accessor :
          /\ Find(call[t].name, a)
          /\ table' = table \ {a}
          /\ Destroy(a)
     \/ /\ \A a \in Accessor : ~ Find(call[t].name, a)
        /\ aborted' = TRUE
        /\ UNCHANGED << table, name >>
  /\ Return(t)
  /\ UNCHANGED << file, holder, opened >>

-----------------------------------------------------------------------------

(* A call with a path: FindFileSystem, ... *)
UseBegin(t, n) ==
  /\ Idle(t)
  /\ MayUse(t)
  /\ \E a \in Accessor : Find(n, a) /\ Enter(t, "Use", n, a)
  /\ UNCHANGED << table, name, file, holder, opened, aborted >>

(* ... then OpenFile or another function of the accessor that was found. *)
UseEnd(t) ==
  /\ InCall(t, "Use")
  /\ \/ UNCHANGED << file, opened >>
     \/ \E h \in Handle :
          /\ ~ IsOpen(h)
          /\ file' = [file EXCEPT ![h] = NewFile(call[t].accessor)]
          /\ opened' = opened \cup {h}
  /\ Return(t)
  /\ UNCHANGED << table, name, holder, aborted >>

(* The handle is t's, and no earlier write has failed for good. *)
Writable(t, h) == Idle(t) /\ holder = t /\ h \in opened /\ ~ file[h].failed

Becomes(h, f) ==
  /\ file' = [file EXCEPT ![h] = f]
  /\ UNCHANGED << table, name, holder, opened, call, aborted >>

(* A write, flush or resize that fails. Of its result, only that there is  *)
(* not enough space is not kept (UpdateLastResult).                        *)
Fail(t, h) ==
  /\ Writable(t, h)
  /\ \E kept \in BOOLEAN :
       Becomes(h, [file[h] EXCEPT !.write_state = "Failed", !.failed = kept])

Write(t, h) ==
  /\ Writable(t, h)
  /\ \/ Becomes(h, [file[h] EXCEPT !.write_state = "NeedsFlush", !.pending = TRUE])
     \/ Becomes(h, [file[h] EXCEPT !.write_state = "None", !.pending = FALSE])

Flush(t, h) ==
  /\ Writable(t, h)
  /\ Becomes(h, [file[h] EXCEPT !.write_state = "None", !.pending = FALSE])

(* Fault: the setter ends on None, as in the other functions. *)
ResizedFault(f) == [f EXCEPT !.write_state = "None"]

(* SetSize ends on old_write_state. *)
Resized(f) == f

SetSize(t, h) ==
  /\ Writable(t, h)
  /\ Becomes(h, Resized(file[h]))

(* CloseFile; the destructor's check comes first. *)
Close(t, h) ==
  /\ Idle(t)
  /\ holder = t
  /\ h \in opened
  /\ opened' = opened \ {h}
  /\ IF file[h].failed /\ file[h].write_state = "NeedsFlush"
     THEN aborted' = TRUE /\ UNCHANGED file
     ELSE file' = [file EXCEPT ![h] = NoFile] /\ UNCHANGED aborted
  /\ UNCHANGED << table, name, holder, call >>

Next ==
  \/ \E t \in Thread :
       \/ Lock(t) \/ Unlock(t) \/ MountEnd(t) \/ UnmountEnd(t) \/ UseEnd(t)
       \/ \E n \in Name : MountBegin(t, n) \/ UnmountBegin(t, n) \/ UseBegin(t, n)
       \/ \E h \in Handle :
            Fail(t, h) \/ Write(t, h) \/ Flush(t, h) \/ SetSize(t, h) \/ Close(t, h)

Spec == Init /\ [][Next]_vars

-----------------------------------------------------------------------------

TypeOK ==
  /\ table \subseteq Accessor
  /\ name \in [Accessor -> Name \cup {None}]
  /\ file \in [Handle -> FileAccessor \cup {NoFile}]
  /\ holder \in Thread \cup {None}
  /\ opened \subseteq Handle
  /\ call \in [Thread -> Call]
  /\ aborted \in BOOLEAN

(* No accessor is leaked or freed early: those that are allocated are the  *)
(* ones in the table, each under a name of its own, and the one of every   *)
(* mount that has not registered it yet (MountTable::Mount, Register).     *)
AccessorsAccounted ==
  /\ \A a \in table, b \in table : name[a] = name[b] => a = b
  /\ \A t \in Thread : call[t].op = "Mount" => call[t].accessor \notin table
  /\ \A a \in Accessor :
       name[a] # None <=>
         a \in table \/ \E t \in Thread : call[t].op = "Mount" /\ call[t].accessor = a

(* The accessor a call has found outside the table's mutex is, when it is  *)
(* used, still the one mounted under that name, whatever other threads did *)
(* between (UnmountImpl, OpenFile and the functions with a path).          *)
FoundIsMounted ==
  \A t \in Thread :
    call[t].op \in {"Unmount", "Use"} => Find(call[t].name, call[t].accessor)

(* An open file's parent, which ~FileAccessor calls, is in the table. *)
ParentIsMounted == \A h \in Handle : IsOpen(h) => file[h].parent \in table

(* None of the library's checks aborts the process: unmounting a name that *)
(* is not mounted, destroying an accessor with open files, and closing a   *)
(* file that has failed and needs to be flushed.                           *)
NeverAborts == ~ aborted

(* write_state tells the truth, through failed calls, retries after a full *)
(* storage and resizes between write and flush: with None, nothing written *)
(* is still pending.                                                       *)
NonePending ==
  \A h \in Handle : IsOpen(h) /\ file[h].write_state = "None" => ~ file[h].pending

(* Mounting, opening, closing and unmounting, several steps each, behave   *)
(* as the atomic calls of FileTable.                                       *)
Promise == INSTANCE FileTable WITH
  mounted <- {name[a] : a \in table},
  open <- [h \in Handle |-> IF IsOpen(h) THEN name[file[h].parent] ELSE None]

TableSpec == Promise!Spec

=============================================================================
