-------------------------- MODULE FsLibraryProofs --------------------------
(***************************************************************************)
(* Proofs about FsLibrary, for any threads, names, accessors and handles:  *)
(* accessors are neither leaked nor used after they were freed, the checks *)
(* of the library never abort the process, and FileTable is implemented.   *)
(***************************************************************************)
EXTENDS FsLibrary, TLAPS

(* The handles of the running command are the open files. *)
OpenedIsOpen == \A h \in Handle : h \in opened <=> IsOpen(h)

(* Only a command with g_AlbumMutex unmounts or uses what is mounted, and  *)
(* one that unmounts has no file open.                                     *)
CallsAreLocked ==
  /\ holder = None => opened = {}
  /\ \A t \in Thread : call[t].op \in {"Unmount", "Use"} => holder = t
  /\ \A t \in Thread : call[t].op = "Unmount" => opened = {}

(* No two mounts have made the same accessor. *)
MountsApart ==
  \A t, u \in Thread :
    call[t].op = "Mount" /\ call[u].op = "Mount" /\ call[t].accessor = call[u].accessor
      => t = u

(* A write that has failed for good leaves its file in the state Failed. *)
FailedState == \A h \in Handle : IsOpen(h) /\ file[h].failed => file[h].write_state = "Failed"

Inv ==
  /\ TypeOK
  /\ AccessorsAccounted /\ MountsApart
  /\ FoundIsMounted /\ CallsAreLocked
  /\ ParentIsMounted /\ OpenedIsOpen
  /\ NonePending /\ FailedState
  /\ NeverAborts

-----------------------------------------------------------------------------

LEMMA NoFileApart == NoFile \notin FileAccessor
  BY NoneAssumption DEF NoFile, FileAccessor

LEMMA NewFileType ==
  ASSUME NEW a \in Accessor
  PROVE  /\ NewFile(a) \in FileAccessor
         /\ NewFile(a).parent = a
         /\ NewFile(a).write_state = "None"
         /\ NewFile(a).failed = FALSE
         /\ NewFile(a).pending = FALSE
  BY DEF NewFile, FileAccessor

(* What Enter and Return make of the calls. *)
LEMMA EnterEffect ==
  ASSUME TypeOK, NEW t \in Thread, NEW op \in {"Mount", "Unmount", "Use"},
         NEW n \in Name, NEW a \in Accessor, Enter(t, op, n, a)
  PROVE  /\ call' \in [Thread -> Call]
         /\ call'[t].op = op /\ call'[t].name = n /\ call'[t].accessor = a
         /\ \A u \in Thread : u # t => call'[u] = call[u]
  BY DEF TypeOK, Enter, Call

LEMMA ReturnEffect ==
  ASSUME TypeOK, NEW t \in Thread, Return(t)
  PROVE  /\ call' \in [Thread -> Call]
         /\ call'[t].op = "None"
         /\ \A u \in Thread : u # t => call'[u] = call[u]
  BY DEF TypeOK, Return, Call, NoCall

LEMMA CallType ==
  ASSUME TypeOK, NEW t \in Thread, call[t].op # "None"
  PROVE  /\ call[t].op \in {"Mount", "Unmount", "Use"}
         /\ call[t].name \in Name
         /\ call[t].accessor \in Accessor
  BY DEF TypeOK, Call, NoCall

(* A file that is open keeps its parent when it is written to. *)
LEMMA BecomesEffect ==
  ASSUME TypeOK, NEW h \in Handle, NEW f \in FileAccessor,
         IsOpen(h), f.parent = file[h].parent, Becomes(h, f)
  PROVE  /\ TypeOK'
         /\ \A g \in Handle : IsOpen(g)' <=> IsOpen(g)
         /\ \A g \in Handle : IsOpen(g) => file'[g].parent = file[g].parent
         /\ \A g \in Handle : g # h => file'[g] = file[g]
         /\ file'[h] = f
         /\ UNCHANGED << table, name, holder, opened, call, aborted >>
  BY NoFileApart DEF TypeOK, Becomes, IsOpen

LEMMA InitInv == Init => Inv
  <1> SUFFICES ASSUME Init PROVE Inv
    OBVIOUS
  <1>1. TypeOK
    BY DEF Init, TypeOK, Call
  <1>2. \A h \in Handle : ~ IsOpen(h)
    BY DEF Init, IsOpen
  <1>3. \A t \in Thread : call[t].op = "None"
    BY DEF Init, NoCall
  <1>4. AccessorsAccounted /\ MountsApart
    BY <1>3 DEF Init, AccessorsAccounted, MountsApart
  <1>5. FoundIsMounted /\ CallsAreLocked
    BY <1>3 DEF Init, FoundIsMounted, CallsAreLocked
  <1>6. ParentIsMounted /\ OpenedIsOpen /\ NonePending /\ FailedState
    BY <1>2 DEF Init, ParentIsMounted, OpenedIsOpen, NonePending, FailedState
  <1>7. NeverAborts
    BY DEF Init, NeverAborts
  <1>8. QED BY <1>1, <1>4, <1>5, <1>6, <1>7 DEF Inv

(* What a step that leaves the files and the table alone preserves. *)
LEMMA FilesKept ==
  ASSUME Inv, UNCHANGED << table, file, opened >>
  PROVE  ParentIsMounted' /\ OpenedIsOpen' /\ NonePending' /\ FailedState'
  BY DEF Inv, ParentIsMounted, OpenedIsOpen, NonePending, FailedState, IsOpen

LEMMA LockInv ==
  ASSUME Inv, NEW t \in Thread, Lock(t) \/ Unlock(t)
  PROVE  Inv'
  <1>0. UNCHANGED << table, name, file, opened, call, aborted >>
    BY DEF Lock, Unlock, MayUnlock
  <1>1. TypeOK'
    BY DEF Inv, Lock, Unlock, TypeOK
  <1>2. AccessorsAccounted' /\ MountsApart'
    BY <1>0 DEF Inv, AccessorsAccounted, MountsApart
  <1>3. FoundIsMounted'
    BY <1>0 DEF Inv, FoundIsMounted, Find
  <1>4. CallsAreLocked'
    <2>1. call[t].op = "None"
      BY DEF Lock, Unlock, Idle, NoCall
    <2>2. CASE Lock(t)
      BY <2>1, <2>2, <1>0, NoneAssumption DEF Inv, CallsAreLocked, Lock
    <2>3. CASE Unlock(t)
      BY <2>1, <2>3, <1>0 DEF Inv, CallsAreLocked, Unlock, MayUnlock
    <2>4. QED BY <2>2, <2>3
  <1>5. NeverAborts'
    BY <1>0 DEF Inv, NeverAborts
  <1>6. QED BY <1>0, <1>1, <1>2, <1>3, <1>4, <1>5, FilesKept DEF Inv

LEMMA MountBeginInv ==
  ASSUME Inv, NEW t \in Thread, NEW n \in Name, MountBegin(t, n)
  PROVE  Inv'
  <1>1. PICK a \in Accessor :
          /\ name[a] = None
          /\ name' = [name EXCEPT ![a] = n]
          /\ Enter(t, "Mount", n, a)
    BY DEF MountBegin
  <1>2. /\ call' \in [Thread -> Call]
        /\ call'[t].op = "Mount" /\ call'[t].name = n /\ call'[t].accessor = a
        /\ \A u \in Thread : u # t => call'[u] = call[u]
    BY <1>1, EnterEffect DEF Inv
  <1>3. /\ UNCHANGED << table, file, holder, opened, aborted >>
        /\ call[t].op = "None"
    BY DEF MountBegin, Idle, NoCall
  <1>4. a \notin table /\ name[a] = None /\ n # None
    BY <1>1, NoneAssumption DEF Inv, AccessorsAccounted
  <1>5. TypeOK'
    BY <1>1, <1>2, <1>3 DEF Inv, TypeOK
  <1>6. AccessorsAccounted' /\ MountsApart'
    <2>1. \A b \in Accessor : b # a => name'[b] = name[b]
      BY <1>1 DEF Inv, TypeOK
    <2>2. name'[a] = n
      BY <1>1 DEF Inv, TypeOK
    <2>3. \A u \in Thread : call[u].op = "Mount" => call[u].accessor # a
      BY <1>4, CallType DEF Inv, AccessorsAccounted
    <2>4. \A b \in table, c \in table : name'[b] = name'[c] => b = c
      BY <1>4, <2>1 DEF Inv, AccessorsAccounted, TypeOK
    <2>5. \A u \in Thread : call'[u].op = "Mount" => call'[u].accessor \notin table
      BY <1>2, <1>4 DEF Inv, AccessorsAccounted
    <2>6. ASSUME NEW b \in Accessor
          PROVE  name'[b] # None <=>
                   b \in table \/ \E u \in Thread : call'[u].op = "Mount" /\ call'[u].accessor = b
      <3>1. CASE b = a
        BY <3>1, <2>2, <1>2, <1>4
      <3>2. CASE b # a
        BY <3>2, <2>1, <1>2, <1>3 DEF Inv, AccessorsAccounted
      <3>3. QED BY <3>1, <3>2
    <2>7. QED BY <2>3, <2>4, <2>5, <2>6, <1>2, <1>3 DEF Inv, AccessorsAccounted, MountsApart
  <1>7. FoundIsMounted' /\ CallsAreLocked'
    <2>1. \A b \in table : name'[b] = name[b]
      BY <1>1, <1>4 DEF Inv, TypeOK
    <2>2. QED BY <2>1, <1>2, <1>3 DEF Inv, FoundIsMounted, CallsAreLocked, Find
  <1>8. NeverAborts'
    BY <1>3 DEF Inv, NeverAborts
  <1>9. QED BY <1>3, <1>5, <1>6, <1>7, <1>8, FilesKept DEF Inv

LEMMA MountEndInv ==
  ASSUME Inv, NEW t \in Thread, MountEnd(t)
  PROVE  Inv'
  <1> DEFINE a == call[t].accessor
  <1>1. /\ call[t].op = "Mount"
        /\ a \in Accessor /\ a \notin table
        /\ name[a] # None
    BY CallType DEF Inv, MountEnd, InCall, AccessorsAccounted
  <1>2. /\ call' \in [Thread -> Call]
        /\ call'[t].op = "None"
        /\ \A u \in Thread : u # t => call'[u] = call[u]
    BY ReturnEffect DEF Inv, MountEnd
  <1>3. UNCHANGED << file, holder, opened, aborted >>
    BY DEF MountEnd
  <1>4. \A u \in Thread : u # t /\ call[u].op = "Mount" => call[u].accessor # a
    BY <1>1 DEF Inv, MountsApart
  <1>5. CallsAreLocked' /\ MountsApart' /\ NeverAborts'
    BY <1>2, <1>3 DEF Inv, CallsAreLocked, MountsApart, NeverAborts
  <1>6. OpenedIsOpen' /\ NonePending' /\ FailedState'
    BY <1>3 DEF Inv, OpenedIsOpen, NonePending, FailedState, IsOpen
  <1>7. CASE CanAcceptMountName(name[a])
    <2>1. table' = table \cup {a} /\ name' = name
      BY <1>7 DEF MountEnd
    <2>2. TypeOK'
      BY <1>1, <1>2, <1>3, <2>1 DEF Inv, TypeOK
    <2>3. \A b \in table', c \in table' : name'[b] = name'[c] => b = c
      BY <1>7, <2>1 DEF Inv, AccessorsAccounted, CanAcceptMountName
    <2>4. AccessorsAccounted'
      BY <1>1, <1>2, <1>4, <2>1, <2>3 DEF Inv, AccessorsAccounted
    <2>5. FoundIsMounted' /\ ParentIsMounted'
      BY <1>2, <1>3, <2>1 DEF Inv, FoundIsMounted, ParentIsMounted, Find, IsOpen
    <2>6. QED BY <1>5, <1>6, <2>2, <2>4, <2>5 DEF Inv
  <1>8. CASE ~ CanAcceptMountName(name[a])
    <2>1. table' = table /\ name' = [name EXCEPT ![a] = None]
      BY <1>8 DEF MountEnd
    <2>2. TypeOK'
      BY <1>1, <1>2, <1>3, <2>1 DEF Inv, TypeOK
    <2>3. \A b \in Accessor : b # a => name'[b] = name[b]
      BY <2>1 DEF Inv, TypeOK
    <2>4. name'[a] = None
      BY <2>1, <1>1 DEF Inv, TypeOK
    <2>5. \A b \in table : b \in Accessor /\ name'[b] = name[b]
      BY <2>3, <1>1 DEF Inv, TypeOK
    <2>6. AccessorsAccounted'
      <3>1. \A b \in table', c \in table' : name'[b] = name'[c] => b = c
        BY <2>1, <2>5 DEF Inv, AccessorsAccounted
      <3>2. \A u \in Thread : call'[u].op = "Mount" => call'[u].accessor \notin table'
        BY <1>2, <2>1 DEF Inv, AccessorsAccounted
      <3>3. ASSUME NEW b \in Accessor
            PROVE  name'[b] # None <=>
                     b \in table' \/ \E u \in Thread : call'[u].op = "Mount" /\ call'[u].accessor = b
        <4>1. CASE b = a
          BY <4>1, <2>1, <2>4, <1>1, <1>2, <1>4
        <4>2. CASE b # a
          BY <4>2, <2>1, <2>3, <1>1, <1>2 DEF Inv, AccessorsAccounted
        <4>3. QED BY <4>1, <4>2
      <3>4. QED BY <3>1, <3>2, <3>3 DEF AccessorsAccounted
    <2>7. FoundIsMounted' /\ ParentIsMounted'
      BY <1>2, <1>3, <2>1, <2>5 DEF Inv, FoundIsMounted, ParentIsMounted, Find, IsOpen
    <2>8. QED BY <1>5, <1>6, <2>2, <2>6, <2>7 DEF Inv
  <1>9. QED BY <1>7, <1>8

(* A call that finds an accessor changes nothing but that thread's call. *)
LEMMA BeginInv ==
  ASSUME Inv, NEW t \in Thread, NEW n \in Name, UnmountBegin(t, n) \/ UseBegin(t, n)
  PROVE  Inv'
  <1>1. PICK a \in Accessor, op \in {"Unmount", "Use"} :
          /\ Find(n, a)
          /\ Enter(t, op, n, a)
          /\ op = "Unmount" => opened = {}
    BY DEF UnmountBegin, UseBegin
  <1>2. /\ call' \in [Thread -> Call]
        /\ call'[t].op = op /\ call'[t].name = n /\ call'[t].accessor = a
        /\ \A u \in Thread : u # t => call'[u] = call[u]
    BY <1>1, EnterEffect DEF Inv
  <1>3. /\ UNCHANGED << table, name, file, holder, opened, aborted >>
        /\ call[t].op = "None"
        /\ holder = t
    BY DEF UnmountBegin, UseBegin, Idle, NoCall, MayUse
  <1>4. TypeOK'
    BY <1>2, <1>3 DEF Inv, TypeOK
  <1>5. AccessorsAccounted' /\ MountsApart'
    BY <1>2, <1>3 DEF Inv, AccessorsAccounted, MountsApart
  <1>6. FoundIsMounted'
    BY <1>1, <1>2, <1>3 DEF Inv, FoundIsMounted, Find
  <1>7. CallsAreLocked'
    BY <1>1, <1>2, <1>3 DEF Inv, CallsAreLocked
  <1>8. NeverAborts'
    BY <1>3 DEF Inv, NeverAborts
  <1>9. QED BY <1>3, <1>4, <1>5, <1>6, <1>7, <1>8, FilesKept DEF Inv

(* UnmountEnd finds what UnmountBegin found, with no file open. *)
LEMMA UnmountEndEffect ==
  ASSUME Inv, NEW t \in Thread, UnmountEnd(t)
  PROVE  LET a == call[t].accessor IN
           /\ call[t].op = "Unmount" /\ holder = t /\ opened = {}
           /\ a \in table /\ name[a] = call[t].name /\ name[a] \in Name
           /\ table' = table \ {a}
           /\ name' = [name EXCEPT ![a] = None]
           /\ UNCHANGED << file, holder, opened, aborted >>
  <1> DEFINE a == call[t].accessor
  <1>1. /\ call[t].op = "Unmount" /\ holder = t /\ opened = {}
        /\ a \in table /\ a \in Accessor /\ name[a] = call[t].name /\ name[a] \in Name
    BY CallType DEF Inv, UnmountEnd, InCall, CallsAreLocked, FoundIsMounted, Find
  <1>2. \A h \in Handle : ~ IsOpen(h)
    BY <1>1 DEF Inv, OpenedIsOpen
  <1>3. \A b \in Accessor : Find(call[t].name, b) => b = a
    BY <1>1 DEF Inv, AccessorsAccounted, Find
  <1>4. PICK b \in Accessor : Find(call[t].name, b) /\ table' = table \ {b} /\ Destroy(b)
    BY <1>1 DEF UnmountEnd, Find
  <1>5. name' = [name EXCEPT ![b] = None] /\ UNCHANGED aborted
    BY <1>2, <1>4 DEF Destroy
  <1>6. QED BY <1>1, <1>3, <1>4, <1>5 DEF UnmountEnd

LEMMA UnmountEndInv ==
  ASSUME Inv, NEW t \in Thread, UnmountEnd(t)
  PROVE  Inv'
  <1> DEFINE a == call[t].accessor
  <1>1. /\ call[t].op = "Unmount" /\ holder = t /\ opened = {}
        /\ a \in table /\ a \in Accessor
        /\ table' = table \ {a}
        /\ name' = [name EXCEPT ![a] = None]
        /\ UNCHANGED << file, holder, opened, aborted >>
    BY UnmountEndEffect DEF Inv, TypeOK
  <1>2. /\ call' \in [Thread -> Call]
        /\ call'[t].op = "None"
        /\ \A u \in Thread : u # t => call'[u] = call[u]
    BY ReturnEffect DEF Inv, UnmountEnd
  <1>3. TypeOK'
    BY <1>1, <1>2 DEF Inv, TypeOK
  <1>4. /\ \A b \in Accessor : b # a => name'[b] = name[b]
        /\ name'[a] = None
    BY <1>1 DEF Inv, TypeOK
  <1>5. \A h \in Handle : ~ IsOpen(h)
    BY <1>1 DEF Inv, OpenedIsOpen
  <1>6. \A u \in Thread : call'[u].op \notin {"Unmount", "Use"}
    BY <1>1, <1>2 DEF Inv, CallsAreLocked
  <1>7. AccessorsAccounted'
    <2>1. \A b \in table', c \in table' : name'[b] = name'[c] => b = c
      BY <1>1, <1>4 DEF Inv, AccessorsAccounted, TypeOK
    <2>2. \A u \in Thread : call'[u].op = "Mount" => call'[u].accessor \notin table'
      BY <1>1, <1>2 DEF Inv, AccessorsAccounted
    <2>3. ASSUME NEW b \in Accessor
          PROVE  name'[b] # None <=>
                   b \in table' \/ \E u \in Thread : call'[u].op = "Mount" /\ call'[u].accessor = b
      <3>1. CASE b = a
        <4>1. \A u \in Thread : call[u].op = "Mount" => call[u].accessor # a
          BY <1>1 DEF Inv, AccessorsAccounted
        <4>2. QED BY <3>1, <4>1, <1>1, <1>2, <1>4
      <3>2. CASE b # a
        <4>1. name'[b] = name[b]
          BY <3>2, <1>4
        <4>2. b \in table' <=> b \in table
          BY <3>2, <1>1
        <4>3. \A u \in Thread : call'[u].op = "Mount" <=> call[u].op = "Mount"
          BY <1>1, <1>2
        <4>4. \A u \in Thread : call'[u].op = "Mount" => call'[u] = call[u]
          BY <1>2
        <4>5. QED BY <4>1, <4>2, <4>3, <4>4 DEF Inv, AccessorsAccounted
      <3>3. QED BY <3>1, <3>2
    <2>4. QED BY <2>1, <2>2, <2>3 DEF AccessorsAccounted
  <1>8. MountsApart'
    BY <1>2 DEF Inv, MountsApart
  <1>9. FoundIsMounted' /\ CallsAreLocked'
    BY <1>1, <1>6 DEF Inv, FoundIsMounted, CallsAreLocked
  <1>10. ParentIsMounted' /\ OpenedIsOpen' /\ NonePending' /\ FailedState'
    BY <1>1, <1>5 DEF Inv, ParentIsMounted, OpenedIsOpen, NonePending, FailedState, IsOpen
  <1>11. NeverAborts'
    BY <1>1 DEF Inv, NeverAborts
  <1>12. QED BY <1>3, <1>7, <1>8, <1>9, <1>10, <1>11 DEF Inv

(* A call that ends changes no other thread's call. *)
LEMMA UseEndInv ==
  ASSUME Inv, NEW t \in Thread, UseEnd(t)
  PROVE  Inv'
  <1> DEFINE a == call[t].accessor
  <1>1. /\ call[t].op = "Use" /\ holder = t
        /\ a \in table /\ a \in Accessor
        /\ UNCHANGED << table, name, holder, aborted >>
    BY CallType DEF Inv, UseEnd, InCall, CallsAreLocked, FoundIsMounted, Find
  <1>2. /\ call' \in [Thread -> Call]
        /\ call'[t].op = "None"
        /\ \A u \in Thread : u # t => call'[u] = call[u]
    BY ReturnEffect DEF Inv, UseEnd
  <1>3. AccessorsAccounted' /\ MountsApart' /\ FoundIsMounted'
    BY <1>1, <1>2 DEF Inv, AccessorsAccounted, MountsApart, FoundIsMounted, Find
  <1>4. CallsAreLocked'
    <2>1. \A u \in Thread : call'[u].op \notin {"Unmount"}
      BY <1>1, <1>2 DEF Inv, CallsAreLocked
    <2>2. QED BY <2>1, <1>1, <1>2, NoneAssumption DEF Inv, CallsAreLocked
  <1>5. NeverAborts'
    BY <1>1 DEF Inv, NeverAborts
  <1>6. CASE UNCHANGED << file, opened >>
    <2>1. TypeOK'
      BY <1>6, <1>1, <1>2 DEF Inv, TypeOK
    <2>2. QED BY <1>6, <2>1, <1>1, <1>3, <1>4, <1>5, FilesKept DEF Inv
  <1>7. CASE \E h \in Handle :
               /\ ~ IsOpen(h)
               /\ file' = [file EXCEPT ![h] = NewFile(a)]
               /\ opened' = opened \cup {h}
    <2>1. PICK h \in Handle :
            /\ file' = [file EXCEPT ![h] = NewFile(a)]
            /\ opened' = opened \cup {h}
      BY <1>7
    <2>2. TypeOK'
      BY <2>1, <1>1, <1>2, NewFileType DEF Inv, TypeOK
    <2>3. /\ file'[h] = NewFile(a)
          /\ \A g \in Handle : g # h => file'[g] = file[g]
      BY <2>1 DEF Inv, TypeOK
    <2>4. IsOpen(h)'
      BY <2>3, <1>1, NewFileType, NoFileApart DEF IsOpen
    <2>5. \A g \in Handle : g # h => (IsOpen(g)' <=> IsOpen(g))
      BY <2>3 DEF IsOpen
    <2>6. /\ file'[h].parent = a
          /\ file'[h].failed = FALSE
          /\ file'[h].pending = FALSE
      BY <2>3, <1>1, NewFileType
    <2>7. ASSUME NEW g \in Handle
          PROVE  /\ IsOpen(g)' => file'[g].parent \in table'
                 /\ g \in opened' <=> IsOpen(g)'
                 /\ IsOpen(g)' /\ file'[g].write_state = "None" => ~ file'[g].pending
                 /\ IsOpen(g)' /\ file'[g].failed => file'[g].write_state = "Failed"
      <3>1. CASE g = h
        BY <3>1, <2>1, <2>4, <2>6, <1>1
      <3>2. CASE g # h
        <4>1. file'[g] = file[g] /\ (IsOpen(g)' <=> IsOpen(g)) /\ (g \in opened' <=> g \in opened)
          BY <3>2, <2>1, <2>3, <2>5
        <4>2. QED BY <4>1, <1>1 DEF Inv, ParentIsMounted, OpenedIsOpen, NonePending, FailedState
      <3>3. QED BY <3>1, <3>2
    <2>8. ParentIsMounted' /\ OpenedIsOpen' /\ NonePending' /\ FailedState'
      BY <2>7 DEF ParentIsMounted, OpenedIsOpen, NonePending, FailedState
    <2>9. QED BY <2>2, <2>8, <1>3, <1>4, <1>5 DEF Inv
  <1>8. QED BY <1>6, <1>7 DEF UseEnd

(* The file a write leaves behind. *)
LEMMA WritableFile ==
  ASSUME Inv, NEW t \in Thread, NEW h \in Handle, Writable(t, h)
  PROVE  /\ IsOpen(h) /\ file[h] \in FileAccessor /\ file[h].failed = FALSE
         /\ file[h].write_state = "None" => file[h].pending = FALSE
  BY DEF Inv, Writable, OpenedIsOpen, NonePending, IsOpen, TypeOK, FileAccessor

(* A file that says the truth keeps the invariant. *)
LEMMA BecomesInv ==
  ASSUME Inv, NEW h \in Handle, NEW f \in FileAccessor, IsOpen(h),
         Becomes(h, f), f.parent = file[h].parent,
         f.write_state = "None" => ~ f.pending,
         f.failed => f.write_state = "Failed"
  PROVE  Inv'
  <1>1. /\ TypeOK'
        /\ \A g \in Handle : IsOpen(g)' <=> IsOpen(g)
        /\ \A g \in Handle : IsOpen(g) => file'[g].parent = file[g].parent
        /\ \A g \in Handle : g # h => file'[g] = file[g]
        /\ file'[h] = f
        /\ UNCHANGED << table, name, holder, opened, call, aborted >>
    BY BecomesEffect DEF Inv
  <1>2. AccessorsAccounted' /\ MountsApart' /\ FoundIsMounted' /\ CallsAreLocked' /\ NeverAborts'
    BY <1>1 DEF Inv, AccessorsAccounted, MountsApart, FoundIsMounted, CallsAreLocked,
       NeverAborts, Find
  <1>3. ParentIsMounted'
    BY <1>1 DEF Inv, ParentIsMounted
  <1>4. OpenedIsOpen'
    BY <1>1 DEF Inv, OpenedIsOpen
  <1>5. ASSUME NEW g \in Handle, IsOpen(g)'
        PROVE  /\ file'[g].write_state = "None" => ~ file'[g].pending
               /\ file'[g].failed => file'[g].write_state = "Failed"
    <2>1. CASE g = h
      BY <2>1, <1>1
    <2>2. CASE g # h
      BY <2>2, <1>1, <1>5 DEF Inv, NonePending, FailedState
    <2>3. QED BY <2>1, <2>2
  <1>6. NonePending' /\ FailedState'
    BY <1>5 DEF NonePending, FailedState
  <1>7. QED BY <1>1, <1>2, <1>3, <1>4, <1>6 DEF Inv

LEMMA WriteInv ==
  ASSUME Inv, NEW t \in Thread, NEW h \in Handle,
         Fail(t, h) \/ Write(t, h) \/ Flush(t, h) \/ SetSize(t, h)
  PROVE  Inv'
  <1>1. /\ IsOpen(h) /\ file[h] \in FileAccessor /\ file[h].failed = FALSE
        /\ file[h].write_state = "None" => file[h].pending = FALSE
    BY WritableFile DEF Fail, Write, Flush, SetSize
  <1>2. CASE Fail(t, h)
    <2>1. PICK kept \in BOOLEAN :
            Becomes(h, [file[h] EXCEPT !.write_state = "Failed", !.failed = kept])
      BY <1>2 DEF Fail
    <2> DEFINE f == [file[h] EXCEPT !.write_state = "Failed", !.failed = kept]
    <2>2. f \in FileAccessor /\ f.parent = file[h].parent /\ f.write_state = "Failed"
      BY <1>1 DEF FileAccessor
    <2>3. QED BY <2>1, <2>2, <1>1, BecomesInv
  <1>3. CASE \E state \in {"NeedsFlush", "None"}, rest \in BOOLEAN :
               /\ state = "None" => rest = FALSE
               /\ Becomes(h, [file[h] EXCEPT !.write_state = state, !.pending = rest])
    <2>1. PICK state \in {"NeedsFlush", "None"}, rest \in BOOLEAN :
            /\ state = "None" => rest = FALSE
            /\ Becomes(h, [file[h] EXCEPT !.write_state = state, !.pending = rest])
      BY <1>3
    <2> DEFINE f == [file[h] EXCEPT !.write_state = state, !.pending = rest]
    <2>2. /\ f \in FileAccessor /\ f.parent = file[h].parent
          /\ f.write_state = state /\ f.pending = rest /\ f.failed = FALSE
      BY <1>1 DEF FileAccessor
    <2> HIDE DEF f
    <2>3. Becomes(h, f) /\ (f.write_state = "None" => ~ f.pending)
      BY <2>1, <2>2 DEF f
    <2>4. QED BY <2>2, <2>3, <1>1, BecomesInv
  <1>4. CASE Write(t, h) \/ Flush(t, h)
    BY <1>3, <1>4 DEF Write, Flush
  <1>5. CASE SetSize(t, h)
    <2>1. Becomes(h, file[h])
      BY <1>5 DEF SetSize, Resized
    <2>2. QED BY <2>1, <1>1, BecomesInv
  <1>6. QED BY <1>2, <1>4, <1>5

LEMMA CloseInv ==
  ASSUME Inv, NEW t \in Thread, NEW h \in Handle, Close(t, h)
  PROVE  Inv'
  <1>1. IsOpen(h) /\ holder = t
    BY DEF Inv, Close, OpenedIsOpen
  <1>2. ~ (file[h].failed /\ file[h].write_state = "NeedsFlush")
    BY <1>1 DEF Inv, FailedState
  <1>3. /\ file' = [file EXCEPT ![h] = NoFile]
        /\ opened' = opened \ {h}
        /\ UNCHANGED << table, name, holder, call, aborted >>
    BY <1>2 DEF Close
  <1>4. TypeOK'
    BY <1>3 DEF Inv, TypeOK
  <1>5. /\ file'[h] = NoFile
        /\ \A g \in Handle : g # h => file'[g] = file[g]
    BY <1>3 DEF Inv, TypeOK
  <1>6. AccessorsAccounted' /\ MountsApart' /\ FoundIsMounted' /\ NeverAborts'
    BY <1>3 DEF Inv, AccessorsAccounted, MountsApart, FoundIsMounted, NeverAborts, Find
  <1>7. CallsAreLocked'
    BY <1>1, <1>3 DEF Inv, CallsAreLocked
  <1>8. ~ IsOpen(h)' /\ \A g \in Handle : g # h => (IsOpen(g)' <=> IsOpen(g))
    BY <1>5 DEF IsOpen
  <1>9. OpenedIsOpen'
    BY <1>3, <1>8 DEF Inv, OpenedIsOpen
  <1>10. ParentIsMounted' /\ NonePending' /\ FailedState'
    BY <1>3, <1>5, <1>8 DEF Inv, ParentIsMounted, NonePending, FailedState
  <1>11. QED BY <1>4, <1>6, <1>7, <1>9, <1>10 DEF Inv

LEMMA NextInv == Inv /\ [Next]_vars => Inv'
  <1> SUFFICES ASSUME Inv, [Next]_vars PROVE Inv'
    OBVIOUS
  <1>1. CASE UNCHANGED vars
    BY <1>1 DEF Inv, vars, TypeOK, AccessorsAccounted, MountsApart, FoundIsMounted,
       CallsAreLocked, ParentIsMounted, OpenedIsOpen, NonePending, FailedState,
       NeverAborts, Find, IsOpen
  <1>2. ASSUME NEW t \in Thread,
               Lock(t) \/ Unlock(t) \/ MountEnd(t) \/ UnmountEnd(t) \/ UseEnd(t)
        PROVE  Inv'
    BY <1>2, LockInv, MountEndInv, UnmountEndInv, UseEndInv
  <1>3. ASSUME NEW t \in Thread, NEW n \in Name,
               MountBegin(t, n) \/ UnmountBegin(t, n) \/ UseBegin(t, n)
        PROVE  Inv'
    BY <1>3, MountBeginInv, BeginInv
  <1>4. ASSUME NEW t \in Thread, NEW h \in Handle,
               Fail(t, h) \/ Write(t, h) \/ Flush(t, h) \/ SetSize(t, h) \/ Close(t, h)
        PROVE  Inv'
    BY <1>4, WriteInv, CloseInv
  <1>5. QED BY <1>1, <1>2, <1>3, <1>4 DEF Next

-----------------------------------------------------------------------------

(* Inv is an invariant of every behaviour of the library. *)
THEOREM Invariance == Spec => []Inv
  <1>1. Init => Inv
    BY InitInv
  <1>2. Inv /\ [Next]_vars => Inv'
    BY NextInv
  <1>3. QED BY <1>1, <1>2, PTL DEF Spec

(* The variables have their types. *)
THEOREM TypeCorrect == Spec => []TypeOK
  <1>1. Inv => TypeOK
    BY DEF Inv
  <1>2. QED BY <1>1, Invariance, PTL

(* No accessor is leaked, freed early or mounted twice under one name      *)
(* (MountImageDirectory, MountTable::Mount and MountTable::Unmount).       *)
THEOREM NothingLeaks == Spec => []AccessorsAccounted
  <1>1. Inv => AccessorsAccounted
    BY DEF Inv
  <1>2. QED BY <1>1, Invariance, PTL

(* What UnmountImpl and FindFileSystem have found is still there when it   *)
(* is used, although the mutex of the table was given back between.        *)
THEOREM FoundStaysMounted == Spec => []FoundIsMounted
  <1>1. Inv => FoundIsMounted
    BY DEF Inv
  <1>2. QED BY <1>1, Invariance, PTL

(* ~FileAccessor never calls a parent that was destroyed. *)
THEOREM ParentStaysMounted == Spec => []ParentIsMounted
  <1>1. Inv => ParentIsMounted
    BY DEF Inv
  <1>2. QED BY <1>1, Invariance, PTL

(* The checks of the library never abort the process. *)
THEOREM NoAbort == Spec => []NeverAborts
  <1>1. Inv => NeverAborts
    BY DEF Inv
  <1>2. QED BY <1>1, Invariance, PTL

(* A file whose write_state is None has nothing left to flush. *)
THEOREM NoneHasNothingPending == Spec => []NonePending
  <1>1. Inv => NonePending
    BY DEF Inv
  <1>2. QED BY <1>1, Invariance, PTL

-----------------------------------------------------------------------------
(* FileTable is implemented.                                               *)

Mounted == {name[a] : a \in table}

OpenOn == [h \in Handle |-> IF IsOpen(h) THEN name[file[h].parent] ELSE None]

(* Steps that mount, unmount, open and close nothing. *)
LEMMA Stutters ==
  ASSUME Inv, UNCHANGED << table, file >>, \A a \in table : name'[a] = name[a]
  PROVE  UNCHANGED << Mounted, OpenOn >>
  <1>1. Mounted' = Mounted
    BY DEF Mounted
  <1>2. \A h \in Handle : (IF IsOpen(h) THEN name[file[h].parent] ELSE None)'
                            = IF IsOpen(h) THEN name[file[h].parent] ELSE None
    BY DEF Inv, ParentIsMounted, IsOpen
  <1>3. OpenOn' = OpenOn
    BY <1>2 DEF OpenOn
  <1>4. QED BY <1>1, <1>3

LEMMA MountEndStep ==
  ASSUME Inv, NEW t \in Thread, MountEnd(t)
  PROVE  \/ \E n \in Name : n \notin Mounted /\ Mounted' = Mounted \cup {n} /\ OpenOn' = OpenOn
         \/ UNCHANGED << Mounted, OpenOn >>
  <1> DEFINE a == call[t].accessor
  <1>1. /\ a \in Accessor /\ a \notin table /\ name[a] \in Name
        /\ file' = file
    BY CallType DEF Inv, MountEnd, InCall, AccessorsAccounted, TypeOK
  <1>2. CASE CanAcceptMountName(name[a])
    <2>1. table' = table \cup {a} /\ name' = name
      BY <1>2 DEF MountEnd
    <2>2. name[a] \notin Mounted /\ Mounted' = Mounted \cup {name[a]}
      BY <1>2, <2>1 DEF Mounted, CanAcceptMountName
    <2>3. OpenOn' = OpenOn
      BY <1>1, <2>1 DEF OpenOn, IsOpen
    <2>4. QED BY <1>1, <2>2, <2>3
  <1>3. CASE ~ CanAcceptMountName(name[a])
    <2>1. table' = table /\ name' = [name EXCEPT ![a] = None]
      BY <1>3 DEF MountEnd
    <2>2. \A b \in table : name'[b] = name[b]
      BY <1>1, <2>1 DEF Inv, TypeOK
    <2>3. QED BY <1>1, <2>1, <2>2, Stutters
  <1>4. QED BY <1>2, <1>3

LEMMA UnmountEndStep ==
  ASSUME Inv, NEW t \in Thread, UnmountEnd(t)
  PROVE  \E n \in Name : /\ n \in Mounted /\ \A h \in Handle : OpenOn[h] # n
                         /\ Mounted' = Mounted \ {n} /\ OpenOn' = OpenOn
  <1> DEFINE a == call[t].accessor
  <1>1. /\ opened = {} /\ a \in table /\ a \in Accessor /\ name[a] \in Name
        /\ table' = table \ {a}
        /\ name' = [name EXCEPT ![a] = None]
        /\ file' = file
    BY UnmountEndEffect DEF Inv, TypeOK
  <1>2. \A h \in Handle : ~ IsOpen(h)
    BY <1>1 DEF Inv, OpenedIsOpen
  <1>3. \A b \in table : b # a => name'[b] = name[b] /\ name[b] # name[a]
    BY <1>1 DEF Inv, TypeOK, AccessorsAccounted
  <1>4. name[a] \in Mounted /\ Mounted' = Mounted \ {name[a]}
    BY <1>1, <1>3 DEF Mounted
  <1>5. \A h \in Handle : OpenOn[h] # name[a]
    BY <1>1, <1>2, NoneAssumption DEF OpenOn
  <1>6. OpenOn' = OpenOn
    BY <1>1, <1>2 DEF OpenOn, IsOpen
  <1>7. QED BY <1>1, <1>4, <1>5, <1>6

LEMMA UseEndStep ==
  ASSUME Inv, NEW t \in Thread, UseEnd(t)
  PROVE  \/ \E h \in Handle, n \in Name :
              /\ n \in Mounted /\ OpenOn[h] = None
              /\ OpenOn' = [OpenOn EXCEPT ![h] = n] /\ Mounted' = Mounted
         \/ UNCHANGED << Mounted, OpenOn >>
  <1> DEFINE a == call[t].accessor
  <1>1. /\ a \in table /\ a \in Accessor /\ name[a] \in Name
        /\ UNCHANGED << table, name >>
    BY CallType DEF Inv, UseEnd, InCall, FoundIsMounted, Find
  <1>2. CASE file' = file
    BY <1>1, <1>2, Stutters
  <1>3. CASE \E h \in Handle : ~ IsOpen(h) /\ file' = [file EXCEPT ![h] = NewFile(a)]
    <2>1. PICK h \in Handle : ~ IsOpen(h) /\ file' = [file EXCEPT ![h] = NewFile(a)]
      BY <1>3
    <2>2. /\ file'[h] = NewFile(a)
          /\ \A g \in Handle : g # h => file'[g] = file[g]
      BY <2>1 DEF Inv, TypeOK
    <2>3. IsOpen(h)' /\ file'[h].parent = a
      BY <2>2, <1>1, NewFileType, NoFileApart DEF IsOpen
    <2>4. OpenOn' = [g \in Handle |-> IF g = h THEN name[a] ELSE OpenOn[g]]
      <3>1. \A g \in Handle : (IF IsOpen(g) THEN name[file[g].parent] ELSE None)'
                                = IF g = h THEN name[a] ELSE OpenOn[g]
        BY <2>2, <2>3, <1>1 DEF OpenOn, IsOpen
      <3>2. QED BY <3>1 DEF OpenOn
    <2>5. OpenOn[h] = None /\ OpenOn' = [OpenOn EXCEPT ![h] = name[a]]
      BY <2>1, <2>4 DEF OpenOn
    <2>6. name[a] \in Mounted /\ Mounted' = Mounted
      BY <1>1 DEF Mounted
    <2>7. QED BY <2>5, <2>6, <1>1
  <1>4. QED BY <1>2, <1>3 DEF UseEnd

LEMMA CloseStep ==
  ASSUME Inv, NEW t \in Thread, NEW h \in Handle, Close(t, h)
  PROVE  OpenOn[h] # None /\ OpenOn' = [OpenOn EXCEPT ![h] = None] /\ Mounted' = Mounted
  <1>1. IsOpen(h) /\ ~ (file[h].failed /\ file[h].write_state = "NeedsFlush")
    BY DEF Inv, Close, OpenedIsOpen, FailedState
  <1>2. /\ file' = [file EXCEPT ![h] = NoFile]
        /\ UNCHANGED << table, name >>
    BY <1>1 DEF Close
  <1>3. /\ file'[h] = NoFile
        /\ \A g \in Handle : g # h => file'[g] = file[g]
    BY <1>2 DEF Inv, TypeOK
  <1>4. OpenOn' = [g \in Handle |-> IF g = h THEN None ELSE OpenOn[g]]
    <2>1. \A g \in Handle : (IF IsOpen(g) THEN name[file[g].parent] ELSE None)'
                              = IF g = h THEN None ELSE OpenOn[g]
      BY <1>2, <1>3 DEF OpenOn, IsOpen
    <2>2. QED BY <2>1 DEF OpenOn
  <1>5. OpenOn[h] # None
    BY <1>1 DEF OpenOn, Inv, ParentIsMounted, AccessorsAccounted, TypeOK
  <1>6. QED BY <1>2, <1>4, <1>5 DEF OpenOn, Mounted

LEMMA WriteStep ==
  ASSUME Inv, NEW t \in Thread, NEW h \in Handle,
         Fail(t, h) \/ Write(t, h) \/ Flush(t, h) \/ SetSize(t, h)
  PROVE  UNCHANGED << Mounted, OpenOn >>
  <1>1. IsOpen(h) /\ file[h] \in FileAccessor
    BY WritableFile DEF Fail, Write, Flush, SetSize
  <1>2. PICK f \in FileAccessor : f.parent = file[h].parent /\ Becomes(h, f)
    BY <1>1 DEF Fail, Write, Flush, SetSize, Resized, FileAccessor
  <1>3. /\ \A g \in Handle : IsOpen(g)' <=> IsOpen(g)
        /\ \A g \in Handle : IsOpen(g) => file'[g].parent = file[g].parent
        /\ UNCHANGED << table, name >>
    BY <1>1, <1>2, BecomesEffect DEF Inv
  <1>4. OpenOn' = OpenOn
    BY <1>3 DEF OpenOn
  <1>5. QED BY <1>3, <1>4 DEF Mounted

(* The calls of the library, several steps each, implement the atomic      *)
(* calls of FileTable: MountEnd mounts, UnmountEnd unmounts, UseEnd opens  *)
(* and Close closes.                                                       *)
THEOREM ImplementsTable == Spec => TableSpec
  <1>1. Init => Promise!Init
    <2> SUFFICES ASSUME Init PROVE Promise!Init
      OBVIOUS
    <2>1. {name[a] : a \in table} = {}
      BY DEF Init
    <2>2. \A h \in Handle : ~ IsOpen(h)
      BY DEF Init, IsOpen
    <2>3. QED BY <2>1, <2>2 DEF Promise!Init
  <1>2. Inv /\ [Next]_vars => [Promise!Next]_(Promise!vars)
    <2> SUFFICES ASSUME Inv, [Next]_vars PROVE [Promise!Next]_(Promise!vars)
      OBVIOUS
    <2> USE DEF Mounted, OpenOn
    <2>1. CASE UNCHANGED << Mounted, OpenOn >>
      BY <2>1 DEF Promise!vars
    <2>2. CASE UNCHANGED vars
      BY <2>1, <2>2, Stutters DEF vars
    <2>3. ASSUME NEW t \in Thread, Lock(t) \/ Unlock(t)
          PROVE  [Promise!Next]_(Promise!vars)
      BY <2>1, <2>3, Stutters DEF Lock, Unlock
    <2>4. ASSUME NEW t \in Thread, NEW n \in Name, UnmountBegin(t, n) \/ UseBegin(t, n)
          PROVE  [Promise!Next]_(Promise!vars)
      BY <2>1, <2>4, Stutters DEF UnmountBegin, UseBegin
    <2>5. ASSUME NEW t \in Thread, NEW n \in Name, MountBegin(t, n)
          PROVE  [Promise!Next]_(Promise!vars)
      <3>1. \A a \in table : name'[a] = name[a]
        BY <2>5 DEF MountBegin, Inv, AccessorsAccounted, TypeOK
      <3>2. QED BY <2>1, <2>5, <3>1, Stutters DEF MountBegin
    <2>6. ASSUME NEW t \in Thread, MountEnd(t)
          PROVE  [Promise!Next]_(Promise!vars)
      BY <2>1, <2>6, MountEndStep DEF Promise!Next, Promise!Mount
    <2>7. ASSUME NEW t \in Thread, UnmountEnd(t)
          PROVE  [Promise!Next]_(Promise!vars)
      BY <2>7, UnmountEndStep DEF Promise!Next, Promise!Unmount
    <2>8. ASSUME NEW t \in Thread, UseEnd(t)
          PROVE  [Promise!Next]_(Promise!vars)
      BY <2>1, <2>8, UseEndStep DEF Promise!Next, Promise!Open
    <2>9. ASSUME NEW t \in Thread, NEW h \in Handle, Close(t, h)
          PROVE  [Promise!Next]_(Promise!vars)
      BY <2>9, CloseStep DEF Promise!Next, Promise!Close
    <2>10. ASSUME NEW t \in Thread, NEW h \in Handle,
                  Fail(t, h) \/ Write(t, h) \/ Flush(t, h) \/ SetSize(t, h)
           PROVE  [Promise!Next]_(Promise!vars)
      BY <2>1, <2>10, WriteStep
    <2>11. QED
      BY <2>2, <2>3, <2>4, <2>5, <2>6, <2>7, <2>8, <2>9, <2>10 DEF Next
  <1>3. QED BY <1>1, <1>2, Invariance, PTL DEF Spec, TableSpec, Promise!Spec
=============================================================================
