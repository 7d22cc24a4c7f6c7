-------------------------- MODULE AlbumMountProofs --------------------------
(***************************************************************************)
(* Proofs about AlbumMount, for any number of threads. For all commands,   *)
(* the one without g_AlbumMutex included: types, and that files are opened *)
(* on mounted storages only. When every command takes g_AlbumMutex: the    *)
(* mount status is true, the AMS_ABORT of a double mount unreachable, and  *)
(* AlbumStorage implemented.                                               *)
(***************************************************************************)
EXTENDS AlbumMount, TLAPS

(* No client uses the one command that does not take g_AlbumMutex. *)
AllLocked == \A t \in Thread : \A c \in Commands[t] : Locked(c)

-----------------------------------------------------------------------------
(* Types.                                                                  *)

InFs(t) == pc[t] \in {"mount", "mounted", "unmount", "unmounted"}

(* A thread calls the library only for one of the two storages. *)
FsTarget == \A t \in Thread : InFs(t) => Target(t) \in Storage

(* What Return does, whatever the call returned. *)
LEMMA ReturnEffect ==
  ASSUME NEW t \in Thread, NEW r \in Result, TypeOK, Return(t, r)
  PROVE  /\ \E label \in {"call", "files", "reply"} : pc' = [pc EXCEPT ![t] = label]
         /\ index' \in [Thread -> Nat \ {0}]
         /\ result' \in [Thread -> Result]
         /\ UNCHANGED << request, mutex, aborted >>
  <1>1. \E label \in {"call", "files", "reply"} : pc' = [pc EXCEPT ![t] = label]
    BY DEF Return, GoTo
  <1>2. index' \in [Thread -> Nat \ {0}]
    BY DEF Return, TypeOK
  <1>3. result' \in [Thread -> Result]
    BY DEF Return, TypeOK, Result, MountError
  <1>4. QED BY <1>1, <1>2, <1>3 DEF Return

LEMMA ChainType == \A c \in Command : Chains(c) \subseteq Seq(Call)
  <1> SUFFICES ASSUME NEW c \in Command, NEW chain \in Chains(c) PROVE chain \in Seq(Call)
    OBVIOUS
  <1>1. \A fn \in Fn, s \in StorageId : On(fn, s) \in Call
    BY DEF On, Call
  <1>2. \A fn \in Fn, s \in StorageId : << On(fn, s) >> \in Seq(Call)
    BY <1>1
  <1>3. \A f, g \in Fn, s, u \in StorageId : << On(f, s), On(g, u) >> \in Seq(Call)
    BY <1>1
  <1>4. AutoSavingChains \subseteq Seq(Call)
    <2>1. Nand \in StorageId /\ Sd \in StorageId
      BY DEF StorageId, Storage
    <2>2. QED BY <2>1, <1>2, <1>3 DEF AutoSavingChains, Fn
  <1>5. CASE c = "GetAlbumMountResult"
    <2>1. PICK s \in StorageId : chain = << On("Mount", s) >>
      BY <1>5 DEF Chains
    <2>2. QED BY <2>1, <1>2 DEF Fn
  <1>6. CASE c = "GetAlbumFileCount"
    <2>1. PICK s \in StorageId : chain = << On("Ensure", s) >>
      BY <1>6 DEF Chains
    <2>2. QED BY <2>1, <1>2 DEF Fn
  <1>7. CASE c = "ForceAlbumUnmounted"
    <2>1. PICK s \in StorageId : chain = << On("Close", s) >>
      BY <1>7 DEF Chains
    <2>2. QED BY <2>1, <1>2 DEF Fn
  <1>8. CASE c = "ResetAlbumMountStatus"
    <2>1. PICK s \in StorageId : chain = << On("Unmount", s) >>
      BY <1>8 DEF Chains
    <2>2. QED BY <2>1, <1>2 DEF Fn
  <1>9. CASE c = "NotifyAlbumStorageIsAvailable"
    <2>1. PICK s \in StorageId : chain = << On("Unmount", s), On("Ensure", s) >>
      BY <1>9 DEF Chains
    <2>2. QED BY <2>1, <1>3 DEF Fn
  <1>10. CASE c = "StorageCopyAlbumFile"
    <2>1. PICK src \in StorageId, dst \in StorageId : chain = CopyChain(src, dst)
      BY <1>10 DEF Chains
    <2>2. QED BY <2>1, <1>1 DEF CopyChain, Fn
  <1>11. CASE c = "GetRequiredStorageSpaceSizeToCopyAll"
    <2>1. PICK src \in StorageId, dst \in StorageId :
            chain = << On("Ensure", src), On("Ensure", dst) >>
      BY <1>11 DEF Chains
    <2>2. QED BY <2>1, <1>3 DEF Fn
  <1>12. CASE c \in {"GetAutoSavingStorage", "GenerateCurrentAlbumFileId"}
    BY <1>12, <1>4 DEF Chains
  <1>13. QED BY <1>5, <1>6, <1>7, <1>8, <1>9, <1>10, <1>11, <1>12 DEF Command

LEMMA RequestType == \A t \in Thread : \A r \in Requests(t) : r \in Request /\ r.cmd \in Commands[t]
  BY ChainType, CommandAssumption DEF Requests, Request

-----------------------------------------------------------------------------
(* Every step keeps the types and the storage of a call in the library. *)
TypeInv == TypeOK /\ FsTarget

LEMMA TypeInit == Init => TypeInv
  <1> SUFFICES ASSUME Init PROVE TypeInv
    OBVIOUS
  <1>1. NoRequest \in Request
    BY DEF NoRequest, Request
  <1>2. TypeOK
    BY <1>1 DEF Init, TypeOK, MountStatus, MountState, MountError, PC, Result, Abort
  <1>3. QED BY <1>2 DEF Init, TypeInv, FsTarget, InFs

(* A call that returns leaves the other threads where they are. *)
LEMMA ReturnType ==
  ASSUME NEW t \in Thread, NEW r \in Result, TypeInv, Return(t, r),
         status' \in [Storage -> MountStatus], UNCHANGED fsTable
  PROVE  TypeInv'
  <1> USE DEF TypeInv
  <1>1. PICK label \in {"call", "files", "reply"} : pc' = [pc EXCEPT ![t] = label]
    BY ReturnEffect
  <1>2. index' \in [Thread -> Nat \ {0}] /\ result' \in [Thread -> Result]
    BY ReturnEffect
  <1>3. TypeOK'
    BY <1>1, <1>2 DEF TypeOK, Return, PC
  <1>4. ASSUME NEW u \in Thread, InFs(u)' PROVE InFs(u) /\ Target(u)' = Target(u)
    <2>1. u # t
      BY <1>1, <1>4 DEF InFs, TypeOK
    <2>2. QED BY <1>1, <1>4, <2>1 DEF InFs, TypeOK, Target, Cur, Return
  <1>5. QED BY <1>3, <1>4 DEF FsTarget

LEMMA TypeNext == TypeInv /\ [Next]_vars => TypeInv'
  <1> SUFFICES ASSUME TypeInv, [Next]_vars PROVE TypeInv'
    OBVIOUS
  <1> USE DEF TypeInv
  <1>1. ASSUME NEW t \in Thread, Receive(t) PROVE TypeInv'
    <2>1. PICK r \in Requests(t) :
            /\ request' = [request EXCEPT ![t] = r]
            /\ pc' = [pc EXCEPT ![t] = IF Locked(r.cmd) THEN "lock" ELSE "call"]
      BY <1>1 DEF Receive, GoTo
    <2>2. r \in Request
      BY RequestType
    <2>3. TypeOK'
      BY <1>1, <2>1, <2>2 DEF Receive, TypeOK, PC
    <2>4. FsTarget'
      BY <1>1, <2>1 DEF Receive, TypeOK, FsTarget, InFs, Target, Cur
    <2>5. QED BY <2>3, <2>4
  <1>2. ASSUME NEW t \in Thread, Lock(t) PROVE TypeInv'
    BY <1>2 DEF Lock, GoTo, frame, TypeOK, PC, FsTarget, InFs, Target, Cur
  <1>3. ASSUME NEW t \in Thread, VerifyStorageId(t) PROVE TypeInv'
    <2>1. PICK r \in {"AlbumInvalidStorage", "Success"} : Return(t, r)
      BY <1>3 DEF VerifyStorageId
    <2>2. QED BY <1>3, <2>1, ReturnType DEF VerifyStorageId, TypeOK, Result, MountError
  <1>4. ASSUME NEW t \in Thread, MountReported(t) PROVE TypeInv'
    <2>1. status[Target(t)].last_error \in Result
      BY <1>4 DEF MountReported, Calls, TypeOK, MountStatus, Result
    <2>2. QED BY <1>4, <2>1, ReturnType DEF MountReported, TypeOK
  <1>5. ASSUME NEW t \in Thread, MountBegin(t) PROVE TypeInv'
    BY <1>5 DEF MountBegin, Calls, GoTo, frame, TypeOK, PC, FsTarget, InFs, Target, Cur
  <1>6. ASSUME NEW t \in Thread, MountAlbum(t) PROVE TypeInv'
    <2>1. Target(t) \in Storage
      BY <1>6 DEF MountAlbum, At, FsTarget, InFs
    <2>2. TypeOK'
      BY <1>6, <2>1 DEF MountAlbum, GoTo, TypeOK, PC, Result, MountError
    <2>3. FsTarget'
      BY <1>6, <2>1 DEF MountAlbum, GoTo, TypeOK, FsTarget, InFs, Target, Cur
    <2>4. QED BY <2>2, <2>3
  <1>7. ASSUME NEW t \in Thread, MountAlbumAborts(t) PROVE TypeInv'
    <2>1. aborted' \in Abort
      BY <1>7 DEF MountAlbumAborts, Abort
    <2>2. QED BY <1>7, <2>1 DEF MountAlbumAborts, frame, TypeOK, FsTarget, InFs, Target, Cur
  <1>8. ASSUME NEW t \in Thread, MountEnd(t) PROVE TypeInv'
    <2> DEFINE after == AfterMount(result[t])
    <2>1. after \in MountStatus
      BY DEF AfterMount, MountStatus, MountState, MountError
    <2>2. after.last_error \in Result
      BY <2>1 DEF MountStatus, Result
    <2>3. status' \in [Storage -> MountStatus]
      BY <1>8, <2>1 DEF MountEnd, TypeOK
    <2> HIDE DEF after
    <2>4. Return(t, after.last_error) /\ UNCHANGED fsTable
      BY <1>8 DEF MountEnd, after
    <2>5. QED BY <2>2, <2>3, <2>4, ReturnType
  <1>9. ASSUME NEW t \in Thread, UnmountBegin(t) PROVE TypeInv'
    BY <1>9 DEF UnmountBegin, Calls, GoTo, frame, TypeOK, PC, FsTarget, InFs, Target, Cur
  <1>10. ASSUME NEW t \in Thread, UnmountAlbum(t) PROVE TypeInv'
    <2>1. aborted' \in Abort
      BY <1>10 DEF UnmountAlbum, TypeOK, Abort
    <2>2. QED BY <1>10, <2>1 DEF UnmountAlbum, At, GoTo, frame, TypeOK, PC, FsTarget, InFs, Target, Cur
  <1>11. ASSUME NEW t \in Thread, UnmountEnd(t) PROVE TypeInv'
    <2>1. AfterUnmount(Cur(t).fn) \in MountStatus
      BY DEF AfterUnmount, MountStatus, MountState, MountError
    <2>2. status' \in [Storage -> MountStatus]
      BY <1>11, <2>1 DEF UnmountEnd, TypeOK
    <2>3. QED BY <1>11, <2>2, ReturnType DEF UnmountEnd, Result, MountError
  <1>12. ASSUME NEW t \in Thread, UseFiles(t) PROVE TypeInv'
    BY <1>12 DEF UseFiles, GoTo, frame, TypeOK, PC, FsTarget, InFs, Target, Cur
  <1>13. ASSUME NEW t \in Thread, Reply(t) PROVE TypeInv'
    <2>1. NoRequest \in Request
      BY DEF NoRequest, Request
    <2>2. mutex' \in {mutex, NoThread}
      BY <1>13 DEF Reply, Release
    <2>3. TypeOK'
      BY <1>13, <2>1, <2>2 DEF Reply, GoTo, TypeOK, PC, Result, MountError
    <2>4. FsTarget'
      BY <1>13 DEF Reply, GoTo, TypeOK, FsTarget, InFs, Target, Cur
    <2>5. QED BY <2>3, <2>4
  <1>14. CASE UNCHANGED vars
    BY <1>14 DEF vars, frame, TypeOK, FsTarget, InFs, Target, Cur
  <1>15. QED
    BY <1>1, <1>2, <1>3, <1>4, <1>5, <1>6, <1>7, <1>8, <1>9, <1>10, <1>11, <1>12, <1>13, <1>14
       DEF Next, Serve, Aborted

(* The variables keep their types for every command and any number of      *)
(* threads: whatever a client sends, mount_status of the two storages      *)
(* only ever holds a state and an error that ResetAlbumMountStatus and     *)
(* EnsureMountState tell apart.                                            *)
THEOREM TypeCorrect == Spec => []TypeOK
  BY TypeInit, TypeNext, PTL DEF Spec, TypeInv

-----------------------------------------------------------------------------
(* The commands that take g_AlbumMutex. One thread at a time is between    *)
(* Lock and Reply, so what a thread read before the library's call is      *)
(* still true after it.                                                    *)

InSection(t) == pc[t] \notin {"idle", "lock"}

(* A thread that makes calls has g_AlbumMutex, and its command is one that *)
(* returns it.                                                             *)
MutexHeld ==
  \A t \in Thread :
    /\ pc[t] # "idle" => Locked(request[t].cmd)
    /\ InSection(t) => mutex = t

(* What a thread knows of its storage around the library's call. *)
InLibrary ==
  \A t \in Thread :
    LET s == Target(t) IN
    /\ pc[t] = "mount" => status[s].state = "available"
    /\ pc[t] = "mounted" =>
         /\ status[s].state = "available"
         /\ result[t] \in MountAlbumFailure \cup {"Success"}
         /\ s \in fsTable <=> result[t] = "Success"
    /\ pc[t] = "unmount" => status[s].state = "mounted"
    /\ pc[t] = "unmounted" => status[s].state = "mounted" /\ s \notin fsTable

MountInv ==
  /\ TypeInv
  /\ MutexHeld
  /\ InLibrary
  /\ StatusIsTrue
  /\ NeverMountedTwice

(* What mount_status and the mount table say of a storage that no call is  *)
(* busy with.                                                              *)
Agrees(s) ==
  /\ s \in fsTable <=> status[s].state = "mounted"
  /\ status[s].last_error = "Success" <=> status[s].state = "mounted"

(* A thread in its section is alone there, and every storage but the one   *)
(* its library call is about agrees.                                       *)
LEMMA Alone ==
  ASSUME MountInv, NEW t \in Thread, InSection(t)
  PROVE  /\ \A u \in Thread : u # t => ~ InSection(u)
         /\ \A s \in Storage :
              ~ (pc[t] \in {"mounted", "unmounted"} /\ Target(t) = s) => Agrees(s)
  <1>1. \A u \in Thread : u # t => ~ InSection(u)
    BY DEF MountInv, MutexHeld
  <1>2. ASSUME NEW s \in Storage, ~ (pc[t] \in {"mounted", "unmounted"} /\ Target(t) = s)
        PROVE  Settled(s)
    BY <1>1, <1>2 DEF Settled, InSection
  <1>3. QED BY <1>1, <1>2 DEF MountInv, StatusIsTrue, Agrees

LEMMA MountInit == Init => MountInv
  BY TypeInit
     DEF Init, MountInv, MutexHeld, InSection, InLibrary, StatusIsTrue, NeverMountedTwice

(* A call may return when what it leaves behind agrees. *)
LEMMA ReturnKeeps ==
  ASSUME MountInv, TypeInv', NEW t \in Thread, NEW r \in Result, InSection(t),
         Return(t, r), \A s \in Storage : Agrees(s)'
  PROVE  MountInv'
  <1>1. PICK label \in {"call", "files", "reply"} : pc' = [pc EXCEPT ![t] = label]
    BY ReturnEffect DEF MountInv, TypeInv
  <1>2. UNCHANGED << request, mutex, aborted >>
    BY DEF Return
  <1>3. \A u \in Thread : u # t => pc'[u] \in {"idle", "lock"}
    BY <1>1, Alone DEF MountInv, TypeInv, TypeOK, InSection
  <1>4. pc'[t] = label
    BY <1>1 DEF MountInv, TypeInv, TypeOK
  <1>5. MutexHeld'
    BY <1>1, <1>2, <1>3, <1>4 DEF MountInv, TypeInv, TypeOK, MutexHeld, InSection
  <1>6. InLibrary'
    BY <1>3, <1>4 DEF InLibrary
  <1>7. StatusIsTrue'
    BY DEF StatusIsTrue, Agrees
  <1>8. QED BY <1>2, <1>5, <1>6, <1>7 DEF MountInv, NeverMountedTwice

(* A step of one thread inside its section, that leaves the command, the   *)
(* mutex and the status as they are.                                       *)
LEMMA SectionStep ==
  ASSUME MountInv, NEW t \in Thread, InSection(t), NEW label \in PC \ {"idle", "lock"},
         pc' = [pc EXCEPT ![t] = label], UNCHANGED << request, index, mutex, status >>
  PROVE  /\ MutexHeld'
         /\ \A u \in Thread : u # t => pc'[u] \in {"idle", "lock"}
         /\ pc'[t] = label
         /\ Target(t)' = Target(t)
  <1>1. \A u \in Thread : u # t => pc'[u] \in {"idle", "lock"}
    BY Alone DEF MountInv, TypeInv, TypeOK, InSection
  <1>2. pc'[t] = label
    BY DEF MountInv, TypeInv, TypeOK
  <1>3. MutexHeld'
    BY DEF MountInv, TypeInv, TypeOK, MutexHeld, InSection
  <1>4. QED BY <1>1, <1>2, <1>3 DEF Target, Cur

LEMMA MountNext == AllLocked /\ MountInv /\ [Next]_vars => MountInv'
  <1> SUFFICES ASSUME AllLocked, MountInv, [Next]_vars PROVE MountInv'
    OBVIOUS
  <1>t. TypeInv /\ TypeInv' /\ TypeOK
    BY TypeNext DEF MountInv, TypeInv
  <1>1. ASSUME NEW t \in Thread, Receive(t) PROVE MountInv'
    <2>1. PICK r \in Requests(t) :
            /\ request' = [request EXCEPT ![t] = r]
            /\ pc' = [pc EXCEPT ![t] = IF Locked(r.cmd) THEN "lock" ELSE "call"]
      BY <1>1 DEF Receive, GoTo
    <2>2. Locked(r.cmd)
      BY RequestType DEF AllLocked
    <2>3. pc[t] = "idle" /\ UNCHANGED << status, fsTable, mutex, index, result, aborted >>
      BY <1>1 DEF Receive, At
    <2>4. MutexHeld'
      BY <1>t, <2>1, <2>2, <2>3 DEF MountInv, TypeOK, MutexHeld, InSection
    <2>5. InLibrary'
      BY <1>t, <2>1, <2>2, <2>3 DEF MountInv, TypeOK, InLibrary, Target, Cur
    <2>6. \A s \in Storage : Settled(s)' => Settled(s)
      BY <1>t, <2>1, <2>2, <2>3 DEF TypeOK, Settled, Target, Cur
    <2>7. QED BY <1>t, <2>3, <2>4, <2>5, <2>6 DEF MountInv, StatusIsTrue, NeverMountedTwice
  <1>2. ASSUME NEW t \in Thread, Lock(t) PROVE MountInv'
    <2>1. /\ pc[t] = "lock" /\ mutex = NoThread /\ mutex' = t
          /\ pc' = [pc EXCEPT ![t] = "call"]
          /\ UNCHANGED << status, fsTable, request, index, result, aborted >>
      BY <1>2 DEF Lock, At, GoTo, frame
    <2>2. \A u \in Thread : ~ InSection(u)
      BY <2>1, ThreadAssumption DEF MountInv, MutexHeld
    <2>3. MutexHeld'
      BY <1>t, <2>1, <2>2 DEF MountInv, TypeOK, MutexHeld, InSection
    <2>4. InLibrary'
      BY <1>t, <2>1, <2>2 DEF TypeOK, InLibrary, InSection
    <2>5. \A s \in Storage : Settled(s)
      BY <2>2 DEF Settled, InSection
    <2>6. QED BY <1>t, <2>1, <2>3, <2>4, <2>5 DEF MountInv, StatusIsTrue, NeverMountedTwice
  <1>3. ASSUME NEW t \in Thread, VerifyStorageId(t) PROVE MountInv'
    <2>1. PICK r \in {"AlbumInvalidStorage", "Success"} : Return(t, r)
      BY <1>3 DEF VerifyStorageId
    <2>2. pc[t] = "call" /\ UNCHANGED << status, fsTable >>
      BY <1>3 DEF VerifyStorageId, At
    <2>3. \A s \in Storage : Agrees(s)'
      BY <2>2, Alone DEF InSection, Agrees
    <2>4. QED BY <1>t, <2>1, <2>2, <2>3, ReturnKeeps DEF InSection, Result, MountError
  <1>4. ASSUME NEW t \in Thread, MountReported(t) PROVE MountInv'
    <2> DEFINE r == status[Target(t)].last_error
    <2>1. pc[t] = "call" /\ Return(t, r) /\ UNCHANGED << status, fsTable >>
      BY <1>4 DEF MountReported, At
    <2>2. r \in Result
      BY <1>4, <1>t DEF MountReported, Calls, TypeOK, MountStatus, Result
    <2> HIDE DEF r
    <2>3. \A s \in Storage : Agrees(s)'
      BY <2>1, Alone DEF InSection, Agrees
    <2>4. QED BY <1>t, <2>1, <2>2, <2>3, ReturnKeeps DEF InSection
  <1>5. ASSUME NEW t \in Thread, MountBegin(t) PROVE MountInv'
    <2>1. /\ pc[t] = "call" /\ status[Target(t)].state = "available"
          /\ pc' = [pc EXCEPT ![t] = "mount"]
          /\ UNCHANGED << status, fsTable, mutex, request, index, result, aborted >>
      BY <1>5 DEF MountBegin, Mountable, At, GoTo, frame
    <2>2. /\ MutexHeld'
          /\ \A u \in Thread : u # t => pc'[u] \in {"idle", "lock"}
          /\ pc'[t] = "mount" /\ Target(t)' = Target(t)
      BY <2>1, SectionStep DEF InSection, PC
    <2>3. InLibrary'
      BY <2>1, <2>2 DEF InLibrary
    <2>4. StatusIsTrue'
      BY <2>1, Alone DEF InSection, StatusIsTrue, Agrees
    <2>5. QED BY <1>t, <2>1, <2>2, <2>3, <2>4 DEF MountInv, NeverMountedTwice
  <1>6. ASSUME NEW t \in Thread, MountAlbum(t) PROVE MountInv'
    <2>1. /\ pc[t] = "mount"
          /\ pc' = [pc EXCEPT ![t] = "mounted"]
          /\ UNCHANGED << status, mutex, request, index, aborted >>
      BY <1>6 DEF MountAlbum, At, GoTo
    <2>2. /\ MutexHeld'
          /\ \A u \in Thread : u # t => pc'[u] \in {"idle", "lock"}
          /\ pc'[t] = "mounted" /\ Target(t)' = Target(t)
      BY <2>1, SectionStep DEF InSection, PC
    <2>3. status[Target(t)].state = "available" /\ Target(t) \notin fsTable
      <3>1. Target(t) \in Storage
        BY <1>t, <2>1 DEF TypeInv, FsTarget, InFs
      <3>2. QED BY <2>1, <3>1, Alone DEF MountInv, InLibrary, InSection, Agrees
    <2>4. /\ result'[t] \in MountAlbumFailure \cup {"Success"}
          /\ Target(t) \in fsTable' <=> result'[t] = "Success"
      BY <1>6, <1>t, <2>1, <2>3 DEF MountAlbum, TypeOK, MountAlbumFailure
    <2>5. InLibrary'
      BY <2>1, <2>2, <2>4, <2>3 DEF InLibrary
    <2>6. \A s \in Storage : Settled(s)' => s # Target(t)
      BY <2>2 DEF Settled
    <2>7. StatusIsTrue'
      BY <1>6, <2>1, <2>6, Alone DEF InSection, MountAlbum, StatusIsTrue, Agrees
    <2>8. QED BY <1>t, <2>1, <2>2, <2>5, <2>7 DEF MountInv, NeverMountedTwice
  <1>7. ASSUME NEW t \in Thread, MountAlbumAborts(t) PROVE MountInv'
    <2>1. pc[t] = "mount" /\ UNCHANGED << status, fsTable, mutex, pc, request, index, result >>
      BY <1>7 DEF MountAlbumAborts, At, frame
    <2>2. Target(t) \in Storage
      BY <1>t, <2>1 DEF TypeInv, FsTarget, InFs
    <2>3. status[Target(t)].state = "available" /\ Agrees(Target(t))
      BY <2>1, <2>2, Alone DEF MountInv, InLibrary, InSection
    <2>4. aborted' = "AllocationFailure"
      BY <1>7, <2>3 DEF MountAlbumAborts, Agrees
    <2>5. QED BY <1>t, <2>1, <2>4
             DEF MountInv, MutexHeld, InSection, InLibrary, StatusIsTrue, Settled,
                 NeverMountedTwice, Target, Cur
  <1>8. ASSUME NEW t \in Thread, MountEnd(t) PROVE MountInv'
    <2> DEFINE after == AfterMount(result[t])
    <2>1. /\ pc[t] = "mounted" /\ Target(t) \in Storage
          /\ status' = [status EXCEPT ![Target(t)] = after]
          /\ Return(t, after.last_error)
          /\ UNCHANGED fsTable
      BY <1>8, <1>t DEF MountEnd, At, TypeInv, FsTarget, InFs
    <2>2. /\ result[t] \in MountAlbumFailure \cup {"Success"}
          /\ Target(t) \in fsTable <=> result[t] = "Success"
      BY <2>1 DEF MountInv, InLibrary
    <2>3. /\ after.state = "mounted" <=> result[t] = "Success"
          /\ after.last_error = "Success" <=> result[t] = "Success"
          /\ after.last_error \in Result
      BY DEF AfterMount, Result, MountError
    <2> HIDE DEF after
    <2>4. \A s \in Storage : Agrees(s)'
      BY <1>t, <2>1, <2>2, <2>3, Alone DEF InSection, Agrees, TypeOK
    <2>5. QED BY <1>t, <2>1, <2>3, <2>4, ReturnKeeps DEF InSection
  <1>9. ASSUME NEW t \in Thread, UnmountBegin(t) PROVE MountInv'
    <2>1. /\ pc[t] = "call" /\ status[Target(t)].state = "mounted"
          /\ pc' = [pc EXCEPT ![t] = "unmount"]
          /\ UNCHANGED << status, fsTable, mutex, request, index, result, aborted >>
      BY <1>9 DEF UnmountBegin, At, GoTo, frame
    <2>2. /\ MutexHeld'
          /\ \A u \in Thread : u # t => pc'[u] \in {"idle", "lock"}
          /\ pc'[t] = "unmount" /\ Target(t)' = Target(t)
      BY <2>1, SectionStep DEF InSection, PC
    <2>3. InLibrary'
      BY <2>1, <2>2 DEF InLibrary
    <2>4. StatusIsTrue'
      BY <2>1, Alone DEF InSection, StatusIsTrue, Agrees
    <2>5. QED BY <1>t, <2>1, <2>2, <2>3, <2>4 DEF MountInv, NeverMountedTwice
  <1>10. ASSUME NEW t \in Thread, UnmountAlbum(t) PROVE MountInv'
    <2>1. /\ pc[t] = "unmount" /\ fsTable' = fsTable \ {Target(t)}
          /\ pc' = [pc EXCEPT ![t] = "unmounted"]
          /\ UNCHANGED << status, mutex, request, index, result >>
          /\ aborted' \in {aborted, "NotMounted"}
      BY <1>10 DEF UnmountAlbum, At, GoTo, frame
    <2>2. /\ MutexHeld'
          /\ \A u \in Thread : u # t => pc'[u] \in {"idle", "lock"}
          /\ pc'[t] = "unmounted" /\ Target(t)' = Target(t)
      BY <2>1, SectionStep DEF InSection, PC
    <2>3. status[Target(t)].state = "mounted"
      BY <2>1 DEF MountInv, InLibrary
    <2>4. InLibrary'
      BY <2>1, <2>2, <2>3 DEF InLibrary
    <2>5. \A s \in Storage : Settled(s)' => s # Target(t)
      BY <2>2 DEF Settled
    <2>6. StatusIsTrue'
      BY <2>1, <2>5, Alone DEF InSection, StatusIsTrue, Agrees
    <2>7. QED BY <1>t, <2>1, <2>2, <2>4, <2>6 DEF MountInv, NeverMountedTwice
  <1>11. ASSUME NEW t \in Thread, UnmountEnd(t) PROVE MountInv'
    <2> DEFINE after == AfterUnmount(Cur(t).fn)
    <2>1. /\ pc[t] \in {"call", "unmounted"} /\ Target(t) \in Storage
          /\ status' = [status EXCEPT ![Target(t)] = after]
          /\ Return(t, "Success")
          /\ UNCHANGED fsTable
      BY <1>11, <1>t DEF UnmountEnd, At, Calls, TypeInv, FsTarget, InFs
    <2>2. Target(t) \notin fsTable
      <3>1. CASE pc[t] = "unmounted"
        BY <3>1 DEF MountInv, InLibrary
      <3>2. CASE pc[t] = "call"
        <4>1. status[Target(t)].state # "mounted"
          BY <1>11, <3>2 DEF UnmountEnd, At
        <4>2. QED BY <2>1, <3>2, <4>1, Alone DEF InSection, Agrees
      <3>3. QED BY <2>1, <3>1, <3>2
    <2>3. after.state # "mounted" /\ after.last_error # "Success"
      BY DEF AfterUnmount
    <2> HIDE DEF after
    <2>4. \A s \in Storage : Agrees(s)'
      BY <1>t, <2>1, <2>2, <2>3, Alone DEF InSection, Agrees, TypeOK
    <2>5. QED BY <1>t, <2>1, <2>4, ReturnKeeps DEF InSection, Result, MountError
  <1>12. ASSUME NEW t \in Thread, UseFiles(t) PROVE MountInv'
    <2>1. /\ pc[t] = "files" /\ pc' = [pc EXCEPT ![t] = "reply"]
          /\ UNCHANGED << status, fsTable, mutex, request, index, result, aborted >>
      BY <1>12 DEF UseFiles, At, GoTo, frame
    <2>2. /\ MutexHeld'
          /\ \A u \in Thread : u # t => pc'[u] \in {"idle", "lock"}
          /\ pc'[t] = "reply"
      BY <2>1, SectionStep DEF InSection, PC
    <2>3. StatusIsTrue'
      BY <2>1, Alone DEF InSection, StatusIsTrue, Agrees
    <2>4. QED BY <1>t, <2>1, <2>2, <2>3 DEF MountInv, InLibrary, NeverMountedTwice
  <1>13. ASSUME NEW t \in Thread, Reply(t) PROVE MountInv'
    <2>1. /\ pc[t] = "reply" /\ pc' = [pc EXCEPT ![t] = "idle"]
          /\ \A u \in Thread : u # t => request'[u] = request[u]
          /\ UNCHANGED << status, fsTable, aborted >>
      BY <1>13, <1>t DEF Reply, At, GoTo, TypeOK
    <2>2. \A u \in Thread : pc'[u] \in {"idle", "lock"}
      BY <1>t, <2>1, Alone DEF InSection, TypeOK
    <2>3. MutexHeld'
      BY <1>t, <2>1, <2>2 DEF MountInv, MutexHeld, InSection, TypeOK
    <2>4. InLibrary'
      BY <2>2 DEF InLibrary
    <2>5. StatusIsTrue'
      BY <2>1, Alone DEF InSection, StatusIsTrue, Agrees
    <2>6. QED BY <1>t, <2>1, <2>3, <2>4, <2>5 DEF MountInv, NeverMountedTwice
  <1>14. CASE UNCHANGED vars
    BY <1>t, <1>14
       DEF vars, frame, MountInv, MutexHeld, InSection, InLibrary, StatusIsTrue, Settled,
           NeverMountedTwice, Target, Cur
  <1>15. QED
    BY <1>1, <1>2, <1>3, <1>4, <1>5, <1>6, <1>7, <1>8, <1>9, <1>10, <1>11, <1>12, <1>13, <1>14
       DEF Next, Serve, Aborted

(* When every command takes g_AlbumMutex, mount_status is true of the      *)
(* library's mount table whenever no call is between the library's call    *)
(* and the store of its result, for any number of server threads.          *)
THEOREM StatusTrue == AllLocked /\ Spec => []StatusIsTrue
  <1> SUFFICES ASSUME AllLocked PROVE Spec => []StatusIsTrue
    OBVIOUS
  <1>1. MountInv /\ [Next]_vars => MountInv'
    BY MountNext
  <1>2. MountInv => StatusIsTrue
    BY DEF MountInv
  <1>3. QED BY <1>1, <1>2, MountInit, PTL DEF Spec

(* When every command takes g_AlbumMutex, the AMS_ABORT of MountAlbum for  *)
(* a storage that is already mounted is unreachable.                       *)
THEOREM NoDoubleMount == AllLocked /\ Spec => []NeverMountedTwice
  <1> SUFFICES ASSUME AllLocked PROVE Spec => []NeverMountedTwice
    OBVIOUS
  <1>1. MountInv /\ [Next]_vars => MountInv'
    BY MountNext
  <1>2. MountInv => NeverMountedTwice
    BY DEF MountInv
  <1>3. QED BY <1>1, <1>2, MountInit, PTL DEF Spec

(* When every command takes g_AlbumMutex, a storage that was closed, or    *)
(* whose path was found unusable, is not mounted again before              *)
(* UnmountImageDirectory has made it available.                            *)
THEOREM ClosedRemains == AllLocked /\ Spec => ClosedStaysClosed
  <1> DEFINE Step == \A s \in Storage :
                       status[s].state = "unmounted" => status'[s].state # "mounted"
  <1> SUFFICES ASSUME AllLocked PROVE Spec => [][Step]_vars
    BY DEF ClosedStaysClosed
  <1>1. MountInv /\ [Next]_vars => [Step]_vars
    <2> SUFFICES ASSUME MountInv, Next PROVE Step
      BY DEF vars
    <2>t. TypeOK
      BY DEF MountInv, TypeInv
    <2>1. ASSUME NEW t \in Thread, MountEnd(t) PROVE Step
      <3>1. status[Target(t)].state = "available"
        BY <2>1 DEF MountEnd, At, MountInv, InLibrary
      <3>2. QED BY <2>t, <2>1, <3>1 DEF MountEnd, TypeOK
    <2>2. ASSUME NEW t \in Thread, UnmountEnd(t) PROVE Step
      BY <2>t, <2>2 DEF UnmountEnd, AfterUnmount, TypeOK
    <2>3. CASE UNCHANGED status
      BY <2>3
    <2>4. QED
      BY <2>1, <2>2, <2>3
         DEF Next, Serve, Receive, Lock, VerifyStorageId, MountReported, MountBegin, MountAlbum,
             MountAlbumAborts, UnmountBegin, UnmountAlbum, UseFiles, Reply, Aborted, vars
  <1>2. MountInv /\ [Next]_vars => MountInv'
    BY MountNext
  <1> HIDE DEF Step
  <1>3. QED BY <1>1, <1>2, MountInit, PTL DEF Spec

-----------------------------------------------------------------------------
(* The refinement of AlbumStorage. At most one thread is between the       *)
(* library's call and the store of its result, so the atomic status        *)
(* differs from mount_status in the storage of that thread only.           *)

Busy(t) == pc[t] \in {"mounted", "unmounted"}

AtomicByThread ==
  /\ (\A t \in Thread : ~ Busy(t)) => AtomicStatus = status
  /\ \A t \in Thread : Busy(t) => AtomicStatus = [status EXCEPT ![Target(t)] = Effect(t)]

LEMMA AtomicView == MountInv => AtomicByThread
  <1> SUFFICES ASSUME MountInv PROVE AtomicByThread
    OBVIOUS
  <1>t. status \in [Storage -> MountStatus]
    BY DEF MountInv, TypeInv, TypeOK
  <1>1. ASSUME \A t \in Thread : ~ Busy(t) PROVE AtomicStatus = status
    <2>1. \A s \in Storage : Settled(s)
      BY <1>1 DEF Busy, Settled
    <2>2. QED BY <1>t, <2>1 DEF AtomicStatus
  <1>2. ASSUME NEW t \in Thread, Busy(t)
        PROVE  AtomicStatus = [status EXCEPT ![Target(t)] = Effect(t)]
    <2>1. \A u \in Thread : Busy(u) => u = t
      BY <1>2, Alone DEF Busy, InSection
    <2>2. \A s \in Storage : Settled(s) <=> s # Target(t)
      BY <1>2, <2>1 DEF Busy, Settled
    <2> DEFINE Doer(s) == CHOOSE u \in Thread :
                            pc[u] \in {"mounted", "unmounted"} /\ Target(u) = s
    <2>3. Doer(Target(t)) = t
      BY <1>2, <2>1 DEF Busy
    <2>d. AtomicStatus = [s \in Storage |-> IF Settled(s) THEN status[s] ELSE Effect(Doer(s))]
      BY DEF AtomicStatus
    <2> HIDE DEF Doer
    <2>4. \A s \in Storage :
            AtomicStatus[s] = IF s = Target(t) THEN Effect(t) ELSE status[s]
      BY <2>2, <2>3, <2>d
    <2>5. AtomicStatus = [s \in Storage |-> AtomicStatus[s]]
      BY DEF AtomicStatus
    <2>6. QED BY <1>t, <2>4, <2>5
  <1>3. QED BY <1>1, <1>2 DEF AtomicByThread

(* A step that leaves both the mount table and the atomic status alone. *)
AtomicStutter == UNCHANGED << AtomicStatus, fsTable >>

LEMMA AtomicStep == AllLocked /\ MountInv /\ [Next]_vars => [Atomic!Next]_(Atomic!vars)
  <1> SUFFICES ASSUME AllLocked, MountInv, [Next]_vars
               PROVE  Atomic!Next \/ AtomicStutter
    BY DEF Atomic!vars, AtomicStutter
  <1>t. TypeOK /\ TypeInv /\ MountInv'
    BY MountNext DEF MountInv, TypeInv
  <1>v. AtomicByThread /\ AtomicByThread'
    <2>1. AtomicByThread
      BY AtomicView
    <2>2. MountInv' => AtomicByThread'
      BY AtomicView, PTL
    <2>3. QED BY <1>t, <2>1, <2>2
  (* A thread that is in its section after the step is alone there. *)
  <1>a. ASSUME NEW t \in Thread, InSection(t)'
        PROVE  \A u \in Thread : u # t => ~ Busy(u)'
    BY <1>t, <1>a DEF MountInv, MutexHeld, InSection, Busy
  <1>b. ASSUME NEW t \in Thread, InSection(t)
        PROVE  \A u \in Thread : u # t => ~ Busy(u)
    BY <1>b, Alone DEF InSection, Busy
  <1>r. ASSUME NEW t \in Thread, NEW r \in Result, Return(t, r)
        PROVE  pc'[t] \in {"call", "files", "reply"}
    BY <1>r, <1>t, ReturnEffect DEF TypeOK
  (* The steps that change neither mount_status nor what Effect looks at. *)
  <1>1. ASSUME NEW t \in Thread, UNCHANGED << status, fsTable >>, InSection(t), ~ Busy(t),
               pc'[t] \notin {"mounted", "unmounted"},
               \A u \in Thread : u # t => pc'[u] = pc[u]
        PROVE  AtomicStutter
    <2>1. \A u \in Thread : ~ Busy(u) /\ ~ Busy(u)'
      BY <1>1, <1>b DEF Busy
    <2>2. QED BY <1>1, <1>v, <2>1 DEF AtomicByThread, AtomicStutter
  <1>2. ASSUME NEW t \in Thread, Receive(t) \/ Lock(t) PROVE AtomicStutter
    <2>1. /\ pc[t] \in {"idle", "lock"} /\ pc'[t] \in {"lock", "call"}
          /\ \A u \in Thread : u # t => pc'[u] = pc[u] /\ request'[u] = request[u]
          /\ UNCHANGED << status, fsTable, index, result >>
      BY <1>2, <1>t DEF Receive, Lock, At, GoTo, frame, TypeOK
    <2>2. CASE \A u \in Thread : ~ Busy(u)
      BY <1>v, <2>1, <2>2 DEF Busy, AtomicByThread, AtomicStutter
    <2>3. CASE \E u \in Thread : Busy(u)
      <3>1. PICK u \in Thread : Busy(u)
        BY <2>3
      <3>2. u # t /\ Busy(u)' /\ Target(u)' = Target(u) /\ Effect(u)' = Effect(u)
        BY <2>1, <3>1 DEF Busy, Target, Cur, Effect
      <3>3. QED BY <1>v, <2>1, <3>1, <3>2 DEF AtomicByThread, AtomicStutter
    <2>4. QED BY <2>2, <2>3
  <1>3. ASSUME NEW t \in Thread, VerifyStorageId(t) \/ MountReported(t) PROVE AtomicStutter
    <2>1. status[Target(t)].last_error \in Result \/ VerifyStorageId(t)
      BY <1>3, <1>t DEF MountReported, Calls, TypeOK, MountStatus, Result
    <2>2. PICK r \in Result : Return(t, r)
      BY <1>3, <2>1 DEF VerifyStorageId, MountReported, Result, MountError
    <2>3. /\ pc[t] = "call" /\ UNCHANGED << status, fsTable >>
          /\ \A u \in Thread : u # t => pc'[u] = pc[u]
      BY <1>3, <1>t, <2>2 DEF VerifyStorageId, MountReported, At, Return, GoTo, TypeOK
    <2>4. QED BY <1>1, <1>r, <2>2, <2>3 DEF InSection, Busy
  <1>4. ASSUME NEW t \in Thread, MountBegin(t) \/ UnmountBegin(t) \/ UseFiles(t) \/ Reply(t)
        PROVE  AtomicStutter
    <2>1. /\ pc[t] \in {"call", "files", "reply"}
          /\ pc'[t] \in {"mount", "unmount", "reply", "idle"}
          /\ \A u \in Thread : u # t => pc'[u] = pc[u]
          /\ UNCHANGED << status, fsTable >>
      BY <1>4, <1>t DEF MountBegin, UnmountBegin, UseFiles, Reply, At, GoTo, TypeOK
    <2>2. QED BY <1>1, <2>1 DEF InSection, Busy
  <1>5. ASSUME NEW t \in Thread, MountAlbumAborts(t) PROVE AtomicStutter
    BY <1>1, <1>5 DEF MountAlbumAborts, At, InSection, Busy
  <1>6. ASSUME NEW t \in Thread, MountAlbum(t) PROVE Atomic!Next
    <2> DEFINE s == Target(t)
               after == AfterMount(result'[t])
    <2>1. /\ pc[t] = "mount" /\ pc'[t] = "mounted" /\ s \in Storage
          /\ UNCHANGED << status, request, index >>
      BY <1>6, <1>t DEF MountAlbum, At, GoTo, TypeOK, TypeInv, FsTarget, InFs
    <2>2. AtomicStatus = status
      BY <1>b, <1>v, <2>1 DEF AtomicByThread, InSection, Busy
    <2>3. Target(t)' = s /\ Effect(t)' = after
      BY <2>1 DEF Target, Cur, Effect
    <2>4. AtomicStatus' = [status EXCEPT ![s] = after]
      BY <1>v, <2>1, <2>3 DEF AtomicByThread, Busy
    <2>5. status[s].state = "available"
      BY <2>1 DEF MountInv, InLibrary
    <2>6. CASE fsTable' = fsTable \cup {s} /\ result'[t] = "Success"
      <3>1. after = Atomic!Mounted
        BY <2>6 DEF AfterMount, Atomic!Mounted
      <3>2. Atomic!Open(s)
        BY <2>2, <2>4, <2>5, <2>6, <3>1 DEF Atomic!Open
      <3>3. QED BY <2>1, <3>2 DEF Atomic!Next
    <2>7. CASE UNCHANGED fsTable /\ result'[t] \in MountAlbumFailure
      <3>1. after \in {Atomic!Available, Atomic!Unmounted("AlbumPathNotFound")}
        BY <2>7 DEF AfterMount, MountAlbumFailure, Atomic!Available, Atomic!Unmounted
      <3>2. Atomic!OpenFails(s)
        BY <2>2, <2>4, <2>5, <2>7, <3>1 DEF Atomic!OpenFails, Atomic!MountError
      <3>3. QED BY <2>1, <3>2 DEF Atomic!Next
    <2>8. QED BY <1>6, <1>t, <2>6, <2>7 DEF MountAlbum, TypeOK
  <1>7. ASSUME NEW t \in Thread, MountEnd(t) PROVE AtomicStutter
    <2>1. /\ pc[t] = "mounted" /\ UNCHANGED fsTable
          /\ status' = [status EXCEPT ![Target(t)] = Effect(t)]
      BY <1>7 DEF MountEnd, At, Effect
    <2>2. AtomicStatus = status'
      BY <1>v, <2>1 DEF AtomicByThread, Busy
    <2>3. AfterMount(result[t]).last_error \in Result
      BY DEF AfterMount, Result, MountError
    <2>4. pc'[t] \in {"call", "files", "reply"}
      BY <1>7, <1>r, <2>3 DEF MountEnd
    <2>5. AtomicStatus' = status'
      BY <1>a, <1>v, <2>4 DEF AtomicByThread, InSection, Busy
    <2>6. QED BY <2>1, <2>2, <2>5 DEF AtomicStutter
  <1>8. ASSUME NEW t \in Thread, UnmountAlbum(t) PROVE Atomic!Next
    <2> DEFINE s == Target(t)
               after == AfterUnmount(Cur(t).fn)
    <2>1. /\ pc[t] = "unmount" /\ pc'[t] = "unmounted" /\ s \in Storage
          /\ fsTable' = fsTable \ {s}
          /\ UNCHANGED << status, request, index >>
      BY <1>8, <1>t DEF UnmountAlbum, At, GoTo, frame, TypeOK, TypeInv, FsTarget, InFs
    <2>2. AtomicStatus = status
      BY <1>b, <1>v, <2>1 DEF AtomicByThread, InSection, Busy
    <2>3. Target(t)' = s /\ Effect(t)' = after
      BY <2>1 DEF Target, Cur, Effect
    <2>4. AtomicStatus' = [status EXCEPT ![s] = after]
      BY <1>v, <2>1, <2>3 DEF AtomicByThread, Busy
    <2>5. after \in {Atomic!Unmounted("AlbumIsNotMounted"), Atomic!Available}
      BY DEF AfterUnmount, Atomic!Unmounted, Atomic!Available
    <2> HIDE DEF after
    <2>6. Atomic!Close(s) \/ Atomic!Reset(s)
      BY <2>1, <2>2, <2>4, <2>5 DEF Atomic!Close, Atomic!Reset
    <2>7. QED BY <2>1, <2>6 DEF Atomic!Next
  <1>9. ASSUME NEW t \in Thread, UnmountEnd(t) PROVE Atomic!Next \/ AtomicStutter
    <2> DEFINE s == Target(t)
               after == AfterUnmount(Cur(t).fn)
    <2>1. /\ pc'[t] \in {"call", "files", "reply"} /\ UNCHANGED fsTable
          /\ status' = [status EXCEPT ![s] = after]
      BY <1>9, <1>r DEF UnmountEnd, Result, MountError
    <2>2. AtomicStatus' = status'
      BY <1>a, <1>v, <2>1 DEF AtomicByThread, InSection, Busy
    <2>3. CASE pc[t] = "unmounted"
      <3>1. Effect(t) = after
        BY <2>3 DEF Effect
      <3>2. AtomicStatus = status'
        BY <1>v, <2>1, <2>3, <3>1 DEF AtomicByThread, Busy
      <3>3. QED BY <2>1, <2>2, <3>2 DEF AtomicStutter
    <2>4. CASE pc[t] = "call"
      <3>1. s \in Storage /\ status[s].state # "mounted"
        BY <1>9, <2>4 DEF UnmountEnd, At, Calls
      <3>2. AtomicStatus = status
        BY <1>b, <1>v, <2>4 DEF AtomicByThread, InSection, Busy
      <3>3. fsTable' = fsTable \ {s}
        BY <2>1, <2>4, <3>1, Alone DEF InSection, Agrees
      <3>4. after \in {Atomic!Unmounted("AlbumIsNotMounted"), Atomic!Available}
        BY DEF AfterUnmount, Atomic!Unmounted, Atomic!Available
      <3> HIDE DEF after
      <3>5. Atomic!Close(s) \/ Atomic!Reset(s)
        BY <2>1, <2>2, <3>2, <3>3, <3>4 DEF Atomic!Close, Atomic!Reset
      <3>6. QED BY <3>1, <3>5 DEF Atomic!Next
    <2>5. QED BY <1>9, <2>3, <2>4 DEF UnmountEnd, At
  <1>10. CASE UNCHANGED vars
    <2>1. \A t \in Thread : Busy(t)' = Busy(t) /\ Target(t)' = Target(t) /\ Effect(t)' = Effect(t)
      BY <1>10 DEF vars, frame, Busy, Target, Cur, Effect
    <2>2. UNCHANGED << status, fsTable >>
      BY <1>10 DEF vars
    <2>3. QED BY <1>v, <2>1, <2>2 DEF AtomicByThread, AtomicStutter
  <1>11. QED
    BY <1>2, <1>3, <1>4, <1>5, <1>6, <1>7, <1>8, <1>9, <1>10 DEF Next, Serve, Aborted

(* When every command takes g_AlbumMutex, the calls of the AlbumManager,   *)
(* each several steps long, behave as the atomic calls of AlbumStorage.    *)
THEOREM ImplementsStorage == AllLocked /\ Spec => AtomicSpec
  <1> SUFFICES ASSUME AllLocked PROVE Spec => Atomic!Spec
    BY DEF AtomicSpec
  <1>1. Init => Atomic!Init
    <2> SUFFICES ASSUME Init PROVE Atomic!Init
      OBVIOUS
    <2>1. AtomicStatus = status
      BY MountInit, AtomicView DEF Init, AtomicByThread, Busy
    <2>2. QED BY <2>1 DEF Init, Atomic!Init, Atomic!Initial, Atomic!Unmounted
  <1>2. MountInv /\ [Next]_vars => [Atomic!Next]_(Atomic!vars)
    BY AtomicStep
  <1>3. MountInv /\ [Next]_vars => MountInv'
    BY MountNext
  <1>4. QED BY <1>1, <1>2, <1>3, MountInit, PTL DEF Spec, Atomic!Spec

-----------------------------------------------------------------------------
(* The chains of calls. A command that has ensured a storage does not      *)
(* unmount one any more, and the commands that fall back only mount.       *)

Shaped(cmd, chain) ==
  /\ Len(chain) \in Nat \ {0}
  /\ \A i, j \in 1 .. Len(chain) : i < j /\ chain[i].fn = "Ensure" => chain[j].fn = "Ensure"
  /\ Fallback(cmd) => \A i \in 1 .. Len(chain) : chain[i].fn = "Mount"

LEMMA OneCall ==
  ASSUME NEW c, NEW fn \in Fn, NEW s \in StorageId, Fallback(c) => fn = "Mount"
  PROVE  Shaped(c, << On(fn, s) >>)
  BY DEF Shaped, On

LEMMA TwoCalls ==
  ASSUME NEW c, NEW f \in Fn, NEW s \in StorageId, NEW g \in Fn, NEW u \in StorageId,
         f = "Ensure" => g = "Ensure", Fallback(c) => f = "Mount" /\ g = "Mount"
  PROVE  Shaped(c, << On(f, s), On(g, u) >>)
  BY DEF Shaped, On

LEMMA CopyShaped ==
  ASSUME NEW src \in StorageId, NEW dst \in StorageId
  PROVE  Shaped("StorageCopyAlbumFile", CopyChain(src, dst))
  <1>1. CASE src = dst
    <2>1. CopyChain(src, dst) = << On("Verify", src), On("Verify", dst) >>
      BY <1>1 DEF CopyChain, On
    <2>2. QED BY <2>1, TwoCalls DEF Fn, Fallback
  <1>2. CASE src # dst
    <2> DEFINE a == << On("Verify", src), On("Verify", dst) >>
               b == << On("Ensure", src), On("Ensure", dst) >>
    <2>1. CopyChain(src, dst) = a \o b
      BY <1>2 DEF CopyChain
    <2>2. \A fn \in Fn, s \in StorageId : On(fn, s) \in Call
      BY DEF On, Call
    <2>3. a \in Seq(Call) /\ b \in Seq(Call) /\ Len(a) = 2 /\ Len(b) = 2
      BY <2>2 DEF Fn
    <2>4. /\ Len(a \o b) = 4
          /\ \A i \in 1 .. 4 : (a \o b)[i] = IF i <= 2 THEN a[i] ELSE b[i - 2]
      BY <2>3
    <2>5. \A i \in 1 .. 4 : (a \o b)[i].fn = IF i <= 2 THEN "Verify" ELSE "Ensure"
      BY <2>4 DEF On
    <2> HIDE DEF a, b
    <2>6. QED BY <2>1, <2>4, <2>5 DEF Shaped, Fallback
  <1>3. QED BY <1>1, <1>2

LEMMA ChainShape == \A c \in Command : \A chain \in Chains(c) : Shaped(c, chain)
  <1> SUFFICES ASSUME NEW c \in Command, NEW chain \in Chains(c) PROVE Shaped(c, chain)
    OBVIOUS
  <1>1. CASE c = "GetAlbumMountResult"
    BY <1>1, OneCall DEF Chains, Fn, Fallback
  <1>2. CASE c = "GetAlbumFileCount"
    BY <1>2, OneCall DEF Chains, Fn, Fallback
  <1>3. CASE c = "ForceAlbumUnmounted"
    BY <1>3, OneCall DEF Chains, Fn, Fallback
  <1>4. CASE c = "ResetAlbumMountStatus"
    BY <1>4, OneCall DEF Chains, Fn, Fallback
  <1>5. CASE c = "NotifyAlbumStorageIsAvailable"
    BY <1>5, TwoCalls DEF Chains, Fn, Fallback
  <1>6. CASE c = "StorageCopyAlbumFile"
    BY <1>6, CopyShaped DEF Chains
  <1>7. CASE c = "GetRequiredStorageSpaceSizeToCopyAll"
    <2>1. PICK src \in StorageId, dst \in StorageId :
            chain = << On("Ensure", src), On("Ensure", dst) >>
      BY <1>7 DEF Chains
    <2>2. "Ensure" \in Fn /\ ~ Fallback(c)
      BY <1>7 DEF Fn, Fallback
    <2>3. QED BY <2>1, <2>2, TwoCalls
  <1>8. CASE c \in {"GetAutoSavingStorage", "GenerateCurrentAlbumFileId"}
    <2>1. Nand \in StorageId /\ Sd \in StorageId
      BY DEF StorageId, Storage
    <2>2. QED BY <1>8, <2>1, OneCall, TwoCalls DEF Chains, AutoSavingChains, Fn
  <1>9. QED BY <1>1, <1>2, <1>3, <1>4, <1>5, <1>6, <1>7, <1>8 DEF Command

LEMMA RequestShape == \A t \in Thread : \A r \in Requests(t) : Shaped(r.cmd, r.calls)
  BY ChainShape, CommandAssumption DEF Requests

-----------------------------------------------------------------------------
(* All commands, the one that does not take g_AlbumMutex included. It only *)
(* mounts, so that a storage is unmounted by the owner of the mutex alone, *)
(* and what a command that takes the mutex has ensured stays mounted.      *)

Locks(t) == InSection(t) /\ Locked(request[t].cmd)

LocksAlone == \A t \in Thread : Locks(t) => mutex = t

(* The calls that have returned: those before the current one, and that    *)
(* one as well where the files are used.                                   *)
Returned(t) == IF pc[t] = "files" THEN 1 .. Len(request[t].calls) ELSE 1 .. index[t] - 1

(* Where a thread is in its chain. *)
AtCall(t) ==
  /\ pc[t] # "idle" => /\ Shaped(request[t].cmd, request[t].calls)
                       /\ index[t] <= Len(request[t].calls)
  /\ pc[t] \in {"idle", "lock"} => index[t] = 1
  /\ pc[t] \in {"mount", "mounted"} => Cur(t).fn \in {"Mount", "Ensure"}
  /\ pc[t] \in {"unmount", "unmounted"} => Cur(t).fn \in {"Close", "Unmount"}
  /\ pc[t] = "files" => ~ Fallback(request[t].cmd)

(* What the calls that have returned achieved. *)
Ensured(t) ==
  InSection(t) /\ pc[t] # "reply" /\ ~ Fallback(request[t].cmd) =>
    \A i \in Returned(t) :
      request[t].calls[i].fn = "Ensure" => request[t].calls[i].storage \in fsTable

SavingKept(t) ==
  pc[t] = "reply" /\ Fallback(request[t].cmd) /\ Locked(request[t].cmd)
    /\ result[t] = "Success" => Target(t) \in fsTable

Knows(t) == AtCall(t) /\ Ensured(t) /\ SavingKept(t)

Unmounting(s) == \E t \in Thread : pc[t] = "unmounted" /\ Target(t) = s

HasMounted(t, s) == pc[t] = "mounted" /\ result[t] = "Success" /\ Target(t) = s

(* What is true of a storage even while two threads mount it. A status     *)
(* that says mounted is ahead of the mount table only while the storage is *)
(* being unmounted; a thread that has mounted it has yet to say so.        *)
Raced(s) ==
  /\ status[s].last_error = "Success" => status[s].state = "mounted"
  /\ status[s].state = "mounted" => s \in fsTable \/ Unmounting(s)
  /\ \A t \in Thread : HasMounted(t, s) =>
       /\ s \in fsTable
       /\ status[s].state = "mounted" => Unmounting(s)
       /\ \A u \in Thread : HasMounted(u, s) => u = t
  /\ \A t \in Thread : pc[t] = "unmount" /\ Target(t) = s =>
       s \in fsTable /\ \A u \in Thread : ~ HasMounted(u, s)

RaceInv ==
  /\ TypeInv
  /\ LocksAlone
  /\ \A t \in Thread : Knows(t)
  /\ \A s \in Storage : Raced(s)

(* Only the owner of the mutex is about to unmount or has just unmounted.  *)
LEMMA UnmountLocks ==
  ASSUME RaceInv, NEW t \in Thread, pc[t] \in {"unmount", "unmounted"}
  PROVE  Locks(t) /\ mutex = t /\ Target(t) \in Storage
  <1>1. /\ Shaped(request[t].cmd, request[t].calls) /\ index[t] <= Len(request[t].calls)
        /\ Cur(t).fn \in {"Close", "Unmount"}
    BY DEF RaceInv, Knows, AtCall
  <1>2. index[t] \in 1 .. Len(request[t].calls)
    BY <1>1 DEF RaceInv, TypeInv, TypeOK, Shaped
  <1>3. Locked(request[t].cmd)
    BY <1>1, <1>2 DEF Shaped, Cur, Fallback, Locked
  <1>4. Locks(t)
    BY <1>3 DEF Locks, InSection
  <1>5. QED BY <1>4 DEF RaceInv, LocksAlone, TypeInv, FsTarget, InFs

(* A step of thread t: the other threads know what they knew, as only a    *)
(* thread that holds the mutex takes a storage out of the mount table.     *)
LEMMA ThreadStep ==
  ASSUME RaceInv, TypeInv', LocksAlone', NEW t \in Thread,
         \A u \in Thread : u # t =>
           /\ pc'[u] = pc[u] /\ request'[u] = request[u]
           /\ index'[u] = index[u] /\ result'[u] = result[u],
         fsTable \subseteq fsTable' \/ Locks(t),
         Knows(t)', \A s \in Storage : Raced(s)'
  PROVE  RaceInv'
  <1>1. ASSUME NEW u \in Thread, u # t PROVE Knows(u)'
    <2>1. /\ pc'[u] = pc[u] /\ request'[u] = request[u]
          /\ index'[u] = index[u] /\ result'[u] = result[u]
      BY <1>1
    <2>2. Knows(u)
      BY DEF RaceInv
    <2>3. AtCall(u)'
      BY <2>1, <2>2 DEF Knows, AtCall, Cur
    <2>4. Locks(u) => fsTable \subseteq fsTable'
      BY <1>1 DEF RaceInv, LocksAlone
    <2>5. ~ Fallback(request[u].cmd) => Locked(request[u].cmd)
      BY DEF Fallback, Locked
    <2>6. Ensured(u)'
      BY <2>1, <2>2, <2>4, <2>5 DEF Knows, Ensured, Returned, Locks, InSection
    <2>7. SavingKept(u)'
      BY <2>1, <2>2, <2>4 DEF Knows, SavingKept, Locks, InSection, Target, Cur
    <2>8. QED BY <2>3, <2>6, <2>7 DEF Knows
  <1>2. QED BY <1>1 DEF RaceInv

(* A step that neither takes nor returns the mutex keeps who owns it. *)
LEMMA MutexStep ==
  ASSUME RaceInv, NEW t \in Thread, UNCHANGED mutex, Locks(t)' => Locks(t),
         \A u \in Thread : u # t => pc'[u] = pc[u] /\ request'[u] = request[u]
  PROVE  LocksAlone'
  BY DEF RaceInv, LocksAlone, Locks, InSection

(* A step that neither mounts, nor unmounts, nor stores a status.          *)
LEMMA QuietStep ==
  ASSUME RaceInv, NEW t \in Thread, UNCHANGED << status, fsTable >>,
         pc[t] \notin {"mounted", "unmount", "unmounted"},
         pc'[t] \notin {"mounted", "unmount", "unmounted"},
         \A u \in Thread : u # t =>
           /\ pc'[u] = pc[u] /\ request'[u] = request[u]
           /\ index'[u] = index[u] /\ result'[u] = result[u]
  PROVE  \A s \in Storage : Raced(s)'
  <1>1. \A u \in Thread : pc'[u] \in {"mounted", "unmount", "unmounted"}
                          \/ pc[u] \in {"mounted", "unmount", "unmounted"} =>
          pc'[u] = pc[u] /\ Target(u)' = Target(u) /\ result'[u] = result[u]
    BY DEF Target, Cur
  <1>2. ASSUME NEW s \in Storage PROVE Raced(s)'
    <2>1. Unmounting(s)' <=> Unmounting(s)
      BY <1>1 DEF Unmounting
    <2>2. \A u \in Thread : HasMounted(u, s)' <=> HasMounted(u, s)
      BY <1>1 DEF HasMounted
    <2>3. \A u \in Thread : (pc[u] = "unmount" /\ Target(u) = s)' =>
                               pc[u] = "unmount" /\ Target(u) = s
      BY <1>1
    <2>4. Raced(s)
      BY DEF RaceInv
    <2>5. QED BY <2>1, <2>2, <2>3, <2>4 DEF Raced
  <1>3. QED BY <1>2

(* What Return changes. *)
LEMMA ReturnStep ==
  ASSUME RaceInv, NEW t \in Thread, NEW r \in Result, Return(t, r)
  PROVE  /\ pc'[t] \in {"call", "files", "reply"}
         /\ UNCHANGED << request, mutex >>
         /\ \A u \in Thread : u # t =>
              /\ pc'[u] = pc[u] /\ request'[u] = request[u]
              /\ index'[u] = index[u] /\ result'[u] = result[u]
  BY DEF RaceInv, TypeInv, TypeOK, Return, GoTo

(* A call returns r: what it was to achieve is achieved if r is Success.   *)
LEMMA ReturnKnows ==
  ASSUME RaceInv, NEW t \in Thread, NEW r \in Result,
         pc[t] \in {"call", "mounted", "unmounted"}, Return(t, r), UNCHANGED fsTable,
         Locked(request[t].cmd) /\ r = "Success" /\ Cur(t).fn \in {"Mount", "Ensure"} =>
           Target(t) \in fsTable
  PROVE  Knows(t)'
  <1> DEFINE cmd == request[t].cmd
             calls == request[t].calls
             more == index[t] < Len(calls) /\ (r = "Success") # Fallback(cmd)
  <1>1. TypeOK /\ AtCall(t) /\ Ensured(t)
    BY DEF RaceInv, TypeInv, Knows
  <1>2. UNCHANGED request
    BY DEF Return
  <1>4. /\ Shaped(cmd, calls)
        /\ index[t] \in Nat \ {0} /\ index[t] <= Len(calls) /\ Len(calls) \in Nat
    BY <1>1 DEF AtCall, TypeOK, Shaped
  <1>5. /\ pc'[t] = IF more THEN "call"
                    ELSE IF r = "Success" /\ OpensFiles(request[t]) THEN "files" ELSE "reply"
        /\ index'[t] = IF more THEN index[t] + 1 ELSE index[t]
        /\ result'[t] = IF Fallback(cmd) /\ r # "Success" THEN "AlbumIsNotMounted" ELSE r
    BY <1>1 DEF TypeOK, Return, GoTo
  <1> HIDE DEF more
  <1>7. OpensFiles(request[t]) => ~ Fallback(cmd)
    BY DEF OpensFiles, Fallback
  <1>8. index'[t] <= Len(calls)
    BY <1>4, <1>5 DEF more
  <1>9. ASSUME ~ Fallback(cmd), r = "Success", NEW i \in 1 .. index[t], calls[i].fn = "Ensure"
        PROVE  calls[i].storage \in fsTable
    <2>1. CASE i = index[t]
      <3>1. Locked(cmd)
        BY <1>9 DEF Fallback, Locked
      <3>2. QED BY <1>9, <2>1, <3>1 DEF Cur, Target
    <2>2. CASE i # index[t]
      <3>1. i \in Returned(t)
        BY <1>4, <2>2 DEF Returned
      <3>2. QED BY <1>1, <1>9, <3>1 DEF Ensured, InSection
    <2>3. QED BY <2>1, <2>2
  <1>10. ASSUME pc'[t] \notin {"idle", "lock", "reply"}, ~ Fallback(cmd), NEW i \in Returned(t)',
                calls[i].fn = "Ensure"
         PROVE  calls[i].storage \in fsTable
    <2>1. r = "Success"
      BY <1>5, <1>10 DEF more, Fallback
    <2>2. i \in 1 .. index[t]
      <3>1. CASE more
        BY <1>4, <1>5, <1>10, <3>1 DEF Returned
      <3>2. CASE ~ more
        <4>1. pc'[t] = "files"
          BY <1>5, <1>10, <3>2
        <4>2. index[t] = Len(calls)
          BY <1>4, <1>10, <2>1, <3>2 DEF more, Fallback
        <4>3. QED BY <1>2, <1>10, <4>1, <4>2 DEF Returned
      <3>3. QED BY <3>1, <3>2
    <2>3. QED BY <1>9, <1>10, <2>1, <2>2
  <1>11. ASSUME pc'[t] = "reply", Fallback(cmd), Locked(cmd), result'[t] = "Success"
         PROVE  Target(t)' \in fsTable'
    <2>1. ~ more /\ r = "Success"
      BY <1>5, <1>11
    <2>2. Cur(t).fn = "Mount"
      BY <1>4, <1>11 DEF Shaped, Cur
    <2>3. Target(t)' = Target(t)
      BY <1>2, <1>5, <2>1 DEF Target, Cur
    <2>4. QED BY <1>11, <2>1, <2>2, <2>3
  <1>12. pc'[t] \in {"call", "files", "reply"} /\ (pc'[t] = "files" => OpensFiles(request[t]))
    BY <1>5
  <1>13. AtCall(t)'
    BY <1>2, <1>4, <1>7, <1>8, <1>12 DEF AtCall
  <1>14. Ensured(t)' /\ SavingKept(t)'
    BY <1>2, <1>10, <1>11 DEF Ensured, SavingKept, InSection
  <1>15. QED BY <1>13, <1>14 DEF Knows

(* A step of thread t inside a call: the chain is where it was. *)
LEMMA InsideKnows ==
  ASSUME RaceInv, NEW t \in Thread, InSection(t), pc[t] \notin {"files", "reply"},
         NEW label \in {"mount", "mounted", "unmount", "unmounted"},
         pc' = [pc EXCEPT ![t] = label], UNCHANGED << request, index >>,
         label \in {"mount", "mounted"} => /\ Cur(t).fn \in {"Mount", "Ensure"}
                                           /\ fsTable \subseteq fsTable',
         label \in {"unmount", "unmounted"} => Cur(t).fn \in {"Close", "Unmount"}
  PROVE  Knows(t)'
  <1>1. TypeOK /\ AtCall(t) /\ Ensured(t)
    BY DEF RaceInv, TypeInv, Knows
  <1>3. pc'[t] = label
    BY <1>1 DEF TypeOK
  <1>4. /\ Shaped(request[t].cmd, request[t].calls)
        /\ index[t] \in Nat \ {0} /\ index[t] <= Len(request[t].calls)
        /\ Len(request[t].calls) \in Nat
    BY <1>1 DEF AtCall, TypeOK, Shaped, InSection
  <1>5. ASSUME ~ Fallback(request[t].cmd), NEW i \in Returned(t)',
               request[t].calls[i].fn = "Ensure"
        PROVE  request[t].calls[i].storage \in fsTable'
    <2>1. i \in 1 .. index[t] - 1
      BY <1>3, <1>5 DEF Returned
    <2>2. Cur(t).fn = "Ensure"
      BY <1>4, <1>5, <2>1 DEF Shaped, Cur
    <2>3. fsTable \subseteq fsTable'
      BY <2>2
    <2>4. request[t].calls[i].storage \in fsTable
      <3>1. i \in Returned(t)
        BY <2>1 DEF Returned
      <3>2. QED BY <1>1, <1>5, <3>1 DEF Ensured
    <2>5. QED BY <2>3, <2>4
  <1>6. Cur(t)' = Cur(t)
    BY DEF Cur
  <1>7. AtCall(t)'
    BY <1>3, <1>4, <1>6 DEF AtCall
  <1>8. Ensured(t)' /\ SavingKept(t)'
    BY <1>3, <1>5 DEF Ensured, SavingKept
  <1>9. QED BY <1>7, <1>8 DEF Knows

LEMMA RaceInit == Init => RaceInv
  <1> SUFFICES ASSUME Init PROVE RaceInv
    OBVIOUS
  <1>1. \A t \in Thread : pc[t] = "idle" /\ index[t] = 1
    BY DEF Init
  <1>2. LocksAlone /\ \A t \in Thread : Knows(t)
    BY <1>1 DEF LocksAlone, Locks, InSection, Knows, AtCall, Ensured, SavingKept
  <1>3. \A s \in Storage : Raced(s)
    BY <1>1 DEF Init, Raced, HasMounted
  <1>4. QED BY <1>2, <1>3, TypeInit DEF RaceInv

(* MountEnd and UnmountEnd store the status of their storage and return.   *)
LEMMA StoreRaced ==
  ASSUME RaceInv, NEW t \in Thread, NEW st \in MountStatus, NEW r \in Result,
         pc[t] \in {"call", "mounted", "unmounted"}, Target(t) \in Storage,
         status' = [status EXCEPT ![Target(t)] = st], UNCHANGED fsTable, Return(t, r),
         st.last_error = "Success" => st.state = "mounted",
         st.state = "mounted" => HasMounted(t, Target(t)),
         pc[t] = "unmounted" => st.state # "mounted"
  PROVE  \A s \in Storage : Raced(s)'
  <1>1. /\ pc'[t] \in {"call", "files", "reply"}
        /\ \A u \in Thread : u # t => /\ pc'[u] = pc[u] /\ Target(u)' = Target(u)
                                      /\ result'[u] = result[u]
    BY ReturnStep DEF Target, Cur
  <1>2. ASSUME NEW s \in Storage PROVE Raced(s)'
    <2>1. \A u \in Thread : HasMounted(u, s)' => HasMounted(u, s) /\ u # t
      BY <1>1 DEF HasMounted
    <2>2. \A u \in Thread : (pc[u] = "unmount" /\ Target(u) = s)' =>
                               pc[u] = "unmount" /\ Target(u) = s
      BY <1>1
    <2>3. Unmounting(s) => Unmounting(s)' \/ (pc[t] = "unmounted" /\ s = Target(t))
      BY <1>1 DEF Unmounting
    <2>4. Raced(s) /\ status \in [Storage -> MountStatus]
      BY DEF RaceInv, TypeInv, TypeOK
    <2>5. CASE s # Target(t)
      <3>1. status'[s] = status[s]
        BY <2>4, <2>5
      <3>2. QED BY <2>1, <2>2, <2>3, <2>4, <2>5, <3>1 DEF Raced
    <2>6. CASE s = Target(t)
      <3>1. status'[s] = st
        BY <2>4, <2>6
      <3>2. st.state = "mounted" => /\ s \in fsTable
                                    /\ \A u \in Thread : ~ HasMounted(u, s)'
        BY <2>1, <2>4, <2>6 DEF Raced
      <3>3. QED BY <2>1, <2>2, <2>4, <3>1, <3>2 DEF Raced
    <2>7. QED BY <2>5, <2>6
  <1>3. QED BY <1>2

LEMMA RaceNext == RaceInv /\ [Next]_vars => RaceInv'
  <1> SUFFICES ASSUME RaceInv, [Next]_vars PROVE RaceInv'
    OBVIOUS
  <1>t. TypeInv /\ TypeInv' /\ TypeOK
    BY TypeNext DEF RaceInv, TypeInv
  <1>k. \A t \in Thread : Knows(t)
    BY DEF RaceInv
  <1>s. \A s \in Storage : Raced(s)
    BY DEF RaceInv
  <1>1. ASSUME NEW t \in Thread, Receive(t) PROVE RaceInv'
    <2>1. PICK q \in Requests(t) :
            /\ request' = [request EXCEPT ![t] = q]
            /\ pc' = [pc EXCEPT ![t] = IF Locked(q.cmd) THEN "lock" ELSE "call"]
      BY <1>1 DEF Receive, GoTo
    <2>2. Shaped(q.cmd, q.calls) /\ 1 <= Len(q.calls)
      BY RequestShape DEF Shaped
    <2>3. /\ pc[t] = "idle" /\ index[t] = 1
          /\ UNCHANGED << status, fsTable, mutex, index, result >>
      BY <1>1, <1>k DEF Receive, At, Knows, AtCall
    <2>4. /\ pc'[t] = IF Locked(q.cmd) THEN "lock" ELSE "call"
          /\ request'[t] = q
          /\ \A u \in Thread : u # t => pc'[u] = pc[u] /\ request'[u] = request[u]
      BY <1>t, <2>1 DEF TypeOK
    <2>5. Knows(t)'
      BY <2>2, <2>3, <2>4 DEF Knows, AtCall, Ensured, Returned, SavingKept
    <2>6. LocksAlone'
      BY <2>3, <2>4, MutexStep DEF Locks, InSection
    <2>7. \A s \in Storage : Raced(s)'
      BY <2>3, <2>4, QuietStep
    <2>8. QED BY <1>t, <2>3, <2>4, <2>5, <2>6, <2>7, ThreadStep
  <1>2. ASSUME NEW t \in Thread, Lock(t) PROVE RaceInv'
    <2>1. /\ pc[t] = "lock" /\ mutex = NoThread /\ mutex' = t
          /\ UNCHANGED << status, fsTable, request, index, result >>
      BY <1>2 DEF Lock, At, frame
    <2>2. pc'[t] = "call" /\ \A u \in Thread : u # t => pc'[u] = pc[u]
      BY <1>2, <1>t DEF Lock, GoTo, TypeOK
    <2>3. Knows(t)'
      BY <1>k, <2>1, <2>2 DEF Knows, AtCall, Ensured, Returned, SavingKept
    <2>4. LocksAlone'
      BY <2>1, <2>2, ThreadAssumption DEF RaceInv, LocksAlone, Locks, InSection
    <2>5. \A s \in Storage : Raced(s)'
      BY <2>1, <2>2, QuietStep
    <2>6. QED BY <1>t, <2>1, <2>2, <2>3, <2>4, <2>5, ThreadStep
  (* The calls that return without a change of the status. *)
  <1>3. ASSUME NEW t \in Thread, NEW r \in Result, Return(t, r), pc[t] = "call",
               UNCHANGED << status, fsTable >>,
               Locked(request[t].cmd) /\ r = "Success" /\ Cur(t).fn \in {"Mount", "Ensure"} =>
                 Target(t) \in fsTable
        PROVE  RaceInv'
    <2>1. /\ pc'[t] \in {"call", "files", "reply"} /\ UNCHANGED << request, mutex >>
          /\ \A u \in Thread : u # t =>
               /\ pc'[u] = pc[u] /\ request'[u] = request[u]
               /\ index'[u] = index[u] /\ result'[u] = result[u]
      BY <1>3, ReturnStep
    <2>2. Knows(t)'
      BY <1>3, ReturnKnows
    <2>3. LocksAlone'
      BY <1>3, <2>1, MutexStep DEF Locks, InSection
    <2>4. \A s \in Storage : Raced(s)'
      BY <1>3, <2>1, QuietStep
    <2>5. QED BY <1>3, <1>t, <2>1, <2>2, <2>3, <2>4, ThreadStep
  <1>4. ASSUME NEW t \in Thread, VerifyStorageId(t) PROVE RaceInv'
    <2>1. pc[t] = "call" /\ UNCHANGED << status, fsTable >>
      BY <1>4 DEF VerifyStorageId, At
    <2>2. CASE Return(t, "AlbumInvalidStorage")
      BY <1>3, <2>1, <2>2 DEF Result
    <2>3. CASE Calls(t, {"Verify"}) /\ Return(t, "Success")
      BY <1>3, <2>1, <2>3 DEF Result, MountError, Calls
    <2>4. QED BY <1>4, <2>2, <2>3 DEF VerifyStorageId
  <1>5. ASSUME NEW t \in Thread, MountReported(t) PROVE RaceInv'
    <2> DEFINE r == status[Target(t)].last_error
    <2>1. /\ pc[t] = "call" /\ Return(t, r) /\ UNCHANGED << status, fsTable >>
          /\ Target(t) \in Storage
      BY <1>5 DEF MountReported, At, Calls
    <2>2. r \in Result
      BY <1>t, <2>1 DEF TypeOK, MountStatus, Result
    (* The owner of the mutex is not unmounting. *)
    <2>3. Locked(request[t].cmd) => ~ Unmounting(Target(t))
      BY <2>1, UnmountLocks DEF Unmounting, RaceInv, LocksAlone, Locks, InSection
    <2>4. Locked(request[t].cmd) /\ r = "Success" => Target(t) \in fsTable
      BY <1>s, <2>1, <2>3 DEF Raced
    <2> HIDE DEF r
    <2>5. QED BY <1>3, <2>1, <2>2, <2>4
  <1>6. ASSUME NEW t \in Thread, NEW label \in {"mount", "mounted", "unmount", "unmounted"},
               InSection(t), pc[t] \notin {"files", "reply"},
               pc' = [pc EXCEPT ![t] = label], UNCHANGED << request, index, mutex >>,
               \A u \in Thread : u # t => result'[u] = result[u],
               label \in {"mount", "mounted"} => /\ Cur(t).fn \in {"Mount", "Ensure"}
                                                 /\ fsTable \subseteq fsTable',
               label \in {"unmount", "unmounted"} => Cur(t).fn \in {"Close", "Unmount"},
               fsTable \subseteq fsTable' \/ Locks(t),
               \A s \in Storage : Raced(s)'
        PROVE  RaceInv'
    <2>1. Knows(t)'
      BY <1>6, InsideKnows
    <2>2. \A u \in Thread : u # t => /\ pc'[u] = pc[u] /\ request'[u] = request[u]
                                     /\ index'[u] = index[u] /\ result'[u] = result[u]
      BY <1>6, <1>t DEF TypeOK
    <2>3. LocksAlone'
      BY <1>6, <2>2, MutexStep DEF Locks
    <2>4. QED BY <1>6, <1>t, <2>1, <2>2, <2>3, ThreadStep
  <1>7. ASSUME NEW t \in Thread, MountBegin(t) PROVE RaceInv'
    <2>1. /\ pc[t] = "call" /\ pc' = [pc EXCEPT ![t] = "mount"]
          /\ Cur(t).fn \in {"Mount", "Ensure"}
          /\ UNCHANGED << status, fsTable, mutex, request, index, result >>
      BY <1>7 DEF MountBegin, At, GoTo, Calls, frame
    <2>2. pc'[t] = "mount" /\ \A u \in Thread : u # t => pc'[u] = pc[u]
      BY <1>t, <2>1 DEF TypeOK
    <2>3. \A s \in Storage : Raced(s)'
      BY <2>1, <2>2, QuietStep
    <2>4. QED BY <1>6, <2>1, <2>3 DEF InSection
  <1>8. ASSUME NEW t \in Thread, MountAlbum(t) PROVE RaceInv'
    <2> DEFINE m == Target(t)
    <2>1. /\ pc[t] = "mount" /\ pc' = [pc EXCEPT ![t] = "mounted"]
          /\ UNCHANGED << status, mutex, request, index >>
      BY <1>8 DEF MountAlbum, At, GoTo
    <2>2. \/ m \notin fsTable /\ fsTable' = fsTable \cup {m} /\ result'[t] = "Success"
          \/ fsTable' = fsTable /\ result'[t] # "Success"
      BY <1>8, <1>t DEF MountAlbum, TypeOK, MountAlbumFailure
    <2>3. /\ pc'[t] = "mounted" /\ Target(t)' = m
          /\ \A u \in Thread : u # t => /\ pc'[u] = pc[u] /\ result'[u] = result[u]
                                        /\ Target(u)' = Target(u)
      BY <1>8, <1>t, <2>1 DEF MountAlbum, TypeOK, Target, Cur
    <2>4. Cur(t).fn \in {"Mount", "Ensure"}
      BY <1>k, <2>1 DEF Knows, AtCall
    <2>5. ASSUME NEW s \in Storage PROVE Raced(s)'
      <3>1. Raced(s)
        BY <1>s
      <3>2. Unmounting(s)' <=> Unmounting(s)
        BY <2>1, <2>3 DEF Unmounting
      <3>3. \A u \in Thread : u # t => (HasMounted(u, s)' <=> HasMounted(u, s))
        BY <2>3 DEF HasMounted
      <3>4. \A u \in Thread : (pc[u] = "unmount" /\ Target(u) = s)' =>
                                 pc[u] = "unmount" /\ Target(u) = s
        BY <2>3
      <3>5. HasMounted(t, s)' => s = m /\ s \notin fsTable /\ s \in fsTable'
        BY <2>1, <2>2, <2>3 DEF HasMounted
      <3>6. ~ HasMounted(t, s)
        BY <2>1 DEF HasMounted
      <3>7. fsTable \subseteq fsTable' /\ status' = status
        BY <2>1, <2>2
      <3> HIDE DEF m
      <3>8. QED BY <3>1, <3>2, <3>3, <3>4, <3>5, <3>6, <3>7 DEF Raced
    <2>6. QED BY <1>6, <2>1, <2>2, <2>3, <2>4, <2>5 DEF InSection
  <1>9. ASSUME NEW t \in Thread, MountAlbumAborts(t) PROVE RaceInv'
    <2>1. UNCHANGED << status, fsTable, mutex, pc, request, index, result >>
      BY <1>9 DEF MountAlbumAborts, frame
    <2>2. \A s \in Storage : Raced(s)'
      BY <1>s, <2>1 DEF Raced, HasMounted, Unmounting, Target, Cur
    <2>3. \A u \in Thread : Knows(u)'
      BY <1>k, <2>1 DEF Knows, AtCall, Ensured, SavingKept, Returned, InSection, Target, Cur
    <2>4. LocksAlone'
      BY <2>1 DEF RaceInv, LocksAlone, Locks, InSection
    <2>5. QED BY <1>t, <2>2, <2>3, <2>4 DEF RaceInv
  (* The calls that return and store the status. *)
  <1>10. ASSUME NEW t \in Thread, NEW r \in Result, Return(t, r), UNCHANGED fsTable,
                pc[t] \in {"call", "mounted", "unmounted"},
                Locked(request[t].cmd) /\ r = "Success" /\ Cur(t).fn \in {"Mount", "Ensure"} =>
                  Target(t) \in fsTable,
                \A s \in Storage : Raced(s)'
         PROVE  RaceInv'
    <2>1. /\ pc'[t] \in {"call", "files", "reply"} /\ UNCHANGED << request, mutex >>
          /\ \A u \in Thread : u # t =>
               /\ pc'[u] = pc[u] /\ request'[u] = request[u]
               /\ index'[u] = index[u] /\ result'[u] = result[u]
      BY <1>10, ReturnStep
    <2>2. Knows(t)'
      BY <1>10, ReturnKnows
    <2>3. LocksAlone'
      BY <1>10, <2>1, MutexStep DEF Locks, InSection
    <2>4. QED BY <1>10, <1>t, <2>1, <2>2, <2>3, ThreadStep
  <1>11. ASSUME NEW t \in Thread, MountEnd(t) PROVE RaceInv'
    <2> DEFINE st == AfterMount(result[t])
               r  == st.last_error
    <2>1. /\ pc[t] = "mounted" /\ Return(t, r) /\ UNCHANGED fsTable
          /\ status' = [status EXCEPT ![Target(t)] = st]
      BY <1>11 DEF MountEnd, At
    <2>2. Target(t) \in Storage
      BY <1>t, <2>1 DEF TypeInv, FsTarget, InFs
    <2>3. /\ st \in MountStatus /\ r \in Result
          /\ r = "Success" => st.state = "mounted"
          /\ st.state = "mounted" => result[t] = "Success"
      BY DEF AfterMount, MountStatus, MountState, MountError, Result
    <2> HIDE DEF st
    <2>4. st.state = "mounted" => HasMounted(t, Target(t))
      BY <2>1, <2>3 DEF HasMounted
    <2>5. r = "Success" => Target(t) \in fsTable
      BY <1>s, <2>2, <2>3, <2>4 DEF Raced
    <2>6. \A s \in Storage : Raced(s)'
      BY <2>1, <2>2, <2>3, <2>4, StoreRaced
    <2>7. QED BY <1>10, <2>1, <2>3, <2>5, <2>6
  <1>12. ASSUME NEW t \in Thread, UnmountBegin(t) PROVE RaceInv'
    <2> DEFINE m == Target(t)
    <2>1. /\ pc[t] = "call" /\ pc' = [pc EXCEPT ![t] = "unmount"]
          /\ Cur(t).fn \in {"Close", "Unmount"} /\ m \in Storage
          /\ status[m].state = "mounted"
          /\ UNCHANGED << status, fsTable, mutex, request, index, result >>
      BY <1>12 DEF UnmountBegin, At, GoTo, Calls, frame
    <2>2. Locks(t)
      <3>1. AtCall(t)
        BY <1>k DEF Knows
      <3>2. Shaped(request[t].cmd, request[t].calls) /\ index[t] <= Len(request[t].calls)
        BY <2>1, <3>1 DEF AtCall
      <3>3. index[t] \in 1 .. Len(request[t].calls)
        BY <1>t, <3>2 DEF TypeOK, Shaped
      <3>4. QED BY <2>1, <3>2, <3>3 DEF Shaped, Cur, Fallback, Locked, Locks, InSection
    <2>3. ~ Unmounting(m)
      BY <2>1, <2>2, UnmountLocks DEF Unmounting, RaceInv, LocksAlone
    <2>4. m \in fsTable /\ \A u \in Thread : ~ HasMounted(u, m)
      BY <1>s, <2>1, <2>3 DEF Raced
    <2>5. /\ pc'[t] = "unmount" /\ Target(t)' = m
          /\ \A u \in Thread : u # t => pc'[u] = pc[u] /\ Target(u)' = Target(u)
      BY <1>t, <2>1 DEF TypeOK, Target, Cur
    <2>6. ASSUME NEW s \in Storage PROVE Raced(s)'
      <3>1. Raced(s)
        BY <1>s
      <3>2. Unmounting(s)' <=> Unmounting(s)
        BY <2>1, <2>5 DEF Unmounting
      <3>3. \A u \in Thread : HasMounted(u, s)' <=> HasMounted(u, s)
        BY <2>1, <2>5 DEF HasMounted
      <3>4. \A u \in Thread : (pc[u] = "unmount" /\ Target(u) = s)' =>
                                 s = m \/ (pc[u] = "unmount" /\ Target(u) = s)
        BY <2>5
      <3>5. fsTable' = fsTable /\ status' = status
        BY <2>1
      <3> HIDE DEF m
      <3>6. QED BY <2>4, <3>1, <3>2, <3>3, <3>4, <3>5 DEF Raced
    <2>7. QED BY <1>6, <2>1, <2>2, <2>6 DEF InSection
  <1>13. ASSUME NEW t \in Thread, UnmountAlbum(t) PROVE RaceInv'
    <2> DEFINE m == Target(t)
    <2>1. /\ pc[t] = "unmount" /\ pc' = [pc EXCEPT ![t] = "unmounted"]
          /\ fsTable' = fsTable \ {m}
          /\ UNCHANGED << status, mutex, request, index, result >>
      BY <1>13 DEF UnmountAlbum, At, GoTo, frame
    <2>2. Locks(t) /\ mutex = t /\ m \in Storage
      BY <2>1, UnmountLocks
    <2>3. Cur(t).fn \in {"Close", "Unmount"}
      BY <1>k, <2>1 DEF Knows, AtCall
    <2>4. /\ pc'[t] = "unmounted" /\ Target(t)' = m
          /\ \A u \in Thread : u # t => pc'[u] = pc[u] /\ Target(u)' = Target(u)
      BY <1>t, <2>1 DEF TypeOK, Target, Cur
    <2>5. \A u \in Thread : ~ HasMounted(u, m)
      BY <1>s, <2>1, <2>2 DEF Raced
    <2>6. \A u \in Thread : u # t => pc[u] # "unmount"
      BY <2>2, UnmountLocks
    <2>7. ASSUME NEW s \in Storage PROVE Raced(s)'
      <3>1. Raced(s)
        BY <1>s
      <3>2. Unmounting(s) \/ s = m => Unmounting(s)'
        BY <2>1, <2>4 DEF Unmounting
      <3>3. \A u \in Thread : HasMounted(u, s)' <=> HasMounted(u, s)
        BY <2>1, <2>4 DEF HasMounted
      <3>4. \A u \in Thread : pc'[u] # "unmount"
        BY <2>4, <2>6
      <3>5. status' = status /\ (s # m => (s \in fsTable' <=> s \in fsTable))
        BY <2>1
      <3> HIDE DEF m
      <3>6. QED BY <2>5, <3>1, <3>2, <3>3, <3>4, <3>5 DEF Raced
    <2>8. QED BY <1>6, <2>1, <2>2, <2>3, <2>7 DEF InSection
  <1>14. ASSUME NEW t \in Thread, UnmountEnd(t) PROVE RaceInv'
    <2> DEFINE st == AfterUnmount(Cur(t).fn)
    <2>1. /\ pc[t] \in {"call", "unmounted"} /\ Return(t, "Success") /\ UNCHANGED fsTable
          /\ Cur(t).fn \in {"Close", "Unmount"}
          /\ status' = [status EXCEPT ![Target(t)] = st]
      BY <1>14, <1>k DEF UnmountEnd, At, Calls, Knows, AtCall
    <2>2. Target(t) \in Storage
      BY <1>14, UnmountLocks DEF UnmountEnd, At, Calls
    <2>3. st \in MountStatus /\ st.state # "mounted" /\ st.last_error # "Success"
      BY DEF AfterUnmount, MountStatus, MountState, MountError
    <2>4. "Success" \in Result
      BY DEF Result, MountError
    <2> HIDE DEF st
    <2>5. \A s \in Storage : Raced(s)'
      BY <2>1, <2>2, <2>3, <2>4, StoreRaced
    <2>6. QED BY <1>10, <2>1, <2>4, <2>5
  <1>15. ASSUME NEW t \in Thread, UseFiles(t) PROVE RaceInv'
    <2>1. /\ pc[t] = "files" /\ pc' = [pc EXCEPT ![t] = "reply"]
          /\ UNCHANGED << status, fsTable, mutex, request, index, result >>
      BY <1>15 DEF UseFiles, At, GoTo, frame
    <2>2. pc'[t] = "reply" /\ \A u \in Thread : u # t => pc'[u] = pc[u]
      BY <1>t, <2>1 DEF TypeOK
    <2>3. Knows(t)'
      BY <1>k, <2>1, <2>2 DEF Knows, AtCall, Ensured, SavingKept
    <2>4. LocksAlone'
      BY <2>1, <2>2, MutexStep DEF Locks, InSection
    <2>5. \A s \in Storage : Raced(s)'
      BY <2>1, <2>2, QuietStep
    <2>6. QED BY <1>t, <2>1, <2>2, <2>3, <2>4, <2>5, ThreadStep
  <1>16. ASSUME NEW t \in Thread, Reply(t) PROVE RaceInv'
    <2>1. /\ pc[t] = "reply" /\ UNCHANGED << status, fsTable >>
          /\ mutex' = IF Locked(request[t].cmd) THEN NoThread ELSE mutex
      BY <1>16 DEF Reply, Release, At
    <2>2. /\ pc'[t] = "idle" /\ index'[t] = 1
          /\ \A u \in Thread : u # t =>
               /\ pc'[u] = pc[u] /\ request'[u] = request[u]
               /\ index'[u] = index[u] /\ result'[u] = result[u]
      BY <1>16, <1>t DEF Reply, GoTo, TypeOK
    <2>3. Knows(t)'
      BY <2>2 DEF Knows, AtCall, Ensured, SavingKept, InSection
    <2>4. LocksAlone'
      <3>1. Locked(request[t].cmd) => mutex = t
        BY <2>1 DEF RaceInv, LocksAlone, Locks, InSection
      <3>2. \A u \in Thread : Locks(u)' => u # t /\ Locks(u) /\ mutex = u
        BY <2>2 DEF RaceInv, LocksAlone, Locks, InSection
      <3>3. QED BY <2>1, <3>1, <3>2 DEF LocksAlone
    <2>5. \A s \in Storage : Raced(s)'
      BY <2>1, <2>2, QuietStep
    <2>6. QED BY <1>t, <2>1, <2>2, <2>3, <2>4, <2>5, ThreadStep
  <1>17. CASE UNCHANGED vars
    <2>1. UNCHANGED << status, fsTable, mutex, pc, request, index, result >>
      BY <1>17 DEF vars, frame
    <2>2. \A s \in Storage : Raced(s)'
      BY <1>s, <2>1 DEF Raced, HasMounted, Unmounting, Target, Cur
    <2>3. \A u \in Thread : Knows(u)'
      BY <1>k, <2>1 DEF Knows, AtCall, Ensured, SavingKept, Returned, InSection, Target, Cur
    <2>4. LocksAlone'
      BY <2>1 DEF RaceInv, LocksAlone, Locks, InSection
    <2>5. QED BY <1>t, <2>2, <2>3, <2>4 DEF RaceInv
  <1>18. QED
    BY <1>1, <1>2, <1>4, <1>5, <1>7, <1>8, <1>9, <1>11, <1>12, <1>13, <1>14, <1>15, <1>16, <1>17
       DEF Next, Serve, Aborted

(* Every storage a command has ensured is mounted when it opens files, the *)
(* first one of a copy included, whatever the other threads do, and even   *)
(* if some of them mount without g_AlbumMutex.                             *)
THEOREM FilesMounted == Spec => []FilesOnMountedStorage
  <1>1. RaceInv => FilesOnMountedStorage
    <2> SUFFICES ASSUME RaceInv, NEW t \in Thread, pc[t] = "files",
                        NEW i \in DOMAIN request[t].calls, request[t].calls[i].fn = "Ensure"
                 PROVE  request[t].calls[i].storage \in fsTable
      BY DEF FilesOnMountedStorage
    <2>1. request[t].calls \in Seq(Call)
      BY DEF RaceInv, TypeInv, TypeOK, Request
    <2>2. i \in Returned(t)
      BY <2>1 DEF Returned
    <2>3. QED BY <2>2 DEF RaceInv, Knows, AtCall, Ensured, InSection
  <1>2. QED BY <1>1, RaceInit, RaceNext, PTL DEF Spec

(* UnmountAlbum never meets a storage that is not mounted: only commands   *)
(* with g_AlbumMutex unmount, and one that saw the storage mounted is the  *)
(* one that unmounts it. A mount without the mutex changes nothing of it.  *)
THEOREM NoDoubleUnmount == Spec => []NeverUnmountedTwice
  <1>1. Init => NeverUnmountedTwice
    BY DEF Init, NeverUnmountedTwice
  <1>2. RaceInv /\ NeverUnmountedTwice /\ [Next]_vars => NeverUnmountedTwice'
    <2> SUFFICES ASSUME RaceInv, NeverUnmountedTwice, [Next]_vars PROVE NeverUnmountedTwice'
      OBVIOUS
    <2>1. ASSUME NEW t \in Thread, UnmountAlbum(t) PROVE UNCHANGED aborted
      <3>1. pc[t] = "unmount" /\ Target(t) \in Storage
        BY <2>1 DEF UnmountAlbum, At, RaceInv, TypeInv, FsTarget, InFs
      <3>2. Target(t) \in fsTable
        BY <3>1 DEF RaceInv, Raced
      <3>3. QED BY <2>1, <3>2 DEF UnmountAlbum
    <2>2. ASSUME NEW t \in Thread, MountAlbumAborts(t) PROVE NeverUnmountedTwice'
      BY <2>2 DEF MountAlbumAborts, NeverUnmountedTwice
    <2>3. ASSUME NEW t \in Thread,
                 \/ Receive(t) \/ Lock(t) \/ VerifyStorageId(t) \/ MountReported(t)
                 \/ MountBegin(t) \/ MountAlbum(t) \/ MountEnd(t) \/ UnmountBegin(t)
                 \/ UnmountEnd(t) \/ UseFiles(t) \/ Reply(t)
          PROVE  UNCHANGED aborted
      BY <2>3 DEF Receive, Lock, VerifyStorageId, MountReported, MountBegin, MountAlbum,
                  MountEnd, UnmountBegin, UnmountEnd, UseFiles, Reply, Return
    <2>4. CASE UNCHANGED vars
      BY <2>4 DEF vars, NeverUnmountedTwice
    <2>5. QED
      BY <2>1, <2>2, <2>3, <2>4 DEF Next, Serve, Aborted, NeverUnmountedTwice
  <1>3. QED BY <1>1, <1>2, RaceInit, RaceNext, PTL DEF Spec

(* When every command takes g_AlbumMutex, the storage GetAutoSavingStorage *)
(* names is mounted when it replies.                                       *)
THEOREM SavingMounted == AllLocked /\ Spec => []SavingStorageMounted
  <1> SUFFICES ASSUME AllLocked PROVE Spec => []SavingStorageMounted
    OBVIOUS
  <1>1. MountInv /\ RaceInv => SavingStorageMounted
    BY DEF MountInv, MutexHeld, RaceInv, Knows, SavingKept, SavingStorageMounted
  <1>2. MountInv /\ [Next]_vars => MountInv'
    BY MountNext
  <1>3. QED BY <1>1, <1>2, MountInit, RaceInit, RaceNext, PTL DEF Spec

=============================================================================
