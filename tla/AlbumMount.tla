----------------------------- MODULE AlbumMount -----------------------------
(***************************************************************************)
(* The mount state machine of the AlbumManager, and the commands of the    *)
(* two server threads that drive it.                                       *)
(*                                                                         *)
(* Each thread serves one request at a time. A command is a chain of calls *)
(* of the AlbumManager; most commands hold g_AlbumMutex from the first     *)
(* call to the last. A call that has to mount or unmount blocks in the     *)
(* file system library, and there the other thread runs: deciding from     *)
(* mount_status, the library's call, and storing the new mount_status are  *)
(* three steps.                                                            *)
(*                                                                         *)
(* The state begins where server::Initialize ends: both storages are       *)
(* unmounted, so its own calls MountImageDirectory(Nand) and               *)
(* RefreshCache(Nand) return AlbumIsNotMounted and change nothing.         *)
(***************************************************************************)
EXTENDS Naturals, Sequences

CONSTANTS
  Thread,               \* the server threads
  Commands,             \* Thread -> the commands its clients use
  Nand, Sd,             \* the two values of StorageId
  InvalidStorage,       \* any other StorageId a client may send
  NoThread              \* g_AlbumMutex is free

Storage   == {Nand, Sd}
StorageId == Storage \cup {InvalidStorage}

Command == {"GetAlbumMountResult", "GetAlbumFileCount", "StorageCopyAlbumFile",
            "GetRequiredStorageSpaceSizeToCopyAll", "GetAutoSavingStorage",
            "ForceAlbumUnmounted", "ResetAlbumMountStatus",
            "NotifyAlbumStorageIsAvailable", "GenerateCurrentAlbumFileId"}

ASSUME StorageAssumption == InvalidStorage \notin Storage /\ Nand # Sd
ASSUME ThreadAssumption  == NoThread \notin Thread
ASSUME CommandAssumption == Commands \in [Thread -> SUBSET Command]

(* Fault: GetAutoSavingStorage forgets the lock as well. *)
LockedFault(cmd) == cmd \notin {"GenerateCurrentAlbumFileId", "GetAutoSavingStorage"}

(* Fault: ForceAlbumUnmounted forgets the lock as well. *)
LockedFaultUnmount(cmd) == cmd \notin {"GenerateCurrentAlbumFileId", "ForceAlbumUnmounted"}

(* GenerateCurrentAlbumFileId is the one command that reaches the          *)
(* AlbumManager without a lock on g_AlbumMutex.                            *)
Locked(cmd) == cmd # "GenerateCurrentAlbumFileId"

-----------------------------------------------------------------------------
(* A command as the chain of AlbumManager calls it makes.                  *)

Fn   == {"Verify", "Mount", "Ensure", "Close", "Unmount"}
Call == [fn: Fn, storage: StorageId]

On(fn, s) == [fn |-> fn, storage |-> s]

(* The preference list of AlbumFileIdGenerator::GetAutoSavingStorage: by   *)
(* the primary storage setting for normal content, by the permission to    *)
(* write extra movies to built-in memory for extra content.                *)
AutoSavingChains ==
  {<< On("Mount", Sd), On("Mount", Nand) >>, << On("Mount", Nand) >>, << On("Mount", Sd) >>}

CopyChain(src, dst) ==
  << On("Verify", src), On("Verify", dst) >>
    \o IF src = dst THEN << >> ELSE << On("Ensure", src), On("Ensure", dst) >>

Chains(cmd) ==
  CASE cmd = "GetAlbumMountResult"   -> {<< On("Mount", s) >> : s \in StorageId}
    [] cmd = "GetAlbumFileCount"     -> {<< On("Ensure", s) >> : s \in StorageId}
    [] cmd = "ForceAlbumUnmounted"   -> {<< On("Close", s) >> : s \in StorageId}
    [] cmd = "ResetAlbumMountStatus" -> {<< On("Unmount", s) >> : s \in StorageId}
    [] cmd = "NotifyAlbumStorageIsAvailable" ->
         {<< On("Unmount", s), On("Ensure", s) >> : s \in StorageId}
    [] cmd = "StorageCopyAlbumFile" ->
         {CopyChain(src, dst) : src \in StorageId, dst \in StorageId}
    [] cmd = "GetRequiredStorageSpaceSizeToCopyAll" ->
         {<< On("Ensure", src), On("Ensure", dst) >> : src \in StorageId, dst \in StorageId}
    [] OTHER -> AutoSavingChains

Request   == [cmd: Command \cup {"None"}, calls: Seq(Call)]
NoRequest == [cmd |-> "None", calls |-> << >>]

Requests(t) == UNION {{[cmd |-> c, calls |-> chain] : chain \in Chains(c)} : c \in Commands[t]}

(* GetAutoSavingStorage goes down its list until a call succeeds; every    *)
(* other command returns at the first call that fails.                     *)
Fallback(cmd) == cmd \in {"GetAutoSavingStorage", "GenerateCurrentAlbumFileId"}

(* The commands that open files or directories once the storages are       *)
(* ensured.                                                                *)
OpensFiles(r) ==
  /\ r.cmd \in {"GetAlbumFileCount", "StorageCopyAlbumFile", "NotifyAlbumStorageIsAvailable"}
  /\ \E i \in DOMAIN r.calls : r.calls[i].fn = "Ensure"

-----------------------------------------------------------------------------

VARIABLES
  status,               \* Storage -> MountStatus
  fsTable,              \* the storages the file system library has mounted
  mutex,                \* the owner of g_AlbumMutex
  pc,                   \* Thread -> where the thread is
  request,              \* Thread -> the request it serves
  index,                \* Thread -> which call of the chain it is at
  result,               \* Thread -> result of its last finished (library) call
  aborted               \* the reason the process called AMS_ABORT

frame == << request, index, result >>
vars  == << status, fsTable, mutex, pc, frame, aborted >>

MountState  == {"unmounted", "available", "mounted"}
MountError  == {"Success", "AlbumIsNotMounted", "AlbumPathNotFound"}
MountStatus == [state: MountState, last_error: MountError]
MountAlbumFailure == {"AlbumStorageUnavailable", "AlbumPathUnavailable", "AlbumError"}
Result == MountError \cup MountAlbumFailure \cup {"AlbumInvalidStorage"}
PC     == {"idle", "lock", "call", "mount", "mounted", "unmount", "unmounted", "files", "reply"}
Abort  == {"None", "MountNameAlreadyExists", "AllocationFailure", "NotMounted"}

Init ==
  /\ status = [s \in Storage |-> [state |-> "unmounted", last_error |-> "AlbumIsNotMounted"]]
  /\ fsTable = {}
  /\ mutex = NoThread
  /\ pc = [t \in Thread |-> "idle"]
  /\ request = [t \in Thread |-> NoRequest]
  /\ index = [t \in Thread |-> 1]
  /\ result = [t \in Thread |-> "Success"]
  /\ aborted = "None"

At(t, label)   == aborted = "None" /\ pc[t] = label
GoTo(t, label) == pc' = [pc EXCEPT ![t] = label]

(* The call the thread is at, and its storage. *)
Cur(t)    == request[t].calls[index[t]]
Target(t) == Cur(t).storage
Calls(t, fns) == Cur(t).fn \in fns /\ Target(t) \in Storage

(* The call returns r: on to the next call of the chain, or to the files,  *)
(* or to the reply.                                                        *)
Return(t, r) ==
  LET cmd  == request[t].cmd
      more == index[t] < Len(request[t].calls) /\ (r = "Success") # Fallback(cmd)
  IN /\ GoTo(t, IF more THEN "call"
                ELSE IF r = "Success" /\ OpensFiles(request[t]) THEN "files" ELSE "reply")
     /\ index' = [index EXCEPT ![t] = IF more THEN @ + 1 ELSE @]
     /\ result' = [result EXCEPT ![t] =
                     IF Fallback(cmd) /\ r # "Success" THEN "AlbumIsNotMounted" ELSE r]
     /\ UNCHANGED << request, mutex, aborted >>

-----------------------------------------------------------------------------

(* A thread takes a request from one of its sessions. *)
Receive(t) ==
  /\ At(t, "idle")
  /\ \E r \in Requests(t) :
       /\ request' = [request EXCEPT ![t] = r]
       /\ GoTo(t, IF Locked(r.cmd) THEN "lock" ELSE "call")
  /\ UNCHANGED << status, fsTable, mutex, index, result, aborted >>

Lock(t) ==
  /\ At(t, "lock")
  /\ mutex = NoThread
  /\ mutex' = t
  /\ GoTo(t, "call")
  /\ UNCHANGED << status, fsTable, frame, aborted >>

(* VerifyStorageId, alone or as the first statement of the other calls. *)
VerifyStorageId(t) ==
  /\ At(t, "call")
  /\ \/ Target(t) \notin Storage /\ Return(t, "AlbumInvalidStorage")
     \/ Calls(t, {"Verify"}) /\ Return(t, "Success")
  /\ UNCHANGED << status, fsTable >>

(* Fault: only a mounted storage is not mounted on demand. *)
MountableFault(s) == status[s].state # "mounted"

(* Only an available storage is mounted on demand. *)
Mountable(s) == status[s].state = "available"

(* MountImageDirectory or EnsureMountState of a storage that is not        *)
(* available reports last_error. (EnsureMountState's remaining branches    *)
(* compare last_error with a value it never has.)                          *)
MountReported(t) ==
  /\ At(t, "call")
  /\ Calls(t, {"Mount", "Ensure"})
  /\ ~ Mountable(Target(t))
  /\ Return(t, status[Target(t)].last_error)
  /\ UNCHANGED << status, fsTable >>

(* MountImageDirectory or EnsureMountState of an available storage calls   *)
(* MountAlbum.                                                             *)
MountBegin(t) ==
  /\ At(t, "call")
  /\ Calls(t, {"Mount", "Ensure"})
  /\ Mountable(Target(t))
  /\ GoTo(t, "mount")
  /\ UNCHANGED << status, fsTable, mutex, frame, aborted >>

(* MountAlbum: the library mounts the storage or reports an error.         *)
MountAlbum(t) ==
  /\ At(t, "mount")
  /\ GoTo(t, "mounted")
  /\ \/ /\ Target(t) \notin fsTable
        /\ fsTable' = fsTable \cup {Target(t)}
        /\ result' = [result EXCEPT ![t] = "Success"]
     \/ /\ \E r \in MountAlbumFailure : result' = [result EXCEPT ![t] = r]
        /\ UNCHANGED fsTable
  /\ UNCHANGED << status, mutex, request, index, aborted >>

(* The two library errors MountAlbum answers with AMS_ABORT.               *)
MountAlbumAborts(t) ==
  /\ At(t, "mount")
  /\ \/ Target(t) \in fsTable /\ aborted' = "MountNameAlreadyExists"
     \/ aborted' = "AllocationFailure"
  /\ UNCHANGED << status, fsTable, mutex, pc, frame >>

(* Fault: a mount that may be retried leaves last_error at Success. *)
AfterMountFault(r) ==
  IF r = "AlbumPathUnavailable"
  THEN [state |-> "unmounted", last_error |-> "AlbumPathNotFound"]
  ELSE [state |-> IF r = "Success" THEN "mounted" ELSE "available", last_error |-> "Success"]

(* Fault: the error of MountAlbum is kept as it is. *)
AfterMountUnconverted(r) ==
  [state |-> CASE r = "Success" -> "mounted"
               [] r = "AlbumPathUnavailable" -> "unmounted"
               [] OTHER -> "available",
   last_error |-> r]

(* What MountImageDirectory and EnsureMountState make of the result of     *)
(* MountAlbum.                                                             *)
AfterMount(r) ==
  CASE r = "Success"              -> [state |-> "mounted", last_error |-> "Success"]
    [] r = "AlbumPathUnavailable" -> [state |-> "unmounted", last_error |-> "AlbumPathNotFound"]
    [] OTHER                      -> [state |-> "available", last_error |-> "AlbumIsNotMounted"]

MountEnd(t) ==
  /\ At(t, "mounted")
  /\ status' = [status EXCEPT ![Target(t)] = AfterMount(result[t])]
  /\ Return(t, AfterMount(result[t]).last_error)
  /\ UNCHANGED fsTable

(* CloseImageDirectory leaves the storage unmounted, UnmountImageDirectory *)
(* leaves it available.                                                    *)
AfterUnmount(fn) ==
  [state |-> IF fn = "Close" THEN "unmounted" ELSE "available",
   last_error |-> "AlbumIsNotMounted"]

UnmountBegin(t) ==
  /\ At(t, "call")
  /\ Calls(t, {"Close", "Unmount"})
  /\ status[Target(t)].state = "mounted"
  /\ GoTo(t, "unmount")
  /\ UNCHANGED << status, fsTable, mutex, frame, aborted >>

(* UnmountAlbum: the library takes the storage out of its mount table. It  *)
(* aborts the process when the storage is not there.                       *)
UnmountAlbum(t) ==
  /\ At(t, "unmount")
  /\ fsTable' = fsTable \ {Target(t)}
  /\ aborted' = IF Target(t) \in fsTable THEN aborted ELSE "NotMounted"
  /\ GoTo(t, "unmounted")
  /\ UNCHANGED << status, mutex, frame >>

UnmountEnd(t) ==
  /\ \/ At(t, "unmounted")
     \/ /\ At(t, "call")
        /\ Calls(t, {"Close", "Unmount"})
        /\ status[Target(t)].state # "mounted"
  /\ status' = [status EXCEPT ![Target(t)] = AfterUnmount(Cur(t).fn)]
  /\ Return(t, "Success")
  /\ UNCHANGED fsTable

(* The file part of the command, whatever it does and returns. *)
UseFiles(t) ==
  /\ At(t, "files")
  /\ GoTo(t, "reply")
  /\ UNCHANGED << status, fsTable, mutex, frame, aborted >>

(* Fault: the early return of a failed command keeps g_AlbumMutex. *)
ReleaseFault(t) ==
  mutex' = IF Locked(request[t].cmd) /\ result[t] = "Success" THEN NoThread ELSE mutex

(* The scoped_lock ends with the command, on every path. *)
Release(t) == mutex' = IF Locked(request[t].cmd) THEN NoThread ELSE mutex

Reply(t) ==
  /\ At(t, "reply")
  /\ Release(t)
  /\ GoTo(t, "idle")
  /\ request' = [request EXCEPT ![t] = NoRequest]
  /\ index' = [index EXCEPT ![t] = 1]
  /\ result' = [result EXCEPT ![t] = "Success"]
  /\ UNCHANGED << status, fsTable, aborted >>

(* AMS_ABORT stops the process. *)
Aborted == aborted # "None" /\ UNCHANGED vars

Serve(t) ==
  \/ VerifyStorageId(t) \/ MountReported(t)
  \/ MountBegin(t) \/ MountAlbum(t) \/ MountAlbumAborts(t) \/ MountEnd(t)
  \/ UnmountBegin(t) \/ UnmountAlbum(t) \/ UnmountEnd(t)
  \/ UseFiles(t) \/ Reply(t)

Next ==
  \/ \E t \in Thread : Receive(t) \/ Lock(t) \/ Serve(t)
  \/ Aborted

Spec == Init /\ [][Next]_vars

(* A thread that can run is run; the library's calls return; a thread that *)
(* waits for g_AlbumMutex is not passed over for ever. Clients need not    *)
(* send anything.                                                          *)
Fairness == \A t \in Thread : WF_vars(Serve(t)) /\ SF_vars(Lock(t))

FairSpec == Spec /\ Fairness

-----------------------------------------------------------------------------

TypeOK ==
  /\ status \in [Storage -> MountStatus]
  /\ fsTable \subseteq Storage
  /\ mutex \in Thread \cup {NoThread}
  /\ pc \in [Thread -> PC]
  /\ request \in [Thread -> Request]
  /\ index \in [Thread -> Nat \ {0}]
  /\ result \in [Thread -> Result]
  /\ aborted \in Abort

(* No thread is between the library's call and the store of the status it  *)
(* leads to, for storage s.                                                *)
Settled(s) == ~ \E t \in Thread : pc[t] \in {"mounted", "unmounted"} /\ Target(t) = s

(* Once the call that changes it is over, mount_status tells the truth:    *)
(* a storage is in the library's mount table exactly when its state is     *)
(* mounted, and MountImageDirectory reports Success exactly then.          *)
StatusIsTrue ==
  \A s \in Storage : Settled(s) =>
    /\ s \in fsTable <=> status[s].state = "mounted"
    /\ status[s].last_error = "Success" <=> status[s].state = "mounted"

(* The AMS_ABORT of MountAlbum for a name that is already mounted is       *)
(* unreachable: the status kept by the AlbumManager prevents it.           *)
NeverMountedTwice == aborted # "MountNameAlreadyExists"

(* The library's abort for the unmount of a storage that is not mounted is *)
(* unreachable: two commands never unmount what only one of them saw       *)
(* mounted, although a third may mount it without the mutex.               *)
NeverUnmountedTwice == aborted # "NotMounted"

(* When a command opens files after its EnsureMountState calls, every      *)
(* storage it ensured is mounted, the first one of a copy included.        *)
FilesOnMountedStorage ==
  \A t \in Thread : pc[t] = "files" =>
    \A i \in DOMAIN request[t].calls :
      request[t].calls[i].fn = "Ensure" => request[t].calls[i].storage \in fsTable

(* GetAutoSavingStorage names a storage that is mounted when it replies.   *)
SavingStorageMounted ==
  \A t \in Thread :
    pc[t] = "reply" /\ Fallback(request[t].cmd) /\ result[t] = "Success" =>
      Target(t) \in fsTable

(* A storage that was closed, or whose path was found unusable, is not     *)
(* mounted again before UnmountImageDirectory has made it available.       *)
ClosedStaysClosed ==
  [][\A s \in Storage : status[s].state = "unmounted" => status'[s].state # "mounted"]_vars

(* A thread that received a request replies, unless the process aborts.    *)
EveryRequestIsAnswered ==
  \A t \in Thread : pc[t] # "idle" ~> (pc[t] = "idle" \/ aborted # "None")

-----------------------------------------------------------------------------
(* The atomic view: a call takes effect when the library's call does, or,  *)
(* without one, when it stores the status.                                 *)

Effect(t) == IF pc[t] = "mounted" THEN AfterMount(result[t]) ELSE AfterUnmount(Cur(t).fn)

AtomicStatus ==
  [s \in Storage |->
     IF Settled(s) THEN status[s]
     ELSE Effect(CHOOSE t \in Thread : pc[t] \in {"mounted", "unmounted"} /\ Target(t) = s)]

Atomic == INSTANCE AlbumStorage WITH status <- AtomicStatus, table <- fsTable

(* The calls of the two threads are the atomic calls of AlbumStorage. *)
AtomicSpec == Atomic!Spec

=============================================================================
