# capsrv: a TLA+ development

`capsrv` is a reimplementation of the album service of a game console: it keeps
the screenshots and movies of built-in memory and of the SD card, and serves
them to other processes. This directory models the part of `capsrv/source` that
decides anything: the mounting of the storages, the commands that work on files,
the overlay thumbnails, the registered applications, the generated file ids and
the temporary files of movies; and the parts of the framework these rest on: the
loop of a service thread and the file system library. Paths below are relative to
`src/capsrv/source`, those of the framework to
`src/Atmosphere-libs/libstratosphere`.

## 1. The system

`capsrv_main.cpp` loads the environment, initializes the modules
(`server/capsrv_album_server.cpp`), and starts two threads. Each runs
`LoopProcess`: it takes one request at a time from its sessions and runs the
handler to its end.

* The **system thread** serves `caps:c` (`AlbumControlService`): storages
  appearing and disappearing, registration of applets, generation of file ids,
  overlay thumbnails.
* The **application thread** serves `caps:a` (`AlbumAccessorService`) and, from
  5.0.0 on, `caps:u` (`AlbumApplicationService`): listing, copying, deleting,
  mount state, thumbnails.

The threads share the global objects of `server/capsrv_album_object.cpp`. They
interleave wherever a handler blocks: in the file system library, on a mutex, on
a condition variable, or by preemption in a long `memcpy`.

| component | state | operations | shared with |
|---|---|---|---|
| `AlbumManager`, mounting | `MountStatus` of each storage, the library's mount table | `MountImageDirectory`, `EnsureMountState`, `CloseImageDirectory`, `UnmountImageDirectory` | every album command, `AlbumFileIdGenerator`; guarded by `g_AlbumMutex` in all commands but one |
| `AlbumManager`, files | the files, the `AlbumManagerCache` of counts, the work memory | `CopyFile`, `DeleteFile`, `RefreshCache`, `CountEntries`, `ListEntries`, `GetFileSize` | under `g_AlbumMutex` |
| `OverlayThumbnailHolder` | for each kind: status, file id, image; a mutex and a condition variable | `GetOverlayBuffer`, the caller's `memcpy`, `Signal`; `GetLastOverlayThumbnail` | control thread writes, album thread reads |
| `ApplicationAlbumManager` | four `ApplicationResource`s: applet resource user id, application id, version, key | register, unregister, lookups, encrypt and decrypt entries | both threads, own mutex |
| `AlbumFileIdGenerator` | last timestamp and counter | `GenerateFileId`, `GetAutoSavingStorage` | control thread; the second also from the album thread |
| `AlbumSettings`, environment, error converter | flags read at start-up | getters | all |
| `TemporaryFile` (`capsrv_movie.cpp`) | path and handle of each; the atomic `total_count` of all | `Make`, `Delete` | movie streams, whose code is not written yet |
| `AlbumReserve`, `MovieController`, `StreamIdGenerator` | reserved file ids, stream slots, counter | called by code that is not written yet | - |
| service framework (`source/sf/hipc`, `os_waitable_manager_impl`) | per thread: the list of ports and sessions it waits for, the list of those to be linked, the session memory | `LoopProcess`; the kernel's connections, requests and closed handles | clients |
| file system library (`source/fs`) | the mount table and its accessors; per open file its parent and `write_state` | `MountImageDirectory`, `Unmount`, `OpenFile`, `WriteFile`, `FlushFile`, `SetFileSize`, `CloseFile` | both threads; own mutexes for the table and the list of open files |
| file names (`capsrv_types.cpp`) | none | file id to path, name to file id | file commands |
| `crypto`, `image`, `video` | keys | MACs, encryption, EXIF and video parsing | - |

What is hard to get right:

* a mount is decided, done in the library, and recorded in three steps, and one
  command does that without the lock the others hold;
* a command ensures one storage, then another, then uses files on both;
* copies fail or are cut off at any step, while the target already has its final
  size;
* the file limit relies on a cached count that start-up, deletions and the
  refresh maintain;
* a thumbnail is written into a shared buffer after the mutex was released;
* loops over copies of resources, with lookups that answer for unused ones;
* ids that must differ although the clock has seconds only, the local time may
  repeat itself and a restart loses the counter;
* a count that is incremented before it is compared with the limit, and read
  again before it is decremented, while others do the same;
* ports and sessions that are unlinked while they are served and linked again on
  scope exits, through a second list that is spliced in later;
* accessors that are found under the mutex of the mount table and used after it
  was given back, kept alive only by `g_AlbumMutex` and by the scope exits that
  close files;
* the result of a failed write that a file keeps, and a close that aborts on it.

What makes each part correct:

* *mounting*: the recorded status is true, `last_error` is `Success` exactly
  while the storage is mounted, nothing is mounted twice, a closed storage stays
  closed, every request is answered;
* *files*: a copy that succeeds is faithful, one that fails leaves the old file
  or none, fragments stem from crashes,
  failed clean-ups and failed flushes only, the limit holds, commands end;
* *thumbnails*: what is read was written, recently and whole; nobody waits for
  ever;
* *applications*: an entry is readable by its application for as long as its applet
  is registered and by no other application; an applet has one place, and gives it
  back (the code does not achieve the latter two, see section 3);
* *file ids*: none is handed out twice;
* *temporary files*: fewer than the limit, none left behind, the count exact on
  every way out;
* *service loop*: nothing is lost from the list or linked twice, every request is
  answered, ports do not run out of memory;
* *file system library*: accessors neither leak nor dangle, nothing open is
  unmounted, no order of failures reaches the aborts, a file that says that
  nothing is pending has nothing pending.

## 2. The modules

| module | models | state and actions |
|---|---|---|
| `AlbumStorage` | what the `AlbumManager` promises about its storages, atomically | `status`, `table`; `Open`, `OpenFails`, `Close`, `Reset` |
| `AlbumMount` | the mount functions and the commands of both threads | below |
| `AlbumFiles` | `CopyFile`, `DeleteFile`, `RefreshCache`, crashes; `INSTANCE`s `AlbumStorage` for its mount calls | `files`, `count`, and the running command |
| `AlbumDirectory` | `ProcessImageDirectory`, `ListEntries`, `CountEntries`, `FromString` | `tree` of files; `path` and `unread` of the folders that are open; `entries` reported |
| `OverlayThumbnailHolder` | writer and reader of the thumbnails | per kind `file_id`, `status`, image chunks; `mutex`; per thread its place |
| `ApplicationAlbumManager` | the registered applications and their entries | `resources`; one action per operation |
| `AlbumFileIdGenerator` | `GenerateFileId`, the clock and the local time, restarts | `last_timestamp`, `counter`; `now`, `offset` |
| `TemporaryFile` | `Make` and `Delete`, and the counter | `total_count`; per slot its place, path, tries and the count it read; the `files` on `TM` |
| `HipcServerManager` | the loop of a service thread with its clients | `backlog`, `connected`, `session`, `waitable`, `waitlist`, `notify`, and what is processed |
| `FileTable` | what the file system library promises, atomically | `mounted`, `open`; `Mount`, `Unmount`, `Open`, `Close` |
| `FsLibrary` | mount table, accessors, open files | `table`, `name`, `file`; `holder` of the mutex, its `opened` files, the `call` of each thread |
| `MC*` | the instances for TLC; `MCControlService` takes two components of the control service together, which share no state, and runs each while the other rests | |
| `*Proofs` | theorems and proofs | |

How they compose: `AlbumMount` implements `AlbumStorage`, whose actions `AlbumFiles`
takes as the mount calls around its commands. `FsLibrary` implements `FileTable`
under the discipline `AlbumMount` establishes: files are opened and storages
unmounted by the holder of `g_AlbumMutex` only. `HipcServerManager` is below all of
them: it brings the requests that the other modules let clients choose freely.

**AlbumMount.** A command is the chain of `AlbumManager` calls it makes
(`Chains`), and whether it takes `g_AlbumMutex` (`Locked`). `MountBegin`,
`MountAlbum` and `MountEnd` are the three steps of a mount: the check of
`mount_status`, the library's call, the store of the result (`AfterMount`, the
conversions of `MountImageDirectory` and `EnsureMountState`, which agree).
`UnmountBegin`, `UnmountAlbum` and `UnmountEnd` are those of an unmount.
`MountReported` is the early return with `last_error`. `Return` decides whether
the chain goes on: `GetAutoSavingStorage` tries the next storage after a failure,
every other command stops. The two library errors for which `MountAlbum` calls
`AMS_ABORT` are `MountAlbumAborts`. The initial state is the one after
`server::Initialize`, whose own mount and refresh calls find the storage
unmounted and return `AlbumIsNotMounted`.

The branches of `EnsureMountState` after `last_result.GetValue() != 206` compare
the result with a value it never has, and `R_CATCH(ResultAlbumUnexpected)` with a
result `MountAlbum` does not return; neither is in the model.

**AlbumFiles.** A file is a sequence of chunks, empty or not, or `Absent`;
`Whole(v)` are the contents the console stored, `Blank` chunks what `CreateFile` and
`SetFileSize` allocate. A turn of the copy loop reads as many chunks as the library
returns, from none to what the work memory holds and the source has left
(`read_size`), and writes as many. Every library call may fail. `FinishCopy` ignores
the result of the flush, as the code does, so the target may lose chunks although
the copy answers `Success` (`FlushFails`). `Crash` stops the process at any step and
starts it again. `before` and `spoiled` are history variables: `spoiled` are the
files a crash, a failed clean-up or a failed flush may have left incomplete. `Asked`
are the files clients name; the others only take room, which keeps the instance
small. The commands hold `g_AlbumMutex`, so one runs at a time. `OtherCommand` are
the mount calls of the others: those that take the mutex come between the commands,
the mounts of `GenerateCurrentAlbumFileId` at any step of one. They are atomic here;
what happens when they are not is in `AlbumMount`. `RefreshCache` stores any count,
because it counts on top of the uninitialized `cache[4]`
(`capsrv_album_manager.cpp:328`).

**AlbumDirectory.** The four nested loops are a stack: `path` holds the names of the
open folders, `unread` what `ReadDirectory` has not yet returned for each. Its order
is arbitrary. A read that fails ends a folder, an open that fails ends the scan, and
both leave `Success` to the client, as in the code. The scan's root path is `NA:/:/`
(`MountPoints` already ends in `:/`); whether the file system accepts that is its
business, and `OpenRoot` may fail. `FromString` gets names with the properties it
looks at. The names `GetFileName` makes have 31 of the 32 digits of the identifier:
they are among the names scanned and are rejected for their length, or, for extra
files, because the last pair of digits is no number and the uninitialized byte
decides; so a file `CopyFile` makes is not listed. `Verify` and `FromString` compare
`month - 1 < 12` as ints and admit month 0. With room for no entry `ListEntries`
writes a first one past the array; `RoomIsRespected` excepts that case. Nothing
calls `AlbumReserve::Reserve`, so `IsReserved` is false.

**OverlayThumbnailHolder.** The image is copied chunk by chunk on both sides. The
writer's `GetOverlayBuffer` holds the mutex only while it stores the file id; the
chunks follow without it. No code sets the status `Occupied`, so the reader's loop
never waits: the wait on the condition variable is a guard that is always true, and
the `Signal` of the writers wakes nobody. A lost wake-up is thus neither possible in
the code nor representable in the module; what a thread waits for is the mutex.

**ApplicationAlbumManager.** Keys are numbers, an encrypted entry is the entry
with its key, and decryption with another key yields noise that has no expected
application id. `for (auto res : ...)` iterates over copies, so
`UnregisterAppletResourceUserId` and `SetShimLibraryVersion` change nothing; the
version stays 0 and the `V1` branches are unreachable. Registering looks for the
own resource among the unused ones, so an id that registers twice takes two. These
are translated as they are; the run `ApplicationRegistry` reports them. `held` is an entry
some client keeps, with the applet whose key it was sealed with; `ended`, a history
variable, is set when that applet is unregistered or another applet registers the
application: `EntryReadableWhileRegistered` claims nothing from then on, so it does
not rest on the copies.

**AlbumFileIdGenerator.** Seconds are numbers up to `MaxTime`. `SetClock` lets time
pass, sets the clock, and changes the offset of the local time, as the rule of the
time zone does twice a year and the user at any time; all in any order. The counter
goes by the timestamp; the id bears the local date (`Date`), which is not one to
one with it. `Restart` is `Initialize` of a new process.

**TemporaryFile.** `Make` is `Count` (the increment), `Check` (the comparison),
`Create` in its loop over random names, `Open`, `Undo` of a file that cannot be
opened, and `GiveBack`; `Delete` is `Close`, `Delete`, `ReadCount`, `Decrement` and
`AssertCount`. Each is a step in which other slots may run. `orphans`, a history
variable, are the files the library refused to delete.

**HipcServerManager.** A session is its memory. `ProcessWaitList` splices
`waitlist` into `waitable`, `Notified` and `WaitSignaled` are what the wait returns,
`ProcessForServer` accepts a connection, `ReceiveClosed` and `ReceiveRequest` take
what a session has, `ProcessCall`, `ProcessOpen` and `ProcessClose` answer it.
Clients connect, send one request a session at a time, and close their handle
whenever they like, with a request under way or not. The kernel's side is modelled
from its use. Where the code finds no session memory the process is gone
(`Terminated`).

**FsLibrary.** Accessors and files are addresses, allocated again after they were
freed, so that a dangling one would be mistaken for its successor. Mounting is two
steps (the accessor is made; it is registered or freed), unmounting is two (it is
unlinked; it is freed), and a call that uses an accessor finds it in one step and
uses it in the next. `write_state` follows the nested setters of `FileAccessor`.
`~FileAccessor` carries the comment "Ensure that all files are flushed." but tests
that only for a file whose write has failed; `NeverAborts` is about that test. Any
thread may mount without `g_AlbumMutex`, as `GenerateCurrentAlbumFileId` does. Two
rules of the caller are guards of `UnmountBegin`: `AlbumManager` unmounts only what
is mounted (`Unmount` aborts otherwise; `NeverUnmountedTwice` of `AlbumMount` shows
that the rule is kept), and a command that has files open does not unmount
(`CopyFile` opens files after its last mount call and closes them on scope exit).

## 3. What TLC checks

| run | checks | instance |
|---|---|---|
| `AlbumMountLocked` | `StatusIsTrue`, `NeverMountedTwice`, `SavingStorageMounted`, `ClosedStaysClosed`, refinement `AtomicSpec` | two threads, both storages and an invalid one, all commands that take the lock |
| `AlbumMountAll` | `TypeOK`, `FilesOnMountedStorage`, `NeverUnmountedTwice`, `EveryRequestIsAnswered` | the same with `GenerateCurrentAlbumFileId` |
| `AlbumMountRace` | violated: `NeverMountedTwice` | the same |
| `AlbumFiles` | `NoFragmentAtRest`, `CopyIsFaithful`, `FailedCopyKeepsOrDrops`, `LimitIsKept`, `EveryCommandEnds` | two files of one type, one of them copied, two storages with room for one each; contents of no, three or four chunks, at most three allowed; a work memory of two chunks |
| `AlbumDirectory` | `ReportedOnce`, `RoomIsRespected`, `ScanIsComplete` | five day folders, two of them to be skipped, up to two files of four kinds of names, room for none to two entries |
| `OverlayThumbnail` | `ReadIsRecent`, `HolderAtRest`, `EveryCallReturns` | both kinds, three chunks, three writes of each |
| `OverlayThumbnailTorn` | violated: `ThumbnailIsWhole` | the same |
| `ControlService` | `EntryReadableWhileRegistered`, `EntryIsPrivate`, `IdsTypeOK`, `IdsAreUnique` | two resources, two ids besides 0; two ids a second, three seconds, two offsets of the local time |
| `ApplicationRegistry` | violated: `ResourcesFollowCalls` | two resources, two ids besides 0 |
| `TemporaryFile` | `CountIsExact`, `LimitIsKept`, `NoFileLeftBehind`, `NeverAborts`, `EveryCallReturns` | three slots, three names, room for two files, two tries |
| `HipcServerManager` | `TypeOK`, `LinkedOnce`, `PortsFitInMemory`, `RequestIsServed`, `ConnectionIsAccepted` | the manager of `caps:c`, two sessions, three session memories |
| `FsLibrary` | `TypeOK`, `AccessorsAccounted`, `FoundIsMounted`, `NeverAborts`, `NonePending`, refinement `TableSpec` | two threads, two names, three accessors, two handles |

What the less obvious ones say. `LimitIsKept` of `AlbumFiles`: the limit is compared
with a count that is 0 after start-up, so a storage may well exceed it; but no step
adds a file beyond the limit unless the count is behind the files, although some
steps lie between the check and the creation. It thus says nothing of the three ways
in which the count is wrong (0 after start-up, wrapped by a deletion, or what the
stack held in `RefreshCache`): nothing states what the count is to be, so these are
listed as hazards without a property. Likewise `RoomIsRespected` excepts room for no
entry, and `ScanIsComplete` scans that met a failure, whose `Success` a client
cannot tell from that of a complete one. `CopyIsFaithful`: a copy that answers
`Success` is equal to its source, whatever was there and whatever failed before and
however little each read returned, but for a flush that failed unnoticed.
`NeverUnmountedTwice`: the library aborts when it is to unmount a name it does not
have; the mounts without the mutex cannot bring the `AlbumManager` to that.
`EntryReadableWhileRegistered`: other applets may register, unregister and read in
any order, the entry stays readable for the application it was made for.
`IdsAreUnique`: each of its three exceptions is needed; a date that the local time
repeats, a second with more calls than numbers and a restart within a second each
lead to a duplicate. `PortsFitInMemory`: the loop aborts for want of memory only
when sessions opened for objects have taken what the ports leave; the connections of
the ports alone never do that. `RequestIsServed`: clients that keep sending cannot
starve another, because what was served goes to the end of the list.
`FoundIsMounted`: what a thread found in the table is still the accessor of that
name when it uses it.

Bounds. Two threads and two storages are the program's own numbers. Chains have at
most four calls, as in the program. Three chunks and a work memory of two give a
copy a first, a middle and a last turn, full ones, short ones and ones that move
nothing; four chunks are above the allowed size, and no chunk is a copy without a
turn. `Word` is the width at which counts wrap: 2 is enough for a decrement of 0.
Two resources let one application have two and the manager be full. Two ids a second
let the counter start, go on and run out; two offsets let the local time be put
back. Two files in five folders put them in one folder, in folders of one month, or
in different years, with nothing, one or exactly as many entries as there is room
for. Three slots with room for two files let two calls pass the check while a third
is counted, and be refused while it gives its count back; two tries are a first and
a last one. Three session memories for a port with two sessions leave one for an
object, so that it can be the last; there is one port, so that port against port is
covered by the proofs of the safety properties only. Three accessors for two names
let a mount that is rejected hold the third, and freed ones be used again. The runs explore all
reachable states of their instances.

`CHECK_DEADLOCK FALSE` is set only for the runs of `AlbumMount` with all commands
and of `OverlayThumbnailHolder`, whose threads may stop (an abort, or clients that
stop calling); a liveness property says what must happen instead.

Fairness. A thread that can run is run, and calls of the file system library return:
weak fairness of each thread's steps. A thread that waits for a mutex is not passed
over for ever: strong fairness of `Lock`, which the kernel's priority and arrival
order of waiters gives. Concretely: `AlbumMount` and `OverlayThumbnailHolder` state
it for each thread's steps and locks, `AlbumFiles` for the running command (and that
a read which is repeated for ever moves something again and again, since the loop of
`CopyFile` does not look at `read_size` and would never end on reads of 0 bytes; the
file system returns what it has up to the end of the file), `TemporaryFile` for each
slot, `HipcServerManager` for `LoopProcess`. Clients are not assumed to send
anything.

What the violated runs show:

* `AlbumMountRace`: `GenerateCurrentAlbumFileId` reaches `MountImageDirectory`
  without `g_AlbumMutex`. Both threads find the storage available, both call the
  library, and the second call ends in the `AMS_ABORT` of
  `capsrv_album_settings.cpp:219`.
* `OverlayThumbnailTorn`: nothing sets the status `Occupied` the reader waits for, so it reads the new file id with parts of the old image.
* `ApplicationRegistry`: an applet that was unregistered still has its resource,
  although the loop says "Clear field." (`capsrv_application_manager.cpp:78`); what
  it clears is the copy of line 74. When that is repaired the run ends in an applet that
  registers twice and has two resources, although the loop says "Find unused or own
  resource." (line 46): it looks at unused ones only. `SetShimLibraryVersion` loses the
  version it sets in a copy, too (line 119).

## 4. What is proved

The proofs hold for all values of the constants.

* `AlbumMountProofs!TypeCorrect`: `TypeOK`, for any threads and commands. It
  needs that a thread inside the library has one of the two storages as its
  target (`FsTarget`), and that every chain is a sequence of calls (`ChainType`).
* `AlbumMountProofs!StatusTrue`, `NoDoubleMount`, `ClosedRemains`,
  `ImplementsStorage` and `SavingMounted` assume `AllLocked`: no command in use is
  the one without the lock. The invariant `MountInv` adds to `StatusIsTrue` who
  holds the mutex (`MutexHeld`) and what a thread knows around the library's call
  (`InLibrary`): between `MountBegin` and `MountEnd` the storage is still available,
  and after the library's call it is in the mount table exactly if the call
  succeeded. `StatusIsTrue` alone is not inductive: it says nothing of a storage
  some thread is busy with, and could not be restored by `MountEnd`.
  `ImplementsStorage` shows that every step of `AlbumMount` is a step of
  `AlbumStorage` or none, under the mapping `AtomicStatus`: a call takes effect with
  the library's call. Without `AllLocked` `NeverMountedTwice` is false, as
  `AlbumMountRace` shows, and so is `StatusIsTrue`: a mount that failed may store
  its status over that of one that succeeded meanwhile.
* `AlbumMountProofs!FilesMounted`: `FilesOnMountedStorage`, for all commands, the
  unlocked one included, although two threads may then be mounting one storage. What
  remains true (`RaceInv`) is that only the owner of the mutex unmounts
  (`UnmountLocks`), that a status that says mounted is ahead of the mount table only
  while that owner is between the library's call and the store of the status, and
  that at most one thread inside the library has mounted a storage without having
  said so yet (`Raced`). With the shape of the chains (after an `Ensure` no call
  unmounts) each storage a locked command has ensured so far stays mounted
  (`Ensured`). `NoDoubleUnmount` (`NeverUnmountedTwice`) holds for all commands by
  the same invariant: the owner unmounts what its status says is mounted.
  `SavingMounted` follows from both invariants.
* `ApplicationAlbumManagerProofs!UniqueIds` and `CounterBounded`, about
  `AlbumFileIdGenerator`, which the module extends as well: ids are unique
  unless a local date is repeated, a second is used up or a restart falls into a
  second with ids. The invariant adds that nothing was issued for a later date than
  the current one, and that the ids issued for it are at most the counter and of the
  last timestamp.
* `AlbumFilesProofs!TypeCorrect`, `NoFragments`, `CopyFaithful`,
  `FailureKeepsOrDrops` and `LimitKept`, for any storages, files, limits and widths.
  The invariant follows a copy through its steps: when the target is about to be
  created the source is present (`SourcePresent`) and the check of the limit still
  holds (`RoomChecked`); up to the creation the target is what it was
  (`BeforeKept`); then it has the source's length and its chunks up to `offset`, and
  what was read fits in the rest (`PartCopied`); every other file that is not
  spoiled is whole (`FilesWhole`). `NoFragmentAtRest` alone says nothing while a
  copy runs, which is when it is in danger. The module also proves `StorageAgrees`,
  that in `AlbumStorage` status and mount table always agree.
* `AlbumDirectoryProofs!TypeCorrect`, `EntriesReportedOnce`, `ArrayRespected` and
  `NothingIsMissed`, for any folders, names and sizes. A file is *ahead* of the scan
  when its name, or that of a folder on the way to it, is unread in a folder that is
  open. The invariant says that what was reported is of the storage and the types
  asked for (`EntriesAreFiles`), is not ahead any more (`EntriesAreBehind`) and
  differs from the rest (`EntriesDiffer`), and that every file that must be reported
  was reported or is ahead (`NothingPassedOver`). `UnreadIsContents` and
  `PathIsValid` tie the unread names to the folders they were read from: without
  them entering or leaving a folder could put a reported file ahead again. When the
  scan ends nothing is ahead. `TypeOK` of this module is proved only: no run names
  it.
* `HipcServerManagerProofs!TypeCorrect`, `EveryHolderLinked` and
  `AbortNeedsObjects`, for any ports, limits and session memory. The invariant takes
  `LinkedOnce` apart (`Apart`): the list, the holders waiting to be moved to it and
  the one in hand are disjoint, without repetition, and together the ports and the
  live sessions; each handler moves one holder from one of the three to another.
  `Counted` says that the kernel's count of a port is its backlog and its sessions,
  so that a port's sessions never exceed its limit; summing over the ports bounds
  the sessions that are not objects (`AbortedFull` records what the abort saw).
* `OverlayThumbnailHolderProofs!TypeCorrect`, `ReadRecent` and `AtRest`. The
  invariant says that every chunk in the buffer is of the last write that began, or,
  behind the writer, of the one before (`Written`); that the reader holds the mutex
  while it copies, and nobody else does (`ReaderHolds`); and that what it has copied
  is of the last write that had ended or of the one under way (`PartRead`).
* `ApplicationAlbumManagerProofs!TypeCorrect`, `ReadableWhileRegistered` and
  `IsPrivate`. The used resources are a prefix (`UsedIsPrefix`), their ids
  are set (`AruidsAreSet`), their keys differ (`KeysApart`), and an entry in a
  client's hands carries the key of the first resource of its application
  (`HeldIsSealed`, with the exception of the id 0).
* `FsLibraryProofs!NothingLeaks`, `FoundStaysMounted`, `ParentStaysMounted`,
  `NoAbort`, `NoneHasNothingPending`, `TypeCorrect`, and `ImplementsTable`. The
  invariant ties the accessors to the table and the calls in progress
  (`AccessorsAccounted`, `MountsApart`), the calls that need the mutex to its holder
  (`CallsAreLocked`), and the open files to their mounted parent (`OpenedIsOpen`,
  `ParentIsMounted`); no part is inductive without the others: `Unmount` is harmless
  only because the holder of the mutex has closed its files and no other thread is
  using what it found. `FailedState`, that `write_state` is `Failed` after a write
  that failed for good, is why closing a file never aborts.
* `TemporaryFileProofs!CountExact`, `LimitKept`, `NothingLeftBehind`, `NoAbort` and
  `TypeCorrect`, for any number of slots. The counter is the number of slots between
  increment and decrement. `FewPassed`, that fewer than `Limit` of them passed the
  check, is inductive because the one that checks counted itself before and every
  one that passed is counted. `OwnCountRead` is why the assertion of `Delete` holds:
  the slot read the counter while it was counted itself.

Assumptions. The proofs use the named assumptions on constants: bounds are
naturals, the sets counted are finite, `None` is none of the values it stands
beside. TLC evaluates each of them.

Only model-checked: the liveness properties (`EveryRequestIsAnswered`,
`EveryCommandEnds`, both `EveryCallReturns`, `RequestIsServed`,
`ConnectionIsAccepted`): fairness and `ENABLED` are out of the prover's reach. Every
invariant, action property and refinement of a passing run is the statement of a
theorem.

## 5. What is not modelled

* Commands without a body (`LoadJpeg`, `SaveScreenshotFile`, `GetAlbumUsage`,
  `ListApplicationEntries`, the `LoadAlbumScreenShot...` family) and those that are
  `AMS_ABORT("Not implemented")`, among them most of `caps:u` and all stream
  sessions: they change no state.
* The custom SD card directory of debug units: `MountAlbum` aborts there.
* `crypto`: keys and ciphers have no state that matters; what the modules rely on
  is that different keys give unrelated results.
* `image` and `video`: parsers of untouched input, which nothing calls.
* `GenerateStreamId`, which reads and stores an atomic counter in two steps:
  nothing calls it. `AlbumReserve::Reserve`: likewise. `MovieController` and
  `OutputStream` have no bodies.
* `AlbumSettings`: flags read once at start-up. `LoadMakerNoteInfoForDebug` switches
  the verification of screenshots off and on again without `g_AlbumMutex`
  (`hipc/capsrv_album_accessor_service.cpp:361`); what reads the flag has no body
  yet.
* `Verify` and the paths made of file ids: conversions without state. That month 0
  passes (`capsrv_types.cpp:152`) is part of `FromString` in `AlbumDirectory`.
* Of the service framework: domains, mitm servers, deferred requests and
  `RequestStop`, which this program does not use. Of the file system library:
  directories, queries that change no state, and the storages below.
* The rest of `src/Atmosphere-libs`: the repository vendors a whole framework (a
  kernel, a boot loader, content management, cryptography and more, over a thousand
  files), nearly all of which `capsrv` never calls. Its locks, condition variables
  and threads appear as the steps of the modules. It is by far most of the lines
  under `src`, so the modules cover a small share of these although they cover what
  `capsrv/source` decides.

## 6. Plan

Done first, because every command depends on it: the storages and their atomic
promise, then the files, the thumbnails, the applications, the ids and the scan;
then the framework below them, the service loop and the file system library, the
temporary files, and the proofs. What is left:

1. `AlbumFileName`: `Verify`, paths and `FromString` against each other.
2. `AlbumSettings`: start-up by firmware version and the debug toggle, once a
   command reads it.
3. The movie controller, its streams and `AlbumReserve`, once they have bodies; they
   compose `TemporaryFile`.
