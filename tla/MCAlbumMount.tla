---------------------------- MODULE MCAlbumMount ----------------------------
(* AlbumMount for TLC: the two server threads and the commands of their    *)
(* services.                                                               *)
EXTENDS AlbumMount

CONSTANTS SystemThread, ApplicationThread

MCThread == {SystemThread, ApplicationThread}

AccessorCommands ==
  {"GetAlbumMountResult", "GetAlbumFileCount", "StorageCopyAlbumFile",
   "GetRequiredStorageSpaceSizeToCopyAll", "GetAutoSavingStorage",
   "ForceAlbumUnmounted", "ResetAlbumMountStatus"}

(* NotifyAlbumStorageIsUnavailable makes the same call as                  *)
(* ForceAlbumUnmounted.                                                    *)
LockedControlCommands == {"NotifyAlbumStorageIsAvailable", "ForceAlbumUnmounted"}

(* All commands but the unlocked one. *)
LockedCommands ==
  [t \in MCThread |-> IF t = SystemThread THEN LockedControlCommands ELSE AccessorCommands]

(* All commands. *)
AllCommands ==
  [LockedCommands EXCEPT ![SystemThread] = @ \cup {"GenerateCurrentAlbumFileId"}]

=============================================================================
