---------------------------- MODULE AlbumStorage ----------------------------
(***************************************************************************)
(* What capsrv promises about the album storages, with every call of the   *)
(* AlbumManager atomic: a storage is unmounted, available or mounted, its  *)
(* last_error is what a client is told while it is not available, and the  *)
(* file system's mount table agrees with that status at every moment.      *)
(* AlbumMount, where the calls take several steps of two threads, is shown *)
(* to implement this specification.                                        *)
(***************************************************************************)

CONSTANT Storage        \* the album storages: built-in memory and SD card

VARIABLES
  status,               \* Storage -> the MountStatus the AlbumManager keeps
  table                 \* the storages mounted in the file system library

vars == << status, table >>

MountState == {"unmounted", "available", "mounted"}
MountError == {"Success", "AlbumIsNotMounted", "AlbumPathNotFound"}
MountStatus == [state: MountState, last_error: MountError]

Unmounted(e) == [state |-> "unmounted", last_error |-> e]
Available    == [state |-> "available", last_error |-> "AlbumIsNotMounted"]
Mounted      == [state |-> "mounted",   last_error |-> "Success"]

(* The status before anything is known of the storages. *)
Initial == [s \in Storage |-> Unmounted("AlbumIsNotMounted")]

Init ==
  /\ status = Initial
  /\ table = {}

(* The storage is mounted on demand. *)
Open(s) ==
  /\ status[s].state = "available"
  /\ status' = [status EXCEPT ![s] = Mounted]
  /\ table' = table \cup {s}

(* The mount fails: either it may be tried again, or it is given up.       *)
OpenFails(s) ==
  /\ status[s].state = "available"
  /\ \E failed \in {Available} \cup {Unmounted(e) : e \in MountError \ {"Success"}} :
       status' = [status EXCEPT ![s] = failed]
  /\ UNCHANGED table

(* The storage is taken away until it is announced again. *)
Close(s) ==
  /\ status' = [status EXCEPT ![s] = Unmounted("AlbumIsNotMounted")]
  /\ table' = table \ {s}

(* The storage is unmounted and may be mounted again on demand. *)
Reset(s) ==
  /\ status' = [status EXCEPT ![s] = Available]
  /\ table' = table \ {s}

Next == \E s \in Storage : Open(s) \/ OpenFails(s) \/ Close(s) \/ Reset(s)

Spec == Init /\ [][Next]_vars

-----------------------------------------------------------------------------

TypeOK ==
  /\ status \in [Storage -> MountStatus]
  /\ table \subseteq Storage

(* A storage is in the mount table exactly when its status says so, and    *)
(* a client is told Success exactly then.                                  *)
Agreement ==
  \A s \in Storage :
    /\ s \in table <=> status[s].state = "mounted"
    /\ status[s].last_error = "Success" <=> status[s].state = "mounted"

=============================================================================
