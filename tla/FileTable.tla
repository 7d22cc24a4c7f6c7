----------------------------- MODULE FileTable -----------------------------
(***************************************************************************)
(* What the file system library promises its callers: a file system is     *)
(* mounted under a name or not, and a file that is open is open on a file  *)
(* system that is mounted. FsLibrary implements this with accessors that   *)
(* are allocated, found, used and freed in steps of their own.             *)
(***************************************************************************)
CONSTANTS Name, Handle, None

VARIABLES
  mounted,        \* the names that are mounted
  open            \* Handle -> the name a handle is open on, or None

vars == << mounted, open >>

TypeOK ==
  /\ mounted \subseteq Name
  /\ open \in [Handle -> Name \cup {None}]

Init ==
  /\ mounted = {}
  /\ open = [h \in Handle |-> None]

Mount(n) ==
  /\ n \notin mounted
  /\ mounted' = mounted \cup {n}
  /\ UNCHANGED open

(* A file system is unmounted only when nothing is open on it. *)
Unmount(n) ==
  /\ n \in mounted
  /\ \A h \in Handle : open[h] # n
  /\ mounted' = mounted \ {n}
  /\ UNCHANGED open

Open(h, n) ==
  /\ n \in mounted
  /\ open[h] = None
  /\ open' = [open EXCEPT ![h] = n]
  /\ UNCHANGED mounted

Close(h) ==
  /\ open[h] # None
  /\ open' = [open EXCEPT ![h] = None]
  /\ UNCHANGED mounted

Next ==
  \/ \E n \in Name : Mount(n) \/ Unmount(n)
  \/ \E h \in Handle : Close(h) \/ \E n \in Name : Open(h, n)

Spec == Init /\ [][Next]_vars

=============================================================================
