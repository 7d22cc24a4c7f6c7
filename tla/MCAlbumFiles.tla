---------------------------- MODULE MCAlbumFiles ----------------------------
(* AlbumFiles for TLC. *)
EXTENDS AlbumFiles

CONSTANTS Nand, Sd, f1, f2, Screenshot

MCStorage == {Nand, Sd}
MCType == {Screenshot}
OneFile == {f1}
TwoFiles == {f1, f2}
OneType == [f \in File |-> Screenshot]

(* A file somebody asks for is empty, takes some turns to copy, or is too  *)
(* large; of the others only the room they take matters.                   *)
Sizes(f) == IF f \in Asked THEN {0, AllowedFileSize, AllowedFileSize + 1} ELSE {1}

MCInit ==
  /\ Init
  /\ \A s \in Storage, f \in File :
       files[s][f] \in {Whole(v) : v \in Sizes(f)} \cup {Absent}

MCFairSpec == MCInit /\ [][Next]_vars /\ Fairness

=============================================================================
