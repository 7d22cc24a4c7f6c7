-------------------------- MODULE MCControlService --------------------------
(* ApplicationAlbumManager and AlbumFileIdGenerator for TLC: two components *)
(* of the control service that share no state, so that it is enough to      *)
(* explore each while the other is as it was started.                       *)
EXTENDS ApplicationAlbumManager, AlbumFileIdGenerator

MCInit == Init /\ IdsInit

MCNext ==
  \/ Next /\ IdsInit /\ UNCHANGED idsVars
  \/ IdsNext /\ Init /\ UNCHANGED vars

MCSpec == MCInit /\ [][MCNext]_<< vars, idsVars >>

=============================================================================
