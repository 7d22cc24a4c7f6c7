---------------------- MODULE MCOverlayThumbnailHolder ----------------------
(* OverlayThumbnailHolder for TLC. *)
EXTENDS OverlayThumbnailHolder

CONSTANTS Screenshot, Movie

MCKind == {Screenshot, Movie}

=============================================================================
