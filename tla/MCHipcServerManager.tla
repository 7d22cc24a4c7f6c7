------------------------ MODULE MCHipcServerManager ------------------------
(* HipcServerManager for TLC. *)
EXTENDS HipcServerManager

CONSTANT caps_c

MCServices == << caps_c >>

=============================================================================
