--------------------------- MODULE MCVolumeAccess ---------------------------
(***************************************************************************)
(* An instance of VolumeAccess for TLC: two hidden volumes beside the      *)
(* encrypted one, transfers of two sectors, so that a command can come     *)
(* before, between and after the sectors.                                  *)
(***************************************************************************)
EXTENDS VolumeAccess
=============================================================================
