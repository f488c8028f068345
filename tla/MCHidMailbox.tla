---------------------------- MODULE MCHidMailbox ----------------------------
(***************************************************************************)
(* An instance of HidMailbox for TLC.                                      *)
(***************************************************************************)
EXTENDS HidMailbox
=============================================================================
