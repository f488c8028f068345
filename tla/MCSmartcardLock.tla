--------------------------- MODULE MCSmartcardLock ---------------------------
(***************************************************************************)
(* An instance of SmartcardLock for TLC.  The leases keep the order they   *)
(* have in the code: Clear < Normal < PowerOn < Long < AnswerTime.         *)
(***************************************************************************)
EXTENDS SmartcardLock
=============================================================================
