---------------------------- MODULE MCOtpSession ----------------------------
(***************************************************************************)
(* An instance of OtpSession for TLC: two HOTP slots, the second of them   *)
(* reserved, and two TOTP slots, the last of them without a place; two     *)
(* pages, with the first HOTP slot beside the configuration; one lock key. *)
(***************************************************************************)
EXTENDS OtpSession, TLC

CONSTANTS hotp0, reserved, totp0

MCPageNo == (hotp0 :> 1) @@ (reserved :> 1) @@ (totp0 :> 2)

\* No action reads the status of the last answer; the properties read the one that a step gives.
MCView == <<flash, ram, op, IF Idle THEN None ELSE status, code, host, behind>>
=============================================================================
