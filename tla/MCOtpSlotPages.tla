--------------------------- MODULE MCOtpSlotPages ---------------------------
(***************************************************************************)
(* An instance of OtpSlotPages for TLC: two pages, with the configuration  *)
(* on the first, a slot on both, and a slot on the second.                 *)
(***************************************************************************)
EXTENDS OtpSlotPages, TLC

CONSTANTS config, straddling, second

MCCells == {config, straddling, second}
MCOn == (config :> {1}) @@ (straddling :> {1, 2}) @@ (second :> {2})
=============================================================================
