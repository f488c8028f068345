---------------------------- MODULE MCHotpCounter ----------------------------
(***************************************************************************)
(* An instance of HotpCounter for TLC: a slot that hands out codes and the *)
(* slot that verifies them, pages of three tokens.                         *)
(***************************************************************************)
EXTENDS HotpCounter, TLC

\* The host programs 0; pages then fill at 3 and 6, before MaxCounter.
MCSeeds == {0}

-----------------------------------------------------------------------------
(* What the code says of itself and does not do *)

\* "increment the counter for the lacking values, plus one to be ready for next
\* validation" (hotp.c:878): once a code is accepted the counter is past it.
ReadyForNextValidation ==
  op = Idle /\ ~torn[VerifySlot] /\ times[VerifySlot] > 0
    => last[VerifySlot] < Counter(VerifySlot)
=============================================================================
