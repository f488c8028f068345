----------------------------- MODULE HotpService -----------------------------
(***************************************************************************)
(* What the HOTP counter of a slot promises, free of flash pages, tokens   *)
(* and power failures: a number that only grows, and codes handed out in   *)
(* its order.  A code is named by the counter value it is computed from.   *)
(*                                                                         *)
(* HotpCounter refines this module: see HotpCounter!Service.               *)
(***************************************************************************)
EXTENDS Integers

CONSTANTS
  Slots,     \* the HOTP slots
  Codes,     \* the codes, named by the counter value they are computed from
  Unknown    \* the counter of a slot that was never, or only half, programmed

VARIABLES
  value,     \* value[s]: the counter of slot s, or Unknown
  last,      \* last[s]: the code slot s handed out last
  times      \* times[s]: how often it has handed that code out

vars == <<value, last, times>>

Init ==
  /\ value = [s \in Slots |-> Unknown]
  /\ last  = [s \in Slots |-> -1]
  /\ times = [s \in Slots |-> 0]

\* The host programs the slot: the next code is c.
Program(s, c) ==
  /\ value' = [value EXCEPT ![s] = c]
  /\ last'  = [last EXCEPT ![s] = c - 1]
  /\ times' = [times EXCEPT ![s] = 0]

\* The counter moves on by one.
Advance(s) ==
  /\ value[s] # Unknown
  /\ value' = [value EXCEPT ![s] = @ + 1]
  /\ UNCHANGED <<last, times>>

\* Code c is handed out: a later one than ever before, or, once, the last one again.
Issue(s, c) ==
  /\ value[s] # Unknown
  /\ value[s] \in {c, c + 1}
  /\ c > last[s] \/ (c = last[s] /\ times[s] = 1)
  /\ last'  = [last EXCEPT ![s] = c]
  /\ times' = [times EXCEPT ![s] = IF c = last[s] THEN @ + 1 ELSE 1]
  /\ UNCHANGED value

\* Nothing is promised of the slot, nor remembered of it, until it is programmed again.
Forget(s) ==
  /\ value' = [value EXCEPT ![s] = Unknown]
  /\ last'  = [last EXCEPT ![s] = -1]
  /\ times' = [times EXCEPT ![s] = 0]

Next == \E s \in Slots : \/ Advance(s) \/ Forget(s)
                         \/ \E c \in Codes : Program(s, c) \/ Issue(s, c)

Spec == Init /\ [][Next]_vars
=============================================================================
