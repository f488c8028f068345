---------------------------- MODULE MCHiddenSlots ----------------------------
(***************************************************************************)
(* An instance of HiddenSlots for TLC: two slots, two passwords, random    *)
(* numbers for two initialisations and two volumes, so that a slot is set  *)
(* up again, or another one beside it, before and after new keys.          *)
(***************************************************************************)
EXTENDS HiddenSlots, TLC

MCPasswords == Permutations(Passwords)

\* The copy in RAM tells states apart only while it counts as decrypted: every action that reads
\* it otherwise has set it before.
MCView ==
  <<base, magic, salt, slots, card, active, IF active THEN <<key, ramSalt, ramSlots>> ELSE <<>>,
    pc, op, opened, drawn, volumes, latest>>
=============================================================================
