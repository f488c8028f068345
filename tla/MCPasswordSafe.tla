--------------------------- MODULE MCPasswordSafe ---------------------------
(***************************************************************************)
(* An instance of PasswordSafe for TLC: two slots on the first page and    *)
(* one on the second; two words, which may change places, as may the two   *)
(* slots of a page.                                                        *)
(***************************************************************************)
EXTENDS PasswordSafe, TLC

CONSTANTS s1, s2, s3

MCSlots == {s1, s2, s3}
MCPage == [s \in MCSlots |-> IF s = s3 THEN 2 ELSE 1]
MCSymmetry == Permutations(Words) \union Permutations({s1, s2})
=============================================================================
