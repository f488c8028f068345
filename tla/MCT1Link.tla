------------------------------ MODULE MCT1Link ------------------------------
(***************************************************************************)
(* An instance of T1Link for TLC: commands of up to two blocks, answers of *)
(* up to three.                                                            *)
(***************************************************************************)
EXTENDS T1Link
=============================================================================
