---------------------------- MODULE MCStorageKeys ----------------------------
(***************************************************************************)
(* An instance of StorageKeys for TLC: keys are made at most twice, two    *)
(* update PINs, and the three salts that let a fresh one be chosen.        *)
(***************************************************************************)
EXTENDS StorageKeys, TLC

MCSalts == Permutations(Salts)
=============================================================================
