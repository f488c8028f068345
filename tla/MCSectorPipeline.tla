-------------------------- MODULE MCSectorPipeline --------------------------
(***************************************************************************)
(* An instance of SectorPipeline for TLC: up to six sectors, so that each  *)
(* buffer is used again and again, and three stages that are late.         *)
(***************************************************************************)
EXTENDS SectorPipeline
=============================================================================
