------------------------------- MODULE MCEPG -------------------------------
(***************************************************************************)
(* A small service for TLC: a unit of time is five minutes.                *)
(***************************************************************************)
EXTENDS EPGStore, TLC

MCSymmetry == Permutations(Objects)
=============================================================================
