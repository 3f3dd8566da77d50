-------------------------- MODULE MCRecordService --------------------------
(***************************************************************************)
(* Values for TLC.  Tuners, and what is tuned to, are interchangeable.     *)
(***************************************************************************)
EXTENDS RecordService, TLC

Symmetry == Permutations(Tuners) \cup Permutations(Ids)

=============================================================================
