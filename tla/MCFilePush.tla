----------------------------- MODULE MCFilePush -----------------------------
(***************************************************************************)
(* A small playback for TLC: a file of up to two and a half blocks that    *)
(* grows while it is played, a buffer that is no whole number of blocks    *)
(* and larger than a short read, a span that one read or two fill, and     *)
(* seeks into the middle of the second block, which go forward and back.   *)
(***************************************************************************)
EXTENDS FilePush

MCTargets == {3}
=============================================================================
