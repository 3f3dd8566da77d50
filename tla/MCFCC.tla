------------------------------- MODULE MCFCC -------------------------------
(***************************************************************************)
(* Values for TLC: a bouquet of three services that can be prepared, two   *)
(* of them on one channel, one on a USB tuner, and a radio service.        *)
(***************************************************************************)
EXTENDS FCCSupport

CONSTANTS a, b, b2, c, d, r, x, y

MCChannelID == [s \in Services |-> IF s \in {"A", "B"} THEN x ELSE y]

MCRef == [n \in Names |-> CASE n = a -> "A"
                            [] n \in {b, b2} -> "B"
                            [] n = c -> "C"
                            [] n = d -> "D"
                            [] OTHER -> "R"]

MCBouquet == SelectSeq(<<a, b, r, c, d>>, LAMBDA n : n \in Names)
=============================================================================
