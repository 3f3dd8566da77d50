----------------------------- MODULE MCShutdown -----------------------------
(***************************************************************************)
(* Values for TLC, in minutes.  When a ends, b is running or due; c is a   *)
(* zap beside them, the next recording at the edge of what the box waits   *)
(* for, or one that leaves the time to go down and up again.               *)
(***************************************************************************)
EXTENDS Shutdown

CONSTANTS a, b, c

Rec(begin, end, after) ==
    [begin |-> begin, end |-> end, zap |-> FALSE, after |-> after]

Zap(begin) == [begin |-> begin, end |-> begin, zap |-> TRUE, after |-> "none"]

MCPlans ==
    {[t \in Timers |-> CASE t = a -> x [] t = b -> y [] OTHER -> z] :
        x \in {Rec(2, 4, after) : after \in {"standby", "deep"}},
        y \in {Rec(3, 11, "none"), Rec(5, 8, "deep")},
        z \in {Zap(7), Rec(13, 15, "auto"), Rec(18, 20, "auto")}}
=============================================================================
