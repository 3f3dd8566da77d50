--------------------------- MODULE MCRecordTimer ---------------------------
(***************************************************************************)
(* Small instances of RecordTimer: a day of four seconds, a week of two    *)
(* days, at most two timers, a handful of faults and user operations.      *)
(***************************************************************************)
EXTENDS RecordTimerProperties

CONSTANTS t1, t2,
          MaxFault, MaxJump, MaxCrash, MaxUser

MCBudget == [fault |-> MaxFault, jump |-> MaxJump, crash |-> MaxCrash,
             user |-> MaxUser]

\* The clock may be set to any time of the model, or only to one early enough
\* that the eTimer still fires before the model ends.
AllSettings == 0..MaxTime
EarlySettings == 0..MaxTime - MaxWaitTime

\* Both timers record the same service.
MCService == [t \in Timers |-> "channel"]

Single(b, e) == [begin |-> b, end |-> e, repeated |-> {}, justplay |-> FALSE]
Daily(b, e) == [Single(b, e) EXCEPT !.repeated = {0, 1}]
Weekly(b, e) == [Single(b, e) EXCEPT !.repeated = {1}]
Zap(b) == [Single(b, b) EXCEPT !.justplay = TRUE]

MixedTemplates == {Single(2, 4), Daily(3, 4)}
AllTemplates == {Single(2, 4), Weekly(3, 4), Zap(3)}
=============================================================================
