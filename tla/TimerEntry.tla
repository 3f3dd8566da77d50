----------------------------- MODULE TimerEntry -----------------------------
(***************************************************************************)
(* One timer of the box: class TimerEntry of timer.py with what            *)
(* RecordTimerEntry (RecordTimer.py) overrides.  An entry is a record;     *)
(* each method is an operator from the entry before the call to the entry  *)
(* after it.  Times are whole seconds of the wall clock.                   *)
(***************************************************************************)
EXTENDS Integers

CONSTANTS
    PrepareTime,   \* prepare_time: seconds between start_prepare and begin
    BackoffFirst,  \* first delay of do_backoff (5 in the code)
    BackoffMax,    \* its ceiling (100 in the code)
    DayLength,     \* seconds of a day; no daylight saving change in between
    WeekLength,    \* days of a week
    MaxDays        \* how far ProcessRepeated looks ahead, in days

ASSUME EntryAssumption ==
    /\ PrepareTime \in Nat
    /\ BackoffFirst \in Nat \ {0}
    /\ BackoffMax \in Nat /\ BackoffMax >= BackoffFirst
    /\ DayLength \in Nat \ {0}
    /\ WeekLength \in Nat \ {0}
    /\ MaxDays \in Nat

StateWaiting  == 0
StatePrepared == 1
StateRunning  == 2
StateEnded    == 3

\* The fields of an entry: svc says whether record_service holds a service.
Entries ==
    [ begin: Int, end: Int, repeatedbegindate: Int, start_prepare: Int,
      state: StateWaiting..StateEnded, repeated: SUBSET (0..WeekLength - 1),
      backoff: Nat, disabled: BOOLEAN, cancelled: BOOLEAN,
      autoincrease: BOOLEAN, dontSave: BOOLEAN, justplay: BOOLEAN,
      svc: BOOLEAN ]

Weekday(x) == (x \div DayLength) % WeekLength
TimeOfDay(x) == x % DayLength

TimeChanged(e) ==
    [e EXCEPT !.start_prepare = e.begin - PrepareTime, !.backoff = 0]

ResetState(e) ==
    TimeChanged([e EXCEPT !.state = StateWaiting, !.cancelled = FALSE])

NewEntry(begin, end, repeated, disabled, justplay) ==
    ResetState(
      [ begin |-> begin, end |-> IF end < begin THEN begin ELSE end,
        repeatedbegindate |-> begin, start_prepare |-> 0,
        state |-> StateWaiting, repeated |-> repeated, backoff |-> 0,
        disabled |-> disabled, cancelled |-> FALSE, autoincrease |-> FALSE,
        dontSave |-> FALSE, justplay |-> justplay, svc |-> FALSE ])

\* The state of an entry nobody refers to any more.
Blank == NewEntry(0, 0, {}, FALSE, FALSE)

\* Mutant: a timer that records is skipped as well.
ShouldSkipAnyState(e, now) == e.end <= now

ShouldSkip(e, now) == e.end <= now /\ e.state = StateWaiting

Abort(e, now) ==
    [e EXCEPT !.end = now, !.begin = IF @ > now THEN now ELSE @,
              !.cancelled = TRUE]

\* Mutant: the delay stays as it is, 0 at first.
DoBackoffForgotten(e) == e

DoBackoff(e) ==
    [e EXCEPT !.backoff = IF @ = 0 THEN BackoffFirst
                          ELSE IF 2 * @ > BackoffMax THEN BackoffMax
                          ELSE 2 * @]

GetNextActivation(e) ==
    IF e.state = StateWaiting THEN e.start_prepare
    ELSE IF e.state = StatePrepared THEN e.begin
    ELSE e.end

\* Mutant: addOneDay adds 24 hours where the day has one more.
DaysDrift(k) == k * (DayLength - 1)

\* addOneDay, k times.
Days(k) == k * DayLength

\* The loop of processRepeated stops k days ahead of e.begin.
OccursOn(e, now, findRunningEvent, k) ==
    LET begin == e.begin + Days(k)
        end   == e.end + Days(k)
    IN  /\ Weekday(begin) \in e.repeated
        /\ e.repeatedbegindate <= begin
        /\ IF findRunningEvent THEN end > now ELSE begin > now

\* processRepeated: the entry moved to the first day it occurs on, as the set
\* of its possible results (one, unless MaxDays is too small).
ProcessRepeated(e, now, findRunningEvent) ==
    IF e.repeated = {} THEN {e}
    ELSE LET Moved(k) ==
               LET begin == e.begin + Days(k)
                   end   == e.end + Days(k)
               IN  TimeChanged(
                     [e EXCEPT !.begin = begin,
                               !.end = IF begin = end THEN end + 1 ELSE end])
         IN  { Moved(k) : k \in
                 { d \in 0..MaxDays :
                     /\ OccursOn(e, now, findRunningEvent, d)
                     /\ \A j \in 0..d - 1 :
                          ~OccursOn(e, now, findRunningEvent, j) } }

=============================================================================
