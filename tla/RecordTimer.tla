---------------------------- MODULE RecordTimer ----------------------------
(***************************************************************************)
(* The record timer of the box: class Timer (timer.py), class RecordTimer  *)
(* (RecordTimer.py), the recordings eNavigation holds for it, timers.xml   *)
(* and the screens that change timers.                                     *)
(*                                                                         *)
(* Everything runs in the main loop, so a handler is never interleaved     *)
(* with another one, but handlers call each other: addTimerEntry calls     *)
(* calcNextActivation, which activates timers, which re-adds repeated      *)
(* ones, which calls calcNextActivation again.  todo is that call stack: a *)
(* frame per call still to be finished, the innermost first.  The main     *)
(* loop dispatches an event only when todo is empty.                       *)
(***************************************************************************)
EXTENDS TimerEntry, Sequences

CONSTANTS
    Timers,        \* the identities of timer entries
    NoTimer,       \* in a frame or a dialog that is about no timer
    Service,       \* Service[t]: the service t records
    MaxWaitTime,   \* Timer.MaxWaitTime (100 in the code)
    AutoIncrease,  \* autoincreasetime (a day in the code)
    Lead,          \* seconds kept free before a conflicting timer (30)
    Templates,     \* what a user enters for a timer
    UserOps,       \* the operations the user has
    SwitchType,    \* may an edit turn a recording into a zap, or back?
    Faults,        \* the ways an activation fails
    Budget,        \* how many faults, clock jumps, crashes, user operations
    Settings,      \* what the clock may be set to
    MaxTime        \* where the clock of the model stops

VARIABLES
    now,              \* wall clock, time()
    wait,             \* seconds until the eTimer fires, on its own clock
    lastActivation,
    entry,            \* entry[t]: the fields of t
    timer_list,
    processed_timers,
    recordings,       \* recordings[t]: services of t in m_recordings
    todo,             \* the call stack
    dialog,           \* a screen that will call back
    file,             \* timers.xml
    left              \* what is left of Budget

clockVars == <<now, wait, lastActivation>>
listVars  == <<entry, timer_list, processed_timers, todo>>
vars == <<clockVars, listVars, recordings, dialog, file, left>>

AllOps == {"record", "retry", "instant", "remove", "edit", "toggle",
           "conflict", "cleanup", "setend", "shutdown"}
AllFaults == {"noservice", "prepare", "start"}
Off == -1                \* the eTimer is not running

TemplateType ==
    [begin: Int, end: Int, repeated: SUBSET (0..WeekLength - 1),
     justplay: BOOLEAN]

ASSUME TimerAssumption ==
    /\ NoTimer \notin Timers
    /\ MaxWaitTime \in Nat \ {0}
    /\ AutoIncrease \in Nat \ {0} /\ Lead \in Nat
    /\ Templates \subseteq TemplateType
    /\ UserOps \subseteq AllOps /\ Faults \subseteq AllFaults
    /\ SwitchType \in BOOLEAN
    /\ Budget \in [{"fault", "jump", "crash", "user"} -> Nat]
    /\ MaxTime \in Nat /\ Settings \subseteq Int

Frame(op, t, n, rest) == [op |-> op, t |-> t, n |-> n, rest |-> rest]
Calc == Frame("calc", NoTimer, 0, <<>>)

\* Mutant: dosave is not honoured.
SaveForgotten == <<>>
Save == <<Frame("save", NoTimer, 0, <<>>), Frame("write", NoTimer, 0, <<>>)>>
BootFrame == Frame("boot", NoTimer, 0, <<>>)

SavedTimer ==
    [t: Timers, begin: Int, end: Int, repeated: SUBSET (0..WeekLength - 1),
     disabled: BOOLEAN, justplay: BOOLEAN]

\* timers.xml: intact until it is truncated, and again once it is written.
Holding(timers) == [intact |-> TRUE, timers |-> timers]
Truncated == [intact |-> FALSE, timers |-> <<>>]

NoDialog == [kind |-> "none", t |-> NoTimer]
Open(kind, t) == [kind |-> kind, t |-> t]

Idle == todo = <<>>
Top == Head(todo)
Rest == Tail(todo)
In(op) == todo # <<>> /\ Top.op = op

Members(list) == {list[i] : i \in DOMAIN list}
Known == Members(timer_list) \cup Members(processed_timers)
Least(x, y) == IF x < y THEN x ELSE y
NextActivation(t) == GetNextActivation(entry[t])

Spend(what) == left[what] > 0 /\ left' = [left EXCEPT ![what] = @ - 1]
Fault(kind) == kind \in Faults /\ Spend("fault")

\* list.insert at position p (after the first p elements).
InsertAfter(list, p, t) ==
    [i \in 1..Len(list) + 1 |->
        IF i <= p THEN list[i] ELSE IF i = p + 1 THEN t ELSE list[i - 1]]

\* list.remove(t).
RemoveTimer(list, t) ==
    IF t \notin Members(list) THEN list
    ELSE LET at == CHOOSE i \in DOMAIN list :
                     list[i] = t /\ \A j \in 1..i - 1 : list[j] # t
         IN  [i \in 1..Len(list) - 1 |->
                IF i < at THEN list[i] ELSE list[i + 1]]

\* The entries of list that are in keep, in the order they have there: the one
\* sequence of them, as a set.
Selections(list, keep) ==
    LET places == {i \in DOMAIN list : list[i] \in keep}
        orders == { f \in UNION {[1..n -> places] : n \in 0..Len(list)} :
                      /\ \A i, j \in DOMAIN f : i < j => f[i] < f[j]
                      /\ \A p \in places : \E i \in DOMAIN f : f[i] = p }
    IN  {[i \in DOMAIN f |-> list[f[i]]] : f \in orders}

\* Where bisect.insort may put an entry with this key: the binary search ends
\* between a smaller or equal and a larger one, even when list is not sorted.
InsertPoints(list, key) ==
    { p \in 0..Len(list) :
        /\ p = 0 \/ NextActivation(list[p]) <= key
        /\ p = Len(list) \/ key < NextActivation(list[p + 1]) }

\* The frames of the call stack: what each is about, the second or the place in
\* a list it is at, and the timers it still has to look at.
Frames ==
         [op: {"calc", "process", "save", "write", "boot"}, t: {NoTimer},
          n: Int, rest: {<<>>}]
    \cup [op: {"extend", "load"}, t: {NoTimer}, n: Nat \ {0}, rest: {<<>>}]
    \cup [op: {"rearm"}, t: {NoTimer}, n: Int, rest: Seq(Timers)]
    \cup [op: {"limit"}, t: {NoTimer}, n: Int, rest: Seq(Timers) \ {<<>>}]
    \cup [op: {"add", "edited", "remove", "activate", "retime"}, t: Timers,
          n: Int, rest: {<<>>}]

Dialogs ==
         [kind: {"none"}, t: {NoTimer}]
    \cup [kind: {"edited", "conflict", "added", "refused", "choice"}, t: Timers]

TypeOK ==
    /\ now \in Int
    /\ wait \in Nat \cup {Off}
    /\ lastActivation \in Int
    /\ entry \in [Timers -> Entries]
    /\ timer_list \in Seq(Timers)
    /\ processed_timers \in Seq(Timers)
    /\ recordings \in [Timers -> Int]
    /\ todo \in Seq(Frames)
    /\ dialog \in Dialogs
    /\ file \in [intact: BOOLEAN, timers: Seq(SavedTimer)]
    /\ left \in [{"fault", "jump", "crash", "user"} -> Nat]

-----------------------------------------------------------------------------
(***************************************************************************)
(* Lists of timers.  In the operators below e is the entry of t as the     *)
(* caller has changed it, active and processed are the lists without t,    *)
(* and k is the stack to return to.                                        *)
(***************************************************************************)

\* insort(self.timer_list, entry)
Enqueue(t, e, active, k) ==
    /\ \E p \in InsertPoints(active, GetNextActivation(e)) :
         timer_list' = InsertAfter(active, p, t)
    /\ entry' = [entry EXCEPT ![t] = e]
    /\ todo' = k

\* Mutant: the state is left as it was.
RetireKeepsState(t, e, processed, k) ==
    /\ \E p \in InsertPoints(processed, GetNextActivation(e)) :
         processed_timers' = InsertAfter(processed, p, t)
    /\ entry' = [entry EXCEPT ![t] = e]
    /\ todo' = k

\* insort(self.processed_timers, entry), then entry.state = StateEnded
Retire(t, e, processed, k) ==
    /\ \E p \in InsertPoints(processed, GetNextActivation(e)) :
         processed_timers' = InsertAfter(processed, p, t)
    /\ entry' = [entry EXCEPT ![t] = [e EXCEPT !.state = StateEnded]]
    /\ todo' = k

\* Mutant: a disabled timer is enqueued like any other.
AlreadyPassedOrEnded(e) == ShouldSkip(e, now) \/ e.state = StateEnded

AlreadyPassed(e) ==
    \/ ShouldSkip(e, now)
    \/ e.state = StateEnded
    \/ e.state = StateWaiting /\ e.disabled

\* if not noRecalc: self.calcNextActivation()
Recalc(k, noRecalc) == IF noRecalc THEN k ELSE <<Calc>> \o k

AddTimerEntry(t, e, active, processed, k, noRecalc) ==
    \E x \in ProcessRepeated(e, now, TRUE) :
      IF AlreadyPassed(x)
      THEN Retire(t, x, processed, k) /\ timer_list' = active
      ELSE /\ Enqueue(t, x, active, Recalc(k, noRecalc))
           /\ processed_timers' = processed

\* Timer.timeChanged
TimerTimeChanged(t, e, k) ==
    LET changed  == TimeChanged(e)
        ended    == e.state = StateEnded
        restored == IF ended THEN [changed EXCEPT !.state = StateWaiting]
                    ELSE changed
    IN  AddTimerEntry(t, restored,
          IF ended THEN timer_list ELSE RemoveTimer(timer_list, t),
          IF ended THEN RemoveTimer(processed_timers, t)
          ELSE processed_timers,
          k, FALSE)

-----------------------------------------------------------------------------
(***************************************************************************)
(* Activation of a timer: RecordTimer.doActivate.                          *)
(***************************************************************************)

\* The end of doActivate: t goes back into the list its new state calls for.
Requeue(t, e, k) ==
    LET active == RemoveTimer(timer_list, t)
    IN  IF e.state < StateEnded
        THEN Enqueue(t, e, active, k) /\ UNCHANGED processed_timers
        ELSE IF e.repeated # {}
        THEN \E x \in ProcessRepeated(e, now, TRUE) :
               AddTimerEntry(t, [x EXCEPT !.state = StateWaiting], active,
                             processed_timers, k, FALSE)
        ELSE Retire(t, e, processed_timers, k) /\ timer_list' = active

\* Mutant: one way through activate forgets to return True.
AdvanceUnlessStarting(e) ==
    IF e.state = StatePrepared THEN e ELSE [e EXCEPT !.state = @ + 1]

\* activate returned True: w.state += 1
Advance(e) == [e EXCEPT !.state = @ + 1]

\* recordService
TakeService(t) == recordings' = [recordings EXCEPT ![t] = @ + 1]

\* Mutant: stopRecordService is not called.
ReleaseForgotten(t) == UNCHANGED recordings

\* stopRecordService
ReleaseService(t) == recordings' = [recordings EXCEPT ![t] = @ - 1]

Skip(t, k) ==
    /\ ShouldSkip(entry[t], now)
    /\ Requeue(t, [entry[t] EXCEPT !.state = StateEnded], k)
    /\ UNCHANGED <<recordings, left>>

\* activate in StateWaiting: tryPrepare takes the tuner.
Prepare(t, k) ==
    LET e == entry[t]
        ready == Advance([e EXCEPT !.backoff = 0])
        refused == DoBackoff(e)
    IN  /\ e.state = StateWaiting /\ ~ShouldSkip(e, now)
        /\ \/ /\ e.justplay
              /\ Requeue(t, ready, k)
              /\ UNCHANGED <<recordings, left>>
           \/ /\ ~e.justplay
              /\ Requeue(t, [ready EXCEPT !.svc = TRUE], k)
              /\ TakeService(t)
              /\ UNCHANGED left
           \/ /\ ~e.justplay /\ Fault("noservice")
              /\ Requeue(t, [e EXCEPT !.svc = FALSE], k)
              /\ UNCHANGED recordings
           \/ /\ ~e.justplay /\ Fault("prepare")
              /\ Requeue(t, [refused EXCEPT !.svc = FALSE,
                               !.start_prepare = now + refused.backoff], k)
              /\ UNCHANGED recordings

\* activate in StatePrepared: the recording starts, or the box zaps.
Start(t, k) ==
    LET e == entry[t]
        refused == DoBackoff(e)
    IN  /\ e.state = StatePrepared
        /\ UNCHANGED recordings
        /\ \/ /\ e.cancelled \/ e.justplay \/ e.svc
              /\ Requeue(t, Advance(e), k)
              /\ UNCHANGED left
           \/ /\ ~e.cancelled /\ ~e.justplay /\ e.svc /\ Fault("start")
              /\ Requeue(t, [refused EXCEPT
                               !.begin = now + refused.backoff], k)

\* The ends setAutoincreaseEnd may compute: a day ahead, or shortly before a
\* timer the sanity check finds in the way.
ConflictEnds == {entry[u].begin - Lead : u \in Members(timer_list)}
AutoEnds == {now + AutoIncrease} \cup ConflictEnds

\* activate in StateRunning: prolong the recording or stop it.
Stop(t, k) ==
    LET e == entry[t]
        stopped == Advance(e)
        Finish ==
          \/ /\ e.justplay
             /\ Requeue(t, stopped, k)
             /\ UNCHANGED recordings
          \/ /\ ~e.justplay /\ e.svc
             /\ Requeue(t, [stopped EXCEPT !.svc = FALSE], k)
             /\ ReleaseService(t)
    IN  /\ e.state = StateRunning
        /\ UNCHANGED left
        /\ \/ ~e.autoincrease /\ Finish
           \/ /\ e.autoincrease
              /\ \E end \in AutoEnds :
                   IF end <= now THEN Finish
                   ELSE /\ Requeue(t, [e EXCEPT !.end = end], k)
                        /\ UNCHANGED recordings

DoActivate(t, k) ==
    /\ Skip(t, k) \/ Prepare(t, k) \/ Start(t, k) \/ Stop(t, k)
    /\ UNCHANGED <<clockVars, dialog, file>>

-----------------------------------------------------------------------------
(***************************************************************************)
(* Timer.calcNextActivation and Timer.processActivation, step by step.     *)
(***************************************************************************)

Process == Frame("process", NoTimer, now, <<>>)

CalcNextActivation ==
    /\ In("calc")
    /\ IF lastActivation > now
       THEN /\ todo' = <<Frame("rearm", NoTimer, 0, processed_timers)>> \o Rest
            /\ processed_timers' = <<>>
       ELSE /\ todo' = <<Process>> \o Rest
            /\ UNCHANGED processed_timers
    /\ UNCHANGED <<clockVars, entry, timer_list, recordings, dialog, file, left>>

\* After a step back of the clock every processed timer gets another chance.
ReEvaluate ==
    /\ In("rearm")
    /\ IF Top.rest = <<>>
       THEN /\ todo' = <<Process>> \o Rest
            /\ UNCHANGED <<entry, timer_list, processed_timers>>
       ELSE LET x == Head(Top.rest)
            IN  AddTimerEntry(x, ResetState(entry[x]), timer_list,
                  processed_timers,
                  <<[Top EXCEPT !.rest = Tail(@)]>> \o Rest, TRUE)
    /\ UNCHANGED <<clockVars, recordings, dialog, file, left>>

\* Mutant: a timer due in this very second is left for the next round.
HeadDueLater ==
    timer_list # <<>> /\ NextActivation(Head(timer_list)) < Top.n

\* Is the first entry of the list due for the loop of processActivation?
HeadDue ==
    timer_list # <<>> /\ NextActivation(Head(timer_list)) <= Top.n

ProcessActivation ==
    /\ In("process") /\ HeadDue
    /\ DoActivate(Head(timer_list), todo)

\* Mutant: the box only polls.
NextWakePollOnly == now + MaxWaitTime

\* The head of the list or the next poll, whichever comes first.
NextWake ==
    IF timer_list = <<>> THEN now + MaxWaitTime
    ELSE Least(NextActivation(Head(timer_list)), now + MaxWaitTime)

\* Mutant: a delay that has passed starts no timer.
DelayDropped(next) == IF next < now THEN Off ELSE next - now

\* eTimer::start takes a negative delay for 0.
Delay(next) == IF next < now THEN 0 ELSE next - now

\* The loop ends: setNextActivation.
SetNextActivation ==
    /\ In("process") /\ ~HeadDue
    /\ lastActivation' = now
    /\ wait' = Delay(NextWake)
    /\ todo' = Rest
    /\ UNCHANGED <<now, entry, timer_list, processed_timers, recordings,
                   dialog, file, left>>

\* A None record_service is started or stopped: the exception ends the box.
Fatal ==
    LET t == IF In("activate") THEN Top.t ELSE Head(timer_list)
        e == entry[t]
    IN  /\ In("activate") \/ (In("process") /\ HeadDue)
        /\ ~e.justplay /\ ~e.svc
        /\ \/ e.state = StatePrepared /\ ~e.cancelled
           \/ /\ e.state = StateRunning
              /\ e.autoincrease => \E end \in AutoEnds : end <= now
        /\ todo' = <<BootFrame>>
        /\ UNCHANGED <<clockVars, entry, timer_list, processed_timers,
                       recordings, dialog, file, left>>

-----------------------------------------------------------------------------
(***************************************************************************)
(* timers.xml: saveTimer truncates the file, then writes it; loadTimer     *)
(* reads it when the box starts.                                           *)
(***************************************************************************)

Truncate ==
    /\ In("save")
    /\ file' = Truncated
    /\ todo' = Rest
    /\ UNCHANGED <<clockVars, entry, timer_list, processed_timers, recordings,
                   dialog, left>>

SavedForm(t) ==
    [t |-> t, begin |-> entry[t].begin, end |-> entry[t].end,
     repeated |-> entry[t].repeated, disabled |-> entry[t].disabled,
     justplay |-> entry[t].justplay]

Write ==
    /\ In("write")
    /\ \E kept \in Selections(timer_list \o processed_timers,
                              {t \in Timers : ~entry[t].dontSave}) :
         file' = Holding([i \in DOMAIN kept |-> SavedForm(kept[i])])
    /\ todo' = Rest
    /\ UNCHANGED <<clockVars, entry, timer_list, processed_timers, recordings,
                   dialog, left>>

\* The box starts with empty lists; a file it cannot parse is moved away.
Boot ==
    /\ In("boot")
    /\ entry' = [t \in Timers |-> Blank]
    /\ timer_list' = <<>> /\ processed_timers' = <<>>
    /\ recordings' = [t \in Timers |-> 0]
    /\ dialog' = NoDialog
    /\ lastActivation' = now
    /\ wait' = MaxWaitTime
    /\ IF file.intact
       THEN UNCHANGED file /\ todo' = <<Frame("load", NoTimer, 1, <<>>)>>
       ELSE file' = Holding(<<>>) /\ todo' = <<>>
    /\ UNCHANGED <<now, left>>

\* TimerSanityCheck.doubleCheck
DoubleCheck(t, e) ==
    \E u \in Members(timer_list) :
      u = t \/ (entry[u].begin = e.begin /\ Service[u] = Service[t])

\* One round of loadTimer: a conflict is ignored, a double is dropped.  Which
\* timers conflict depends on the tuners: either answer is possible.
LoadTimer ==
    /\ In("load")
    /\ LET next == <<[Top EXCEPT !.n = @ + 1]>> \o Rest
           s == file.timers[Top.n]
           e == NewEntry(s.begin, s.end, s.repeated, s.disabled, s.justplay)
       IN  \/ /\ Top.n > Len(file.timers)
              /\ todo' = Rest
              /\ UNCHANGED <<entry, timer_list, processed_timers>>
           \/ /\ Top.n <= Len(file.timers)
              /\ AddTimerEntry(s.t, TimeChanged(e), timer_list,
                               processed_timers, next, FALSE)
           \/ /\ Top.n <= Len(file.timers) /\ DoubleCheck(s.t, e)
              /\ todo' = next
              /\ UNCHANGED <<entry, timer_list, processed_timers>>
    /\ UNCHANGED <<clockVars, recordings, dialog, file, left>>

-----------------------------------------------------------------------------
(***************************************************************************)
(* What the user does, on the remote control or a screen.  A dialog is     *)
(* modal: until it is answered there is no other operation, but the timer  *)
(* goes on.                                                                *)
(***************************************************************************)

UserTurn(op) ==
    /\ Idle /\ dialog = NoDialog
    /\ op \in UserOps /\ Spend("user")

\* The timers a list of conflicts may begin with: the check looks at the
\* enabled timers of timer_list and at the new one, and which of them conflict
\* depends on the tuners.
FirstInConflict(t) ==
    {u \in Members(timer_list) \cup {t} : ~entry[u].disabled}

\* The recordings in conflict that have no fixed end, in the order they are
\* shortened: any, as the conflict may be any.
Shortenable ==
    LET growing == {u \in Members(timer_list) : entry[u].autoincrease}
    IN  { list \in UNION {[1..n -> growing] : n \in 0..Len(timer_list)} :
            \A i, j \in DOMAIN list : list[i] = list[j] => i = j }

\* The calls finishedAdd and finishedEdit make for a timer that begins at
\* begin: recordings in its way are shortened, then next is called.
Shorten(begin, next) ==
    \E list \in Shortenable :
      todo' = IF list = <<>> THEN <<next>>
              ELSE <<Frame("limit", NoTimer, begin, list), next>>

\* finishedAdd, for a timer that is entered.
Record(t) ==
    /\ UserTurn("record") /\ t \notin Known
    /\ \E new \in Templates :
         /\ entry' = [entry EXCEPT ![t] =
              NewEntry(new.begin, new.end, new.repeated, FALSE, new.justplay)]
         /\ Shorten(new.begin, Frame("add", t, 0, <<>>))
    /\ UNCHANGED <<clockVars, timer_list, processed_timers, recordings,
                   dialog, file>>

\* startInstantRecording: begins now, has no fixed end unless it is in conflict,
\* and is not saved.
InstantRecord(t) ==
    /\ UserTurn("instant") /\ t \notin Known
    /\ \E end \in AutoEnds :
         /\ end > now
         /\ entry' = [entry EXCEPT ![t] =
              [NewEntry(now, end, {}, FALSE, FALSE) EXCEPT
                 !.dontSave = TRUE,
                 !.autoincrease = (end = now + AutoIncrease)]]
    /\ todo' = <<Frame("add", t, 0, <<>>)>>
    /\ UNCHANGED <<clockVars, timer_list, processed_timers, recordings,
                   dialog, file>>

\* A new timer nobody refers to any more; one of the lists keeps its entry.
Drop(t) ==
    /\ entry' = IF t \in Known THEN entry ELSE [entry EXCEPT ![t] = Blank]
    /\ todo' = Rest
    /\ UNCHANGED <<timer_list, processed_timers>>

\* RecordTimer.record: the timer is added, is ignored as a double, or is in
\* conflict and waits, with the list of conflicts, for an answer.
AddRecord ==
    LET t == Top.t
    IN  /\ In("add")
        /\ \/ /\ ~DoubleCheck(t, entry[t])
              /\ AddTimerEntry(t, TimeChanged(entry[t]), timer_list,
                               processed_timers, Save \o Rest, FALSE)
              /\ UNCHANGED dialog
           \/ Drop(t) /\ UNCHANGED dialog
           \/ /\ "retry" \in UserOps /\ ~entry[t].dontSave
              /\ \E u \in FirstInConflict(t) :
                   /\ dialog' = Open("refused", u)
                   /\ IF u # t THEN Drop(t)
                      ELSE /\ todo' = Rest
                           /\ UNCHANGED <<entry, timer_list, processed_timers>>
        /\ UNCHANGED <<clockVars, recordings, file, left>>

\* finishedAdd again, for the first timer of the list of conflicts.
RetryRecord ==
    /\ Idle /\ dialog.kind \in {"added", "refused"}
    /\ Shorten(entry[dialog.t].begin, Frame("add", dialog.t, 0, <<>>))
    /\ dialog' = NoDialog
    /\ UNCHANGED <<clockVars, entry, timer_list, processed_timers, recordings,
                   file, left>>

\* setAutoincreaseEnd(entry) with timeChanged, for the recordings in conflict.
LimitRecording ==
    LET x == Head(Top.rest)
        others == Tail(Top.rest)
        k == IF others = <<>> THEN Rest
             ELSE <<[Top EXCEPT !.rest = others]>> \o Rest
    IN  /\ In("limit")
        /\ \E end \in {Top.n - Lead} \cup ConflictEnds :
             IF entry[x].autoincrease /\ end > now
             THEN TimerTimeChanged(x, [entry[x] EXCEPT !.end = end], k)
             ELSE /\ todo' = k
                  /\ UNCHANGED <<entry, timer_list, processed_timers>>
        /\ UNCHANGED <<clockVars, recordings, dialog, file, left>>

\* Mutant: a recording without a fixed end keeps growing.
WithdrawKeepsGrowing(e) == [e EXCEPT !.repeated = {}]

\* "avoid re-enqueuing"
Withdraw(e) == [e EXCEPT !.repeated = {}, !.autoincrease = FALSE]

\* removeEntry: the timer is aborted and enqueued again, which ends it.
RemoveEntry(t) ==
    LET aborted == Abort(Withdraw(entry[t]), now)
        k == (IF aborted.dontSave THEN <<>>
              ELSE <<Frame("extend", NoTimer, 1, <<>>)>>)
             \o <<Frame("remove", t, 0, <<>>)>> \o Save
    IN  /\ UserTurn("remove") /\ t \in Known
        /\ IF aborted.state # StateEnded
           THEN TimerTimeChanged(t, aborted, k)
           ELSE /\ entry' = [entry EXCEPT ![t] = aborted]
                /\ todo' = k
                /\ UNCHANGED <<timer_list, processed_timers>>
        /\ UNCHANGED <<clockVars, recordings, dialog, file>>

\* "autoincrease instanttimer if possible": a loop over the live timer_list.
ExtendRecordings ==
    LET k == <<[Top EXCEPT !.n = @ + 1]>> \o Rest
    IN  /\ In("extend")
        /\ \/ /\ Top.n > Len(timer_list)
              /\ todo' = Rest
              /\ UNCHANGED <<entry, timer_list, processed_timers>>
           \/ /\ Top.n <= Len(timer_list)
              /\ LET x == timer_list[Top.n]
                 IN  IF ~entry[x].autoincrease
                     THEN /\ todo' = k
                          /\ UNCHANGED <<entry, timer_list, processed_timers>>
                     ELSE \E end \in AutoEnds :
                            IF end > now
                            THEN TimerTimeChanged(x,
                                   [entry[x] EXCEPT !.end = end], k)
                            ELSE /\ todo' = k
                                 /\ UNCHANGED <<entry, timer_list,
                                                processed_timers>>
        /\ UNCHANGED <<clockVars, recordings, dialog, file, left>>

\* processed_timers.remove: an entry that is not there ends the box.
RemoveProcessed ==
    /\ In("remove")
    /\ IF Top.t \in Members(processed_timers)
       THEN /\ processed_timers' = RemoveTimer(processed_timers, Top.t)
            /\ entry' = [entry EXCEPT ![Top.t] = Blank]
            /\ todo' = Rest
       ELSE /\ todo' = <<BootFrame>>
            /\ UNCHANGED <<entry, processed_timers>>
    /\ UNCHANGED <<clockVars, timer_list, recordings, dialog, file, left>>

\* Timer.cleanup
Cleanup ==
    /\ UserTurn("cleanup") /\ processed_timers # <<>>
    /\ processed_timers' \in
         Selections(processed_timers, {t \in Timers : entry[t].disabled})
    /\ entry' = [t \in Timers |->
         IF t \in Members(processed_timers) /\ ~entry[t].disabled
         THEN Blank ELSE entry[t]]
    /\ UNCHANGED <<clockVars, timer_list, recordings, todo, dialog, file>>

\* inputCallback and TimeDateInputClosed: a new end for an instant recording.
SetEnd(t) ==
    /\ UserTurn("setend") /\ t \in Known /\ entry[t].dontSave
    /\ \/ \E new \in Templates :
            TimerTimeChanged(t, [entry[t] EXCEPT !.autoincrease = FALSE,
                                                 !.end = new.end], <<>>)
       \/ TimerTimeChanged(t, [entry[t] EXCEPT !.end = now], <<>>)
    /\ UNCHANGED <<clockVars, recordings, dialog, file>>

\* Navigation.shutdown, then the box is off until it boots.
Shutdown ==
    /\ UserTurn("shutdown")
    /\ todo' = Save \o <<BootFrame>>
    /\ UNCHANGED <<clockVars, entry, timer_list, processed_timers, recordings,
                   dialog, file>>

\* TimerEntry.keyGo: the edit is made in place and saved at once.
KeyGo(t) ==
    /\ \E new \in Templates :
         /\ SwitchType \/ new.justplay = entry[t].justplay
         /\ entry' = [entry EXCEPT
              ![t].begin = new.begin, ![t].end = new.end,
              ![t].repeated = new.repeated, ![t].justplay = new.justplay,
              ![t].repeatedbegindate = IF new.repeated = {} THEN @
                                       ELSE new.begin]
    /\ todo' = Save
    /\ UNCHANGED <<clockVars, timer_list, processed_timers, recordings, file>>

EditTimer(t) ==
    /\ UserTurn("edit") /\ t \in Known
    /\ KeyGo(t)
    /\ dialog' = Open("edited", t)

\* finishedEdit, when the editor or the list of conflicts is left.
FinishEdit ==
    /\ Idle /\ dialog.kind \in {"edited", "conflict"}
    /\ Shorten(entry[dialog.t].begin, Frame("edited", dialog.t, 0, <<>>))
    /\ dialog' = NoDialog
    /\ UNCHANGED <<clockVars, entry, timer_list, processed_timers, recordings,
                   file, left>>

\* The end of finishedEdit: the timer is enqueued again, or there is a conflict
\* and the next answer is about the first timer of its list.
CheckEdited ==
    /\ In("edited")
    /\ \/ TimerTimeChanged(Top.t, entry[Top.t], Rest) /\ UNCHANGED dialog
       \/ /\ \E u \in FirstInConflict(Top.t) : dialog' = Open("conflict", u)
          /\ todo' = Rest
          /\ UNCHANGED <<entry, timer_list, processed_timers>>
    /\ UNCHANGED <<clockVars, recordings, file, left>>

\* leave_cancel: "Timeredit aborted".
Abandon ==
    /\ Idle /\ dialog.kind \in {"conflict", "refused"}
    /\ entry' = IF dialog.t \in Known THEN entry
                ELSE [entry EXCEPT ![dialog.t] = Blank]
    /\ dialog' = NoDialog
    /\ UNCHANGED <<clockVars, timer_list, processed_timers, todo, recordings,
                   file, left>>

\* A key on x, a timer of the list of conflicts; when the key is dealt with the
\* list is left with the timer it begins with.
OnConflict(x) ==
    /\ Idle /\ dialog.kind \in {"conflict", "refused"}
    /\ "conflict" \in UserOps /\ Spend("user")
    /\ x = dialog.t \/ x \in Members(timer_list)
    /\ dialog' = Open(IF dialog.kind = "conflict" THEN "edited" ELSE "added",
                      dialog.t)

\* toggleTimer1 and toggleTimer2
ToggleConflict(x) ==
    /\ OnConflict(x)
    /\ entry[x].disabled \/ entry[x].state # StateRunning
    /\ entry' = [entry EXCEPT ![x].disabled = ~@]
    /\ UNCHANGED <<clockVars, timer_list, processed_timers, todo, recordings,
                   file>>

\* editTimer1 and editTimer2
EditConflict(x) == OnConflict(x) /\ KeyGo(x)

\* toggleDisabledState
ToggleDisabledState(t) ==
    LET e == entry[t]
        enabled == [e EXCEPT !.disabled = FALSE]
    IN  /\ UserTurn("toggle") /\ t \in Known
        /\ \/ /\ e.disabled /\ ~DoubleCheck(t, enabled)
              /\ TimerTimeChanged(t, enabled, <<>>)
              /\ UNCHANGED dialog
           \/ /\ e.disabled /\ DoubleCheck(t, enabled)
              /\ TimerTimeChanged(t, e, <<>>)
              /\ UNCHANGED dialog
           \/ /\ e.disabled
              /\ TimerTimeChanged(t, e, <<>>)
              /\ \E u \in FirstInConflict(t) \cup {t} :
                   dialog' = Open("conflict", u)
           \/ /\ ~e.disabled /\ e.state = StateRunning
              /\ TimerTimeChanged(t, e, <<>>)
              /\ dialog' = IF e.repeated = {} THEN NoDialog
                           ELSE Open("choice", t)
           \/ /\ ~e.disabled /\ e.state # StateRunning
              /\ TimerTimeChanged(t, [e EXCEPT !.disabled = TRUE], <<>>)
              /\ UNCHANGED dialog
        /\ UNCHANGED <<clockVars, recordings, file>>

\* runningEventCallback: n = 1 in a frame stands for t.disable().
RunningEventCallback ==
    LET t == dialog.t
        Activate == Frame("activate", t, 0, <<>>)
        Retime(n) == Frame("retime", t, n, <<>>)
    IN  /\ Idle /\ dialog.kind = "choice"
        /\ \/ \E n \in {0, 1}, x \in
                ProcessRepeated([entry[t] EXCEPT !.disabled = FALSE], now,
                                FALSE) :
                /\ entry' = [entry EXCEPT ![t] = x]
                /\ todo' = <<Activate, Retime(n)>>
           \/ todo' = <<Retime(1)>> /\ UNCHANGED entry
           \/ UNCHANGED <<entry, todo>>
        /\ dialog' = NoDialog
        /\ UNCHANGED <<clockVars, timer_list, processed_timers, recordings,
                       file, left>>

ActivateChosen == In("activate") /\ DoActivate(Top.t, Rest)

RetimeChosen ==
    LET e == entry[Top.t]
    IN  /\ In("retime")
        /\ TimerTimeChanged(Top.t,
             IF Top.n = 1 THEN [e EXCEPT !.disabled = TRUE] ELSE e, Rest)
        /\ UNCHANGED <<clockVars, recordings, dialog, file, left>>

-----------------------------------------------------------------------------
(***************************************************************************)
(* Time, and what happens to the box.                                      *)
(***************************************************************************)

\* The clocks run on, also while a handler runs.
Tick ==
    /\ now < MaxTime
    /\ now' = now + 1
    /\ wait' = IF wait > 0 THEN wait - 1 ELSE wait
    /\ UNCHANGED <<lastActivation, listVars, recordings, dialog, file, left>>

\* The wall clock is set, from the transponder or by hand; the eTimer counts
\* on a clock of its own.
SetClock ==
    /\ Idle /\ Spend("jump")
    /\ now' \in Settings \ {now}
    /\ UNCHANGED <<wait, lastActivation, listVars, recordings, dialog, file>>

\* The eTimer (one shot) calls calcNextActivation.
Timeout ==
    /\ Idle /\ wait = 0
    /\ wait' = Off
    /\ todo' = <<Calc>>
    /\ UNCHANGED <<now, lastActivation, entry, timer_list, processed_timers,
                   recordings, dialog, file, left>>

\* Power fails: what is in memory is gone when the box boots again.
Crash ==
    /\ ~In("boot") /\ Spend("crash")
    /\ todo' = <<BootFrame>>
    /\ UNCHANGED <<clockVars, entry, timer_list, processed_timers, recordings,
                   dialog, file>>

Handler ==
    \/ CalcNextActivation \/ ReEvaluate \/ ProcessActivation
    \/ SetNextActivation \/ Fatal \/ Truncate \/ Write \/ Boot \/ LoadTimer
    \/ AddRecord \/ LimitRecording \/ ExtendRecordings \/ RemoveProcessed
    \/ CheckEdited \/ ActivateChosen \/ RetimeChosen

User ==
    \/ \E t \in Timers :
         \/ Record(t) \/ InstantRecord(t) \/ RemoveEntry(t) \/ SetEnd(t)
         \/ EditTimer(t) \/ ToggleDisabledState(t) \/ ToggleConflict(t)
         \/ EditConflict(t)
    \/ Cleanup \/ Shutdown \/ FinishEdit \/ Abandon \/ RetryRecord
    \/ RunningEventCallback

Next == Handler \/ User \/ Tick \/ SetClock \/ Timeout \/ Crash

Init ==
    /\ now = 0 /\ lastActivation = 0 /\ wait = MaxWaitTime
    /\ entry = [t \in Timers |-> Blank]
    /\ timer_list = <<>> /\ processed_timers = <<>>
    /\ recordings = [t \in Timers |-> 0]
    /\ todo = <<>> /\ dialog = NoDialog
    /\ file = Holding(<<>>)
    /\ left = Budget

Spec == Init /\ [][Next]_vars

\* The main loop always comes to the handler that is next, to the timer that
\* is due, and time goes on.
FairSpec == Spec /\ WF_vars(Handler \/ Timeout) /\ WF_vars(Tick)

=============================================================================
