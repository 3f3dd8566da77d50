----------------------- MODULE RecordTimerProperties -----------------------
(***************************************************************************)
(* What must be true of RecordTimer.                                       *)
(***************************************************************************)
EXTENDS RecordTimer

NoDuplicates(list) ==
    \A i, j \in DOMAIN list : list[i] = list[j] => i = j

\* The timers a step back of the clock took out of processed_timers and that
\* are not yet re-evaluated.
Pending == IF In("rearm") THEN Members(Top.rest) ELSE {}

\* A step in which the loop of processActivation ends.
Settles == In("process") /\ todo' = Rest

\* A timer is in one list at one place, and in the list its state calls for.
\* Timer.timeChanged (timer.py:234-245) picks the list it removes the timer
\* from by the state alone, and list.remove takes the first occurrence only.
ListsConsistent ==
    /\ NoDuplicates(timer_list) /\ NoDuplicates(processed_timers)
    /\ \A t \in Members(timer_list) : entry[t].state # StateEnded
    /\ \A t \in Members(processed_timers) : entry[t].state = StateEnded

\* eNavigation holds one recording service for each recording that is prepared
\* or running and none for anything else: no tuner is leaked, none is taken
\* twice, and a running recording is never without one (RecordTimer.py:177-317,
\* lib/nav/core.cpp:84-130).
ServiceMatchesState ==
    \A t \in Timers :
      /\ recordings[t] = IF entry[t].svc THEN 1 ELSE 0
      /\ entry[t].svc <=> /\ ~entry[t].justplay
                          /\ entry[t].state \in {StatePrepared, StateRunning}

\* timer_list is in the order insort relies on.
InOrder ==
    \A i, j \in DOMAIN timer_list :
      i < j => NextActivation(timer_list[i]) <= NextActivation(timer_list[j])

\* "now the timer should be in the processed_timers list" (RecordTimer.py:760):
\* whatever the nested activations did, the timer removeEntry removes has ended
\* there, and the timer a dialog was about is still where its callback looks
\* for it.  list.remove would otherwise raise, and the box would go down.  (It
\* does after an edit that was made in place and then abandoned: the list may
\* be out of order, with the removed timer behind one that is not due.)
RemoveFindsEntry ==
    /\ In("remove") /\ InOrder => Top.t \in Members(processed_timers)
    /\ In("activate") => Top.t \in Members(timer_list)
    /\ In("retime") \/ In("edited") => Top.t \in Known

\* The eTimer always runs when the main loop waits, at most MaxWaitTime from
\* now, and, as long as the clock was not set, never later than the next
\* activation of any timer (timer.py:202-232).
WakesInTime ==
    Idle =>
      /\ wait \in 0..MaxWaitTime
      /\ left.jump = Budget.jump =>
           \A t \in Members(timer_list) :
             wait = 0 \/ now + wait <= NextActivation(t)

\* What calcNextActivation leaves in timer_list lies in the future of the
\* moment it began at: "we keep on processing the first entry until it goes
\* into the future" (timer.py:280) leaves no due timer behind the first.  (No
\* screen is open, so no edit is waiting to be enqueued.)
NothingDueLeft ==
    [][Settles /\ dialog = NoDialog =>
         \A t \in Members(timer_list) : NextActivation(t) > Top.n]_vars

\* An activation that is refused is tried again later, not at once: "the timer
\* entry itself will fix up the delay then" (RecordTimer.py:474-476).
RefusalBacksOff ==
    [][left'.fault # left.fault =>
         LET t == IF In("activate") THEN Top.t ELSE Head(timer_list)
         IN  GetNextActivation(entry'[t]) > now]_vars

\* A repeated timer keeps its time of day through activations, failures, jumps
\* of the clock and restarts, unless it is edited: "check if the calculated
\* repeated time of day matches the initial time of day"
\* (tests/test_timer.py:64).
TimeOfDayKept ==
    [][\A t \in Timers :
         \/ entry[t].repeated = {} \/ entry'[t].repeated = {}
         \/ dialog = NoDialog /\ dialog' = Open("edited", t)
         \/ TimeOfDay(entry'[t].begin) = TimeOfDay(entry[t].begin)]_vars

\* A timer that is disabled takes no tuner, whether it waited, records or has
\* ended when it was disabled, unless it had one ready: the screens offer
\* "Disable" for that (TimerEdit.py:109, 448; timer.py:169).  (No screen is
\* open, so the change has been enqueued.)
DisabledNeverPrepared ==
    [][\A t \in Timers :
         (/\ dialog = NoDialog /\ entry[t].disabled
          /\ entry[t].state # StatePrepared)
           => entry'[t].state # StatePrepared]_vars

\* Whenever the main loop is waiting, a restart would bring back every timer
\* that is to be saved, with its end, its days and its type, although no
\* handler but record, removeEntry, keyGo and shutdown saves
\* (RecordTimer.py:537-625, TimerEntry.py:355).
SavedCoversKnown ==
    Idle => \A t \in Known :
      \/ entry[t].dontSave
      \/ \E i \in DOMAIN file.timers :
           LET s == file.timers[i]
           IN  /\ s.t = t /\ s.repeated = entry[t].repeated
               /\ s.justplay = entry[t].justplay
               /\ entry[t].repeated = {} => s.end = entry[t].end

\* Every handler returns to the main loop: processActivation's loop over the
\* head of the list, and the nested loops repeated timers cause, terminate.
HandlerReturns == ~Idle ~> Idle

\* Single timers whose end comes before the clock of the model stops.
EarlySingles ==
    {t \in Members(timer_list) :
        /\ entry[t].repeated = {} /\ ~entry[t].autoincrease
        /\ entry[t].end <= MaxTime - MaxWaitTime}

\* Single timers leave timer_list once their end has come, whatever their
\* state, and however the clock was set in between.
TimersEnd == EarlySingles # {} ~> EarlySingles = {}

PhaseOf ==
    [t \in Timers |->
       IF t \notin Known \cup Pending THEN "absent"
       ELSE IF entry[t].state = StateWaiting THEN "waiting"
       ELSE IF entry[t].state = StatePrepared THEN "prepared"
       ELSE IF entry[t].state = StateRunning THEN "running"
       ELSE "ended"]

Lifecycle == INSTANCE TimerLifecycle WITH phase <- PhaseOf, held <- recordings

\* The record timer keeps the promises of TimerLifecycle: the tuner is taken
\* and given back at the stages of a timer's life, whatever calls nest, fail or
\* come from a stale dialog.
FollowsLifecycle == Lifecycle!Spec

=============================================================================
