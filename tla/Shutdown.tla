------------------------------ MODULE Shutdown ------------------------------
(***************************************************************************)
(* How the box goes to standby and down, and comes up again for what is    *)
(* programmed: what a timer does when it ends (RecordTimer.py), the sleep  *)
(* timer, the notifications that wait for the infobar, the question of     *)
(* TryQuitMainloop (Screens/Standby.py), and the wake-up time that is set  *)
(* when the main loop has been left (mytest.py).                           *)
(*                                                                         *)
(* The timers are those of RecordTimer with one occurrence each; a second  *)
(* passes when nothing is due.  A handler that asks for the next recording *)
(* does not see what is due at this very moment: getNextRecordingTime      *)
(* compares with a clock that has gone past it.                            *)
(***************************************************************************)
EXTENDS Integers, Sequences, FiniteSetsExt

CONSTANTS
    Timers,
    Plans,      \* what is programmed: a set of functions on Timers
    SleepTimes, \* when the sleep timer ends, or None
    SleepAction, Ask,  \* config.SleepTimer
    Prepare,    \* 20 s
    Backoff,
    Question,   \* 20 s
    Soon,       \* 360 s
    NoLead,     \* 270 s
    Lead,       \* 240 s
    Restart,    \* 30 s
    BootTime,
    MaxUser, MaxFaults, MaxTime, \* bounds
    None

Plan == [begin : Nat, end : Nat, zap : BOOLEAN,
         after : {"none", "standby", "deep", "auto"}]

Questions == {"askStandby", "askDeep", "askSleep"}
TryQuit == {"quitYes", "quitNo"}  \* by the answer that is selected, at first the preset one
Screens == {"infobar", "menu", "standby"} \cup Questions \cup TryQuit
Answers == {"yes", "no", "left"}

ASSUME ShutdownAssumption ==
    /\ Plans \subseteq [Timers -> Plan]
    /\ \A p \in Plans : \A t \in Timers : p[t].begin >= Prepare
    /\ SleepTimes \subseteq Nat \cup {None}
    /\ SleepAction \in {"shutdown", "standby"} /\ Ask \in BOOLEAN
    /\ {Prepare, Backoff, Question, Soon, NoLead, Lead, Restart, BootTime} \subseteq Nat \ {0}
    /\ BootTime <= Lead /\ Lead + Restart <= NoLead /\ NoLead <= Soon
    /\ MaxUser \in Nat /\ MaxFaults \in Nat /\ MaxTime \in Nat
    /\ None \notin Nat \cup Screens \cup Answers

VARIABLES
    now,
    plan,
    sched,   \* stage and next activation of each timer
    sleep,   \* the sleep timer
    jobs,    \* are there any in the background?
    box,     \* on, off; booting, and starting: before the main loop runs
    ready,   \* when a box that is booting is up
    wakeup,  \* of the front processor
    byTimer, \* it has switched the box on
    auto,    \* isNextRecordTimerAfterEventActionAuto
    ui,      \* see below
    owed,    \* the recordings for which there has always been time
    user, faults

vars == <<now, plan, sched, sleep, jobs, box, ready, wakeup, byTimer, auto, ui,
          owed, user, faults>>
boxVars == <<box, ready, wakeup, byTimer, auto>>

(***************************************************************************)
(* The screens: a stack, the infobar at its bottom; the deadline of the    *)
(* topmost; the answer it was closed with, until the session has removed   *)
(* it; the notifications that wait; whether the static handler of          *)
(* RecordTimerEntry hears the recordings; and whether and why the main     *)
(* loop was told to end.                                                   *)
(***************************************************************************)
Blank == [screens |-> << >>, timeout |-> None, answer |-> None, notes |-> << >>,
          static |-> FALSE, quit |-> "no"]

Init ==
    /\ now = 0
    /\ plan \in Plans
    /\ sched = [t \in Timers |-> [stage |-> "waiting", due |-> plan[t].begin - Prepare]]
    /\ sleep \in SleepTimes /\ jobs \in BOOLEAN
    /\ box = "on" /\ ready = 0 /\ wakeup = None /\ byTimer = FALSE /\ auto = FALSE
    /\ ui = [Blank EXCEPT !.screens = <<"infobar">>]
    /\ owed = {t \in Timers : ~plan[t].zap}
    /\ user = 0 /\ faults = 0

On == box \in {"on", "starting"}

Over(x) == x # None /\ x <= now

(***************************************************************************)
(* What the record timer knows.                                            *)
(***************************************************************************)
Recording(t) == ~plan[t].zap

Listed(s) == {t \in Timers : s[t].stage # "ended"}

Due == {t \in Listed(sched) : sched[t].due <= now}

\* getRecordings
Held(s) == {t \in Timers : Recording(t) /\ s[t].stage \in {"prepared", "running"}}

\* getNextRecordingTime returns the first of these.
Upcoming(s) == {s[t].due : t \in {x \in Listed(s) : Recording(x) /\ s[x].due > now}}

Near(s) == \E x \in Upcoming(s) : x <= now + Soon

(***************************************************************************)
(* Screens.                                                                *)
(***************************************************************************)
Top(u) == IF u.screens = << >> THEN None ELSE Head(u.screens)

\* The topmost screen, unless it is being closed.
Shown(u) == IF u.answer = None THEN Top(u) ELSE None

InStandby(u) == Top(u) = "standby"

InTryQuit(u) == Shown(u) \in TryQuit

Push(u, x, limit) == [u EXCEPT !.screens = <<x>> \o @, !.timeout = limit]

Close(u, a) == [u EXCEPT !.answer = a, !.timeout = None]

Quits(u, why) == [u EXCEPT !.quit = IF @ = "no" THEN why ELSE @, !.timeout = None]

\* The question is asked if there is a reason.
OpenTryQuit(u, s, x) ==
    IF Held(s) # {} \/ Near(s) \/ jobs THEN Push(u, x, None) ELSE Quits(u, "idle")

\* The first notification is opened when the infobar is the topmost screen; the
\* one that stands for the static handler ends it.
CheckNotifications(u, s) ==
    IF Shown(u) # "infobar" \/ u.notes = << >> THEN u
    ELSE LET n == Head(u.notes)
             v == [u EXCEPT !.notes = Tail(@)]
             w == [v EXCEPT !.static = FALSE]
         IN CASE n \in Questions -> Push(v, n, now + Question)
              [] n = "standby" -> Push(v, n, None)
              [] n = "quit" -> OpenTryQuit(v, s, "quitYes")
              [] n = "later" -> OpenTryQuit(w, s, "quitYes")
              [] n = "boot" -> OpenTryQuit(w, s, "quitNo")

AddNotification(u, s, n) == CheckNotifications([u EXCEPT !.notes = Append(@, n)], s)

(***************************************************************************)
(* The recordings are heard by the question, when it is open, and by the   *)
(* static handler.                                                         *)
(***************************************************************************)
\* Mutant: the question does not hear them.
GotEndDeaf(u, s) ==
    IF Held(s) # {} \/ Near(s) \/ ~u.static THEN u ELSE Quits(u, "idle")

\* Mutant: other recordings are not looked at.
GotEndBlind(u, s) ==
    IF ~Near(s) /\ (u.static \/ InTryQuit(u)) THEN Quits(u, "idle") ELSE u

\* evEnd: with nothing more to record the box goes down; the question waits
\* for the next recording.
GotEnd(u, s) ==
    IF Held(s) # {} THEN u
    ELSE IF Near(s) THEN IF InTryQuit(u) THEN [u EXCEPT !.timeout = now + Soon] ELSE u
    ELSE IF u.static \/ InTryQuit(u) THEN Quits(u, "idle") ELSE u

GotStart(u) == IF InTryQuit(u) THEN [u EXCEPT !.timeout = None] ELSE u

\* RecordTimerEntry.TryQuitMainloop
StartHandling(u, s, n) ==
    IF u.static THEN u
    ELSE AddNotification(GotEnd([u EXCEPT !.static = TRUE], s), s, n)

AfterEvent(u, s, t) ==
    CASE plan[t].after = "standby" /\ ~InStandby(u) -> AddNotification(u, s, "askStandby")
      [] plan[t].after = "deep" /\ ~InTryQuit(u) ->
             IF InStandby(u) THEN StartHandling(u, s, "later")
                             ELSE AddNotification(u, s, "askDeep")
      [] OTHER -> u

(***************************************************************************)
(* The stages of a timer.                                                  *)
(***************************************************************************)
Becomes(t, stage, due) == sched' = [sched EXCEPT ![t] = [stage |-> stage, due |-> due]]

At(t, stage) == On /\ t \in Due /\ sched[t].stage = stage

Fault(t) ==
    /\ Recording(t) /\ faults < MaxFaults
    /\ faults' = faults + 1 /\ owed' = owed \ {t}

SkipTimer(t) ==
    /\ At(t, "waiting") /\ plan[t].end <= now
    /\ Becomes(t, "ended", plan[t].end)
    /\ UNCHANGED <<now, plan, sleep, jobs, boxVars, ui, owed, user, faults>>

PrepareTimer(t) ==
    /\ At(t, "waiting") /\ plan[t].end > now
    /\ \/ /\ Becomes(t, "prepared", plan[t].begin)
          /\ UNCHANGED <<ui, owed, faults>>
       \/ /\ Fault(t) /\ Becomes(t, "waiting", now + Backoff)
          /\ ui' = GotEnd(ui, sched')
    /\ UNCHANGED <<now, plan, sleep, jobs, boxVars, user>>

\* A recording tells of its start before it is refused.
StartTimer(t) ==
    /\ At(t, "prepared")
    /\ ui' = IF Recording(t) THEN GotStart(ui)
             ELSE IF Shown(ui) = "standby" THEN Close(ui, "left") ELSE ui
    /\ \/ /\ Becomes(t, "running", plan[t].end)
          /\ UNCHANGED <<plan, owed, faults>>
       \/ /\ Fault(t) /\ Becomes(t, "prepared", now + Backoff)
          /\ plan' = [plan EXCEPT ![t].begin = now + Backoff]
    /\ UNCHANGED <<now, sleep, jobs, boxVars, user>>

EndTimer(t) ==
    /\ At(t, "running")
    /\ Becomes(t, "ended", plan[t].end)
    /\ ui' = LET u == IF Recording(t) THEN GotEnd(ui, sched') ELSE ui
             IN  AfterEvent(u, sched', t)
    /\ UNCHANGED <<now, plan, sleep, jobs, boxVars, owed, user, faults>>

Activate == \E t \in Timers : SkipTimer(t) \/ PrepareTimer(t) \/ StartTimer(t) \/ EndTimer(t)

\* The sleep timer asks, or goes on as if it had been answered.
SleepTimer(u, asking) ==
    IF SleepAction = "shutdown"
    THEN IF InTryQuit(u) THEN u
         ELSE AddNotification(u, sched, IF asking THEN "askSleep" ELSE "quit")
    ELSE IF InStandby(u) THEN u
         ELSE AddNotification(u, sched, IF asking THEN "askSleep" ELSE "standby")

SleepTimerEnds ==
    /\ On /\ Over(sleep)
    /\ sleep' = None
    /\ ui' = SleepTimer(ui, Ask)
    /\ UNCHANGED <<now, plan, sched, jobs, boxVars, owed, user, faults>>

(***************************************************************************)
(* The user, and the session.                                              *)
(***************************************************************************)
ByUser == user < MaxUser /\ user' = user + 1
       /\ UNCHANGED <<now, plan, sched, sleep, jobs, boxVars, owed, faults>>

Attended == box = "on" /\ ui.quit = "no"

\* Long and short; the menu offers the same.
PowerKey ==
    /\ Attended /\ Shown(ui) \in {"infobar", "menu"} /\ ByUser
    /\ ui' \in {OpenTryQuit(ui, sched, "quitYes"), Push(ui, "standby", None)}

OpenMenu == Attended /\ Shown(ui) = "infobar" /\ ByUser /\ ui' = Push(ui, "menu", None)

\* Standby is left by the power key, too.
LeaveScreen ==
    Attended /\ Shown(ui) \in {"menu", "standby"} /\ ByUser /\ ui' = Close(ui, "left")

\* A move of the selection stops the countdown; should it start again, the time
\* will be over for what is selected then.
Move(u) ==
    LET v == [u EXCEPT !.timeout = None] IN
    IF InTryQuit(u)
    THEN {[v EXCEPT !.screens = <<x>> \o Tail(@)] : x \in TryQuit}
    ELSE {v}

Answer ==
    /\ Attended /\ Shown(ui) \in Questions \cup TryQuit /\ ByUser
    /\ \/ ui' = Close(ui, "no")
       \/ ui' = IF InTryQuit(ui) THEN Quits(ui, "user") ELSE Close(ui, "yes")
       \/ ui' \in Move(ui)

\* What is selected is the answer when the time is over.
TimeoutCallback ==
    /\ Attended /\ Over(ui.timeout)
    /\ ui' = CASE Shown(ui) = "quitYes" -> Quits(ui, "expired")
               [] Shown(ui) = "quitNo" -> Close(ui, "no")
               [] OTHER -> Close(ui, "yes")
    /\ UNCHANGED <<now, plan, sched, sleep, jobs, boxVars, owed, user, faults>>

\* The screen below comes back, with the next notification if it is the
\* infobar, before the one that asked hears of the answer.
ProcessDelay ==
    /\ box = "on" /\ ui.answer # None
    /\ LET u == CheckNotifications([ui EXCEPT !.screens = Tail(@), !.answer = None], sched)
       IN  ui' = IF ui.answer # "yes" THEN u
                 ELSE CASE Top(ui) = "askStandby" -> AddNotification(u, sched, "standby")
                        [] Top(ui) = "askDeep" -> AddNotification(u, sched, "quit")
                        [] Top(ui) = "askSleep" -> SleepTimer(u, FALSE)
    /\ UNCHANGED <<now, plan, sched, sleep, jobs, boxVars, owed, user, faults>>

JobsEnd ==
    /\ On /\ jobs /\ jobs' = FALSE
    /\ UNCHANGED <<now, plan, sched, sleep, boxVars, ui, owed, user, faults>>

(***************************************************************************)
(* Down and up.                                                            *)
(***************************************************************************)
NextZap ==
    {plan[t].begin : t \in {x \in Listed(sched) : plan[x].zap /\ plan[x].begin > now}}

\* isNextRecordAfterEventActionAuto: the first in the list decides, with those
\* that begin when it does.
NextIsAuto ==
    LET ahead == {t \in Listed(sched) : Recording(t) /\ plan[t].begin > now}
    IN  \E first, t \in ahead :
            /\ \A x \in ahead : sched[first].due <= sched[x].due
            /\ plan[t].begin = plan[first].begin /\ plan[t].after = "auto"

\* Mutant: the wake-up may lie in the past.
WakeupLeading(first) == first - Lead

\* "no time to switch box back on"
WakeupFor(first) == IF first - now <= NoLead THEN now + Restart ELSE first - Lead

\* A box that goes down now is up again in time for t.
HasTime(t) ==
    /\ sched[t].stage = "waiting" /\ sched[t].due > now
    /\ sched[t].due - now > NoLead \/ now + Restart + BootTime <= plan[t].begin

\* The main loop is left, and the wake-up time set.
LeaveMainloop ==
    /\ On /\ ui.quit # "no"
    /\ LET next == Upcoming(sched) \cup NextZap
       IN  /\ wakeup' = IF next = {} THEN wakeup ELSE WakeupFor(Min(next))
           /\ auto' = (Upcoming(sched) # {} /\ Min(next) \in Upcoming(sched) /\ NextIsAuto)
    /\ box' = "off" /\ byTimer' = FALSE
    /\ ui' = Blank
    /\ owed' = {t \in owed : sched[t].stage = "ended" \/ HasTime(t)}
    /\ UNCHANGED <<now, plan, sched, sleep, jobs, ready, user, faults>>

\* The front processor, or the user, switches the box on.
SwitchOn ==
    /\ box = "off"
    /\ box' = "booting" /\ ready' = now + BootTime
    /\ \/ wakeup = now /\ byTimer' = TRUE /\ UNCHANGED user
       \/ byTimer' = FALSE /\ user < MaxUser /\ user' = user + 1
    /\ UNCHANGED <<now, plan, sched, sleep, jobs, wakeup, auto, ui, owed, faults>>

Reloaded(t) ==
    IF sched[t].stage = "ended" \/ plan[t].end <= now
    THEN [stage |-> "ended", due |-> plan[t].end]
    ELSE [stage |-> "waiting", due |-> plan[t].begin - Prepare]

LoadTimer ==
    /\ box = "booting" /\ ready <= now
    /\ box' = "starting"
    /\ sched' = [t \in Timers |-> Reloaded(t)]
    /\ sleep' = None /\ jobs' = FALSE
    /\ UNCHANGED <<now, plan, ready, wakeup, byTimer, auto, ui, owed, user, faults>>

\* The end of Navigation.__init__, when the timers that are due have been
\* activated, and then the infobar.
StartSession ==
    /\ box = "starting" /\ Due = {}
    /\ box' = "on"
    /\ LET u == IF byTimer /\ auto /\ (Held(sched) # {} \/ Near(sched))
                THEN StartHandling(ui, sched, "boot") ELSE ui
       IN  ui' = CheckNotifications([u EXCEPT !.screens = <<"infobar">>], sched)
    /\ UNCHANGED <<now, plan, sched, sleep, jobs, ready, wakeup, byTimer, auto,
                   owed, user, faults>>

\* Time passes while the box has nothing to do.
Tick ==
    /\ now < MaxTime
    /\ CASE box = "on" -> /\ Due = {} /\ ui.quit = "no" /\ ui.answer = None
                          /\ ~Over(ui.timeout) /\ ~Over(sleep)
         [] box = "off" -> wakeup # now
         [] box = "booting" -> ready > now
         [] box = "starting" -> FALSE
    /\ now' = now + 1
    /\ UNCHANGED <<plan, sched, sleep, jobs, boxVars, ui, owed, user, faults>>

Program == Activate \/ SleepTimerEnds \/ TimeoutCallback \/ ProcessDelay
           \/ LeaveMainloop \/ LoadTimer \/ StartSession

Next == Program \/ SwitchOn \/ PowerKey \/ OpenMenu \/ LeaveScreen \/ Answer \/ JobsEnd \/ Tick

Spec == Init /\ [][Next]_vars

\* The main loop comes to what is due, the front processor to its wake-up time,
\* and time passes.  The user need not do anything.
FairSpec ==
    Spec /\ WF_vars(Program) /\ WF_vars(Tick) /\ WF_vars(SwitchOn /\ wakeup = now)
-----------------------------------------------------------------------------
UI ==
    [screens : Seq(Screens), timeout : Nat \cup {None}, answer : Answers \cup {None},
     notes : Seq(Questions \cup {"standby", "quit", "later", "boot"}),
     static : BOOLEAN, quit : {"no", "user", "idle", "expired"}]

TypeOK ==
    /\ now \in 0..MaxTime /\ plan \in [Timers -> Plan]
    /\ sched \in [Timers -> [stage : {"waiting", "prepared", "running", "ended"}, due : Nat]]
    /\ sleep \in Nat \cup {None} /\ jobs \in BOOLEAN
    /\ box \in {"on", "off", "booting", "starting"} /\ ready \in Nat
    /\ wakeup \in Nat \cup {None} /\ byTimer \in BOOLEAN /\ auto \in BOOLEAN
    /\ ui \in UI
    /\ owed \subseteq Timers /\ user \in 0..MaxUser /\ faults \in 0..MaxFaults

\* No recording that runs is cut off unless the user has said so: whatever
\* timers end, questions time out and screens are left, nothing else takes the
\* box down while it records (Standby.py:138, RecordTimer.py:56).
NeverCutsUnasked ==
    [][ui.quit = "no" /\ ui'.quit \in {"idle", "expired"} =>
          \A t \in Timers : Recording(t) => sched'[t].stage # "running"]_vars

\* Every recording starts at its time, however often the box goes down before
\* and for whatever reason, if it was still ahead when the box went down and
\* there was the time to come up again ("no time to switch box back on",
\* mytest.py:518), and if it was not refused.
StartsInTime ==
    \A t \in owed : plan[t].begin < now => sched[t].stage \in {"running", "ended"}

Leaving == ui.static \/ InTryQuit(ui)

\* A box that was told to go down and waits for recordings does so when they
\* are over, unless it is told otherwise; with a recording that was refused it
\* may wait for ever.
GoesDown ==
    Leaving /\ (Held(sched) # {} \/ Near(sched)) ~> ~Leaving \/ faults > 0
=============================================================================
