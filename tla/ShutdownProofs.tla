--------------------------- MODULE ShutdownProofs ---------------------------
(***************************************************************************)
(* What the box promises about recordings when it goes down, for any       *)
(* timers and plans, and for any times of the firmware that leave it the   *)
(* time to come up again.                                                  *)
(***************************************************************************)
EXTENDS Shutdown, WellFoundedInduction, TLAPS

Stages == {"waiting", "prepared", "running", "ended"}

Schedules == [Timers -> [stage : Stages, due : Nat]]

\* The recordings that run.
Running(s) == {t \in Timers : Recording(t) /\ s[t].stage = "running"}

\* Only a question times out, a screen that is closed is there, and only a
\* question is answered with yes.
Settled(u) ==
    /\ u.timeout # None => Shown(u) \in Questions \cup TryQuit
    /\ u.answer # None => u.screens # << >>
    /\ u.answer = "yes" => Top(u) \in Questions

\* While something records, the question to go down waits for the user.
Calm(u, s) == InTryQuit(u) /\ u.timeout # None => Running(s) = {}

Good(u, s) == u \in UI /\ Settled(u) /\ Calm(u, s)

\* The screens become v by what the program does when s is the schedule.
Follows(u, v, s) ==
    /\ Good(v, s)
    /\ v.quit = u.quit \/ (v.quit = "idle" /\ Running(s) = {})
    /\ u.screens = << >> => v.screens = << >>

-----------------------------------------------------------------------------
(***************************************************************************)
(* The screens.                                                            *)
(***************************************************************************)
LEMMA NoneDiffers ==
    /\ None \notin Nat /\ None \notin Screens /\ None \notin Answers
    /\ None \notin Questions /\ None \notin TryQuit
    /\ None # "infobar" /\ None # "menu" /\ None # "standby" /\ None # "yes"
BY ShutdownAssumption DEF Screens, Answers

LEMMA TopType ==
    ASSUME NEW u \in UI
    PROVE  /\ Top(u) \in Screens \cup {None} /\ Shown(u) \in Screens \cup {None}
           /\ Shown(u) # None => Shown(u) = Top(u) /\ u.answer = None /\ u.screens # << >>
<1>1. u.screens \in Seq(Screens)
  BY DEF UI
<1> QED
  BY <1>1, NoneDiffers DEF Top, Shown

LEMMA FollowsOn ==
    ASSUME NEW u, NEW v, NEW w, NEW s, Follows(u, v, s), Follows(v, w, s)
    PROVE  Follows(u, w, s)
BY DEF Follows

LEMMA FollowsItself ==
    ASSUME NEW u, NEW s, Good(u, s)
    PROVE  Follows(u, u, s)
BY DEF Follows

LEMMA PushGood ==
    ASSUME NEW s, NEW u \in UI, Good(u, s), NEW x \in Screens, NEW limit \in Nat \cup {None},
           u.answer = None, x \notin Questions => limit = None
    PROVE  Good(Push(u, x, limit), s) /\ Push(u, x, limit).quit = u.quit
<1> DEFINE v == Push(u, x, limit)
<1>1. u.screens \in Seq(Screens)
  BY DEF UI
<1>2. /\ <<x>> \o u.screens \in Seq(Screens) /\ <<x>> \o u.screens # << >>
      /\ Head(<<x>> \o u.screens) = x
  BY <1>1
<1>3. /\ v.screens = <<x>> \o u.screens /\ v.timeout = limit /\ v.answer = None
      /\ v.quit = u.quit
  BY DEF Push, UI
<1>4. v \in UI
  BY <1>2 DEF Push, UI
<1> HIDE DEF v
<1>5. Top(v) = x /\ Shown(v) = x
  BY <1>2, <1>3 DEF Top, Shown
<1>6. Settled(v)
  BY <1>2, <1>3, <1>5, NoneDiffers DEF Settled
<1>7. Calm(v, s)
  BY <1>3, <1>5 DEF Calm, InTryQuit, TryQuit, Questions
<1> QED
  BY <1>3, <1>4, <1>6, <1>7 DEF Good, v

LEMMA CloseGood ==
    ASSUME NEW s, NEW u \in UI, NEW a \in Answers, Shown(u) # None,
           a = "yes" => Shown(u) \in Questions
    PROVE  Good(Close(u, a), s) /\ Close(u, a).quit = u.quit /\ Close(u, a).screens = u.screens
<1> DEFINE v == Close(u, a)
<1>1. /\ v.screens = u.screens /\ v.timeout = None /\ v.answer = a /\ v.quit = u.quit
      /\ v \in UI
  BY DEF Close, UI
<1> HIDE DEF v
<1>2. a # None /\ Shown(u) = Top(u) /\ u.screens # << >>
  BY TopType, NoneDiffers
<1>3. Shown(v) = None /\ Top(v) = Top(u)
  BY <1>1, <1>2 DEF Shown, Top
<1> QED
  BY <1>1, <1>2, <1>3, NoneDiffers DEF Good, Settled, Calm, InTryQuit, v

LEMMA QuitsGood ==
    ASSUME NEW s, NEW u \in UI, Good(u, s), NEW why \in {"user", "idle", "expired"}
    PROVE  /\ Good(Quits(u, why), s) /\ Quits(u, why).screens = u.screens
           /\ Quits(u, why).quit = IF u.quit = "no" THEN why ELSE u.quit
<1> DEFINE v == Quits(u, why)
<1>1. /\ v.screens = u.screens /\ v.timeout = None /\ v.answer = u.answer
      /\ v.quit = IF u.quit = "no" THEN why ELSE u.quit
      /\ v \in UI
  BY DEF Quits, UI
<1> HIDE DEF v
<1>2. Shown(v) = Shown(u) /\ Top(v) = Top(u)
  BY <1>1 DEF Shown, Top
<1> QED
  BY <1>1, <1>2 DEF Good, Settled, Calm, v

LEMMA QuitsFollows ==
    ASSUME NEW s, NEW u \in UI, Good(u, s), Running(s) = {}
    PROVE  Follows(u, Quits(u, "idle"), s)
BY QuitsGood DEF Follows

\* A change of what the screens and their answers do not depend on.
LEMMA NotesFollow ==
    ASSUME NEW s, NEW u \in UI, Good(u, s), NEW v \in UI,
           v.screens = u.screens, v.timeout = u.timeout, v.answer = u.answer, v.quit = u.quit
    PROVE  Follows(u, v, s)
<1>1. Shown(v) = Shown(u) /\ Top(v) = Top(u)
  BY DEF Shown, Top
<1> QED
  BY <1>1 DEF Good, Follows, Settled, Calm, InTryQuit

LEMMA RunningHeld == \A s : Held(s) = {} => Running(s) = {}
BY DEF Held, Running

LEMMA OpenTryQuitFollows ==
    ASSUME NEW s, NEW u \in UI, Good(u, s), NEW x \in TryQuit,
           u.answer = None, u.screens # << >>
    PROVE  Follows(u, OpenTryQuit(u, s, x), s)
<1>1. CASE Held(s) # {} \/ Near(s) \/ jobs
  <2>1. x \in Screens /\ x \notin Questions
    BY DEF Screens, TryQuit, Questions
  <2>2. Good(Push(u, x, None), s) /\ Push(u, x, None).quit = u.quit
    BY <2>1, PushGood
  <2>3. OpenTryQuit(u, s, x) = Push(u, x, None)
    BY <1>1 DEF OpenTryQuit
  <2> QED
    BY <2>2, <2>3 DEF Follows
<1>2. CASE ~(Held(s) # {} \/ Near(s) \/ jobs)
  BY <1>2, QuitsFollows, RunningHeld DEF OpenTryQuit
<1> QED
  BY <1>1, <1>2

Notes == Questions \cup {"standby", "quit", "later", "boot"}

LEMMA CheckNotificationsFollows ==
    ASSUME now \in Nat, NEW s, NEW u \in UI, Good(u, s)
    PROVE  Follows(u, CheckNotifications(u, s), s)
<1>1. CASE Shown(u) # "infobar" \/ u.notes = << >>
  BY <1>1, FollowsItself DEF CheckNotifications
<1>2. CASE ~(Shown(u) # "infobar" \/ u.notes = << >>)
  <2> DEFINE n == Head(u.notes)
             v == [u EXCEPT !.notes = Tail(@)]
             w == [v EXCEPT !.static = FALSE]
  <2>1. u.notes \in Seq(Notes) /\ u.notes # << >>
    BY <1>2 DEF UI, Notes
  <2>2. n \in Notes /\ Tail(u.notes) \in Seq(Notes)
    BY <2>1
  <2>3. /\ v \in UI /\ v.screens = u.screens /\ v.timeout = u.timeout
        /\ v.answer = u.answer /\ v.quit = u.quit
    BY <2>2 DEF UI, Notes
  <2>4. /\ w \in UI /\ w.screens = u.screens /\ w.timeout = u.timeout
        /\ w.answer = u.answer /\ w.quit = u.quit
    BY <2>2 DEF UI, Notes
  <2>5. CheckNotifications(u, s) =
          CASE n \in Questions -> Push(v, n, now + Question)
            [] n = "standby" -> Push(v, n, None)
            [] n = "quit" -> OpenTryQuit(v, s, "quitYes")
            [] n = "later" -> OpenTryQuit(w, s, "quitYes")
            [] n = "boot" -> OpenTryQuit(w, s, "quitNo")
    BY <1>2 DEF CheckNotifications
  <2> HIDE DEF n, v, w
  <2>6. Follows(u, v, s) /\ Follows(u, w, s)
    BY <2>3, <2>4, NotesFollow
  <2>7. u.answer = None /\ u.screens # << >>
    BY <1>2, TopType, NoneDiffers
  <2>8. CASE n \in Questions
    <3>1. n \in Screens /\ now + Question \in Nat
      BY <2>8, ShutdownAssumption DEF Screens
    <3>2. CheckNotifications(u, s) = Push(v, n, now + Question)
      BY <2>5, <2>8 DEF Questions
    <3>3. Good(v, s)
      BY <2>6 DEF Follows
    <3> QED
      BY <2>3, <2>7, <2>8, <3>1, <3>2, <3>3, PushGood DEF Follows
  <2>9. CASE n = "standby"
    <3>1. CheckNotifications(u, s) = Push(v, "standby", None)
      BY <2>5, <2>9 DEF Questions
    <3>2. Good(v, s) /\ "standby" \in Screens
      BY <2>6 DEF Follows, Screens
    <3>3. Good(Push(v, "standby", None), s) /\ Push(v, "standby", None).quit = v.quit
      BY <2>3, <2>7, <3>2, PushGood
    <3> QED
      BY <2>3, <2>7, <3>1, <3>3 DEF Follows
  <2>10. CASE n = "quit"
    <3>1. CheckNotifications(u, s) = OpenTryQuit(v, s, "quitYes")
      BY <2>5, <2>10 DEF Questions
    <3>2. Follows(v, OpenTryQuit(v, s, "quitYes"), s)
      BY <2>3, <2>6, <2>7, OpenTryQuitFollows DEF Follows, TryQuit
    <3> QED
      BY <2>6, <3>1, <3>2, FollowsOn
  <2>11. CASE n \in {"later", "boot"}
    <3>1. PICK x \in TryQuit : CheckNotifications(u, s) = OpenTryQuit(w, s, x)
      BY <2>5, <2>11 DEF Questions, TryQuit
    <3>2. Follows(w, OpenTryQuit(w, s, x), s)
      BY <2>4, <2>6, <2>7, OpenTryQuitFollows DEF Follows
    <3> QED
      BY <2>6, <3>1, <3>2, FollowsOn
  <2> QED
    BY <2>2, <2>8, <2>9, <2>10, <2>11 DEF Notes
<1> QED
  BY <1>1, <1>2

LEMMA AddNotificationFollows ==
    ASSUME now \in Nat, NEW s, NEW u \in UI, Good(u, s), NEW n \in Notes
    PROVE  Follows(u, AddNotification(u, s, n), s)
<1> DEFINE v == [u EXCEPT !.notes = Append(@, n)]
<1>1. u.notes \in Seq(Notes)
  BY DEF UI, Notes
<1>2. Append(u.notes, n) \in Seq(Notes)
  BY <1>1
<1>3. /\ v \in UI /\ v.screens = u.screens /\ v.timeout = u.timeout
      /\ v.answer = u.answer /\ v.quit = u.quit
  BY <1>2 DEF UI, Notes
<1>4. AddNotification(u, s, n) = CheckNotifications(v, s)
  BY DEF AddNotification
<1> HIDE DEF v
<1>5. Follows(u, v, s)
  BY <1>3, NotesFollow
<1>6. Follows(v, CheckNotifications(v, s), s)
  BY <1>3, <1>5, CheckNotificationsFollows DEF Follows
<1> QED
  BY <1>4, <1>5, <1>6, FollowsOn

\* The question waits for the next recording only when nothing records.
LEMMA GotEndFollows ==
    ASSUME now \in Nat, NEW s, NEW u \in UI, Good(u, s)
    PROVE  Follows(u, GotEnd(u, s), s)
<1>1. CASE Held(s) # {}
  BY <1>1, FollowsItself DEF GotEnd
<1>2. CASE Held(s) = {} /\ Near(s) /\ InTryQuit(u)
  <2> DEFINE v == [u EXCEPT !.timeout = now + Soon]
  <2>1. now + Soon \in Nat
    BY ShutdownAssumption
  <2>2. /\ v \in UI /\ v.screens = u.screens /\ v.answer = u.answer /\ v.quit = u.quit
    BY <2>1 DEF UI
  <2>3. GotEnd(u, s) = v
    BY <1>2 DEF GotEnd
  <2> HIDE DEF v
  <2>4. Shown(v) = Shown(u) /\ Top(v) = Top(u)
    BY <2>2 DEF Shown, Top
  <2> QED
    BY <1>2, <2>2, <2>3, <2>4, RunningHeld DEF Good, Follows, Settled, Calm, InTryQuit
<1>3. CASE Held(s) = {} /\ Near(s) /\ ~InTryQuit(u)
  BY <1>3, FollowsItself DEF GotEnd
<1>4. CASE Held(s) = {} /\ ~Near(s)
  BY <1>4, FollowsItself, QuitsFollows, RunningHeld DEF GotEnd
<1> QED
  BY <1>1, <1>2, <1>3, <1>4

\* When a recording starts the question waits for the user, whatever the
\* schedule becomes.
LEMMA GotStartGood ==
    ASSUME NEW s, NEW other, NEW u \in UI, Good(u, s)
    PROVE  /\ Good(GotStart(u), other) /\ GotStart(u).quit = u.quit
           /\ GotStart(u).screens = u.screens
<1>1. CASE InTryQuit(u)
  <2> DEFINE v == [u EXCEPT !.timeout = None]
  <2>1. /\ v \in UI /\ v.screens = u.screens /\ v.answer = u.answer /\ v.quit = u.quit
        /\ v.timeout = None
    BY DEF UI
  <2>2. GotStart(u) = v
    BY <1>1 DEF GotStart
  <2> HIDE DEF v
  <2>3. Shown(v) = Shown(u) /\ Top(v) = Top(u)
    BY <2>1 DEF Shown, Top
  <2> QED
    BY <2>1, <2>2, <2>3 DEF Good, Settled, Calm
<1>2. CASE ~InTryQuit(u)
  BY <1>2 DEF GotStart, Good, Calm
<1> QED
  BY <1>1, <1>2

LEMMA StartHandlingFollows ==
    ASSUME now \in Nat, NEW s, NEW u \in UI, Good(u, s), NEW n \in Notes
    PROVE  Follows(u, StartHandling(u, s, n), s)
<1>1. CASE u.static
  BY <1>1, FollowsItself DEF StartHandling
<1>2. CASE ~u.static
  <2> DEFINE v == [u EXCEPT !.static = TRUE]
             w == GotEnd(v, s)
  <2>1. /\ v \in UI /\ v.screens = u.screens /\ v.timeout = u.timeout
        /\ v.answer = u.answer /\ v.quit = u.quit
    BY DEF UI
  <2>2. StartHandling(u, s, n) = AddNotification(w, s, n)
    BY <1>2 DEF StartHandling
  <2> HIDE DEF v
  <2>3. Follows(u, v, s)
    BY <2>1, NotesFollow
  <2>4. Follows(v, w, s)
    BY <2>1, <2>3, GotEndFollows DEF Follows
  <2> HIDE DEF w
  <2>5. Follows(w, AddNotification(w, s, n), s)
    BY <2>4, AddNotificationFollows DEF Follows, Good
  <2> QED
    BY <2>2, <2>3, <2>4, <2>5, FollowsOn
<1> QED
  BY <1>1, <1>2

LEMMA AfterEventFollows ==
    ASSUME now \in Nat, NEW s, NEW u \in UI, Good(u, s), NEW t
    PROVE  Follows(u, AfterEvent(u, s, t), s)
<1>1. Follows(u, u, s)
  BY FollowsItself
<1>2. \A n \in Notes : /\ Follows(u, AddNotification(u, s, n), s)
                       /\ Follows(u, StartHandling(u, s, n), s)
  BY AddNotificationFollows, StartHandlingFollows
<1>3. AfterEvent(u, s, t) \in {u, AddNotification(u, s, "askStandby"),
                               StartHandling(u, s, "later"), AddNotification(u, s, "askDeep")}
  BY DEF AfterEvent
<1> QED
  BY <1>1, <1>2, <1>3 DEF Notes, Questions

LEMMA SleepTimerFollows ==
    ASSUME now \in Nat, NEW s, s = sched, NEW u \in UI, Good(u, s), NEW asking \in BOOLEAN
    PROVE  Follows(u, SleepTimer(u, asking), s)
<1>1. Follows(u, u, s)
  BY FollowsItself
<1>2. \A n \in Notes : Follows(u, AddNotification(u, s, n), s)
  BY AddNotificationFollows
<1>3. SleepTimer(u, asking) \in {u, AddNotification(u, s, "askSleep"),
                                 AddNotification(u, s, "quit"), AddNotification(u, s, "standby")}
  BY DEF SleepTimer
<1> QED
  BY <1>1, <1>2, <1>3 DEF Notes, Questions

-----------------------------------------------------------------------------
(***************************************************************************)
(* The invariant.                                                          *)
(***************************************************************************)

\* When the timers are due.  What is prepared is due when it begins, and time
\* has come far enough to count back from that.
Timed ==
    \A t \in Timers :
      /\ plan[t].begin >= Prepare
      /\ sched[t].stage = "prepared" => sched[t].due = plan[t].begin

\* A box without the infobar has no screens.
Dark == box # "on" => ui.screens = << >>

ShutdownInv == TypeOK /\ Timed /\ Good(ui, sched) /\ Dark

\* Where time is left for t: as long as the box is on, what is due comes
\* before its beginning; a box that is off, or booting, is up before.
Owed(t) ==
    /\ Recording(t)
    /\ sched[t].stage = "waiting" => sched[t].due = plan[t].begin - Prepare
    /\ box \in {"on", "starting"} /\ sched[t].stage \in {"waiting", "prepared"} =>
           now <= plan[t].begin
    /\ box \in {"off", "booting"} => sched[t].stage \in {"waiting", "ended"}
    /\ box = "off" /\ sched[t].stage = "waiting" =>
           wakeup # None /\ now <= wakeup /\ wakeup + BootTime <= plan[t].begin
    /\ box = "booting" /\ sched[t].stage = "waiting" =>
           now <= ready /\ ready <= plan[t].begin

OwedInTime == \A t \in owed : Owed(t)

\* A step that takes the box down by itself leaves nothing that records.
CutsNothing ==
    ui.quit = "no" /\ ui'.quit \in {"idle", "expired"} =>
        \A t \in Timers : Recording(t) => sched'[t].stage # "running"

LEMMA Times ==
    /\ Prepare \in Nat /\ Backoff \in Nat /\ Question \in Nat /\ Soon \in Nat /\ NoLead \in Nat
    /\ Lead \in Nat /\ Restart \in Nat /\ BootTime \in Nat /\ MaxTime \in Nat
    /\ MaxUser \in Nat /\ MaxFaults \in Nat
    /\ Prepare > 0 /\ Restart > 0 /\ BootTime > 0
    /\ BootTime <= Lead /\ Lead + Restart <= NoLead
BY ShutdownAssumption

LEMMA TypeFacts ==
    ASSUME TypeOK
    PROVE  /\ now \in Nat /\ sched \in Schedules /\ ui \in UI
           /\ \A t \in Timers : /\ plan[t].begin \in Nat /\ plan[t].end \in Nat
                                /\ plan[t].zap \in BOOLEAN
                                /\ sched[t].stage \in Stages /\ sched[t].due \in Nat
BY Times DEF TypeOK, Schedules, Stages, Plan

\* The screens after a step that follows the schedule it makes.
LEMMA FollowsNext ==
    ASSUME ShutdownInv, \A t \in Timers : plan'[t].zap = plan[t].zap,
           Follows(ui, ui', sched')
    PROVE  Good(ui, sched)' /\ CutsNothing /\ (box' = box => Dark')
<1>1. Running(sched)' = Running(sched')
  BY DEF Running, Recording
<1>2. Good(ui, sched)'
  BY <1>1 DEF Follows, Good, Settled, Calm, InTryQuit, Shown, Top
<1>3. CutsNothing
  BY DEF Follows, CutsNothing, Running
<1>4. box' = box => Dark'
  BY DEF Follows, ShutdownInv, Dark
<1> QED
  BY <1>2, <1>3, <1>4

\* Good speaks of the recordings that run.
LEMMA FewerRun ==
    ASSUME NEW u, NEW s, NEW other, Good(u, s), Running(other) \subseteq Running(s)
    PROVE  Good(u, other)
BY DEF Good, Calm

LEMMA BecomesType ==
    ASSUME TypeOK, NEW t \in Timers, NEW stage \in Stages, NEW due \in Nat, Becomes(t, stage, due)
    PROVE  /\ sched' \in Schedules
           /\ sched'[t].stage = stage /\ sched'[t].due = due
           /\ \A x \in Timers \ {t} : sched'[x] = sched[x]
BY DEF Becomes, TypeOK, Schedules, Stages

\* No recording begins to run when a timer gets another stage.
LEMMA BecomesGood ==
    ASSUME ShutdownInv, NEW t \in Timers, NEW stage \in Stages, NEW due \in Nat,
           Becomes(t, stage, due), stage # "running"
    PROVE  Good(ui, sched')
<1>1. Running(sched') \subseteq Running(sched)
  BY BecomesType DEF ShutdownInv, Running
<1> QED
  BY <1>1, FewerRun DEF ShutdownInv

-----------------------------------------------------------------------------
(***************************************************************************)
(* The timers.                                                             *)
(***************************************************************************)
LEMMA SkipKeeps ==
    ASSUME ShutdownInv, NEW t \in Timers, SkipTimer(t)
    PROVE  ShutdownInv' /\ CutsNothing
<1> USE DEF ShutdownInv
<1>1. /\ Becomes(t, "ended", plan[t].end) /\ plan[t].end \in Nat
      /\ UNCHANGED <<now, plan, sleep, jobs, box, ready, wakeup, byTimer, auto, ui, owed, user, faults>>
  BY TypeFacts DEF SkipTimer, boxVars
<1>2. sched' \in Schedules /\ sched'[t].stage = "ended" /\ \A x \in Timers \ {t} : sched'[x] = sched[x]
  BY <1>1, BecomesType DEF Stages
<1>3. TypeOK'
  BY <1>1, <1>2 DEF TypeOK, Schedules, Stages
<1>4. Timed'
  BY <1>1, <1>2 DEF Timed
<1>5. Follows(ui, ui', sched')
  BY <1>1, BecomesGood, FollowsItself DEF Stages
<1> QED
  BY <1>1, <1>3, <1>4, <1>5, FollowsNext

LEMMA PrepareKeeps ==
    ASSUME ShutdownInv, NEW t \in Timers, PrepareTimer(t)
    PROVE  ShutdownInv' /\ CutsNothing
<1> USE DEF ShutdownInv
<1>1. UNCHANGED <<now, plan, sleep, jobs, box, ready, wakeup, byTimer, auto, user>>
  BY DEF PrepareTimer, boxVars
<1>2. now \in Nat /\ plan[t].begin \in Nat /\ now + Backoff \in Nat
  BY TypeFacts, Times
<1>3. CASE Becomes(t, "prepared", plan[t].begin) /\ UNCHANGED <<ui, owed, faults>>
  <2>1. /\ sched' \in Schedules /\ sched'[t].stage = "prepared" /\ sched'[t].due = plan[t].begin
        /\ \A x \in Timers \ {t} : sched'[x] = sched[x]
    BY <1>2, <1>3, BecomesType DEF Stages
  <2>2. TypeOK'
    BY <1>1, <1>3, <2>1 DEF TypeOK, Schedules, Stages
  <2>3. Timed'
    BY <1>1, <2>1 DEF Timed
  <2>4. Follows(ui, ui', sched')
    BY <1>2, <1>3, BecomesGood, FollowsItself DEF Stages
  <2> QED
    BY <1>1, <2>2, <2>3, <2>4, FollowsNext
<1>4. CASE Fault(t) /\ Becomes(t, "waiting", now + Backoff) /\ ui' = GotEnd(ui, sched')
  <2>1. /\ sched' \in Schedules /\ sched'[t].stage = "waiting"
        /\ \A x \in Timers \ {t} : sched'[x] = sched[x]
    BY <1>2, <1>4, BecomesType DEF Stages
  <2>2. Good(ui, sched') /\ ui \in UI
    BY <1>2, <1>4, BecomesGood, TypeFacts DEF Stages
  <2>3. Follows(ui, ui', sched')
    BY <1>2, <1>4, <2>2, GotEndFollows
  <2>4. TypeOK'
    BY <1>1, <1>4, <2>1, <2>3, Times DEF TypeOK, Schedules, Stages, Fault, Follows, Good
  <2>5. Timed'
    BY <1>1, <2>1 DEF Timed
  <2> QED
    BY <1>1, <2>3, <2>4, <2>5, FollowsNext
<1> QED
  BY <1>3, <1>4 DEF PrepareTimer

LEMMA StartKeeps ==
    ASSUME ShutdownInv, NEW t \in Timers, StartTimer(t)
    PROVE  ShutdownInv' /\ CutsNothing
<1> USE DEF ShutdownInv
<1>1. UNCHANGED <<now, sleep, jobs, box, ready, wakeup, byTimer, auto, user>>
  BY DEF StartTimer, boxVars
<1>2. now \in Nat /\ plan[t].end \in Nat /\ now + Backoff \in Nat /\ ui \in UI
  BY TypeFacts, Times
<1>3. sched[t].stage = "prepared" /\ sched[t].due <= now
  BY DEF StartTimer, At, Due
<1>4. \/ Becomes(t, "running", plan[t].end) /\ UNCHANGED <<plan, owed, faults>>
      \/ /\ Fault(t) /\ Becomes(t, "prepared", now + Backoff)
         /\ plan' = [plan EXCEPT ![t].begin = now + Backoff]
  BY DEF StartTimer
<1>5. /\ sched' \in Schedules /\ sched'[t].stage \in {"running", "prepared"}
      /\ sched'[t].stage = "prepared" => sched'[t].due = now + Backoff
      /\ \A x \in Timers \ {t} : sched'[x] = sched[x]
  BY <1>2, <1>4, BecomesType DEF Stages
<1>6. /\ plan' \in [Timers -> Plan] /\ \A x \in Timers : plan'[x].zap = plan[x].zap
      /\ \A x \in Timers \ {t} : plan'[x] = plan[x]
      /\ plan'[t].begin = plan[t].begin \/ plan'[t].begin = now + Backoff
      /\ sched'[t].stage = "prepared" => plan'[t].begin = now + Backoff
  <2>1. CASE UNCHANGED plan /\ Becomes(t, "running", plan[t].end)
    BY <1>2, <2>1, BecomesType DEF TypeOK, Stages
  <2>2. CASE plan' = [plan EXCEPT ![t].begin = now + Backoff]
    BY <1>2, <2>2 DEF TypeOK, Plan
  <2> QED
    BY <1>4, <2>1, <2>2
<1>7. Good(ui', sched') /\ ui'.quit = ui.quit /\ ui'.screens = ui.screens
  <2>1. CASE Recording(t)
    BY <1>2, <2>1, GotStartGood DEF StartTimer
  <2>2. CASE ~Recording(t)
    <3>1. Running(sched') \subseteq Running(sched)
      BY <1>5, <2>2 DEF Running
    <3>2. CASE Shown(ui) = "standby" /\ ui' = Close(ui, "left")
      BY <1>2, <3>2, CloseGood, NoneDiffers DEF Answers
    <3>3. CASE ui' = ui
      BY <3>1, <3>3, FewerRun
    <3> QED
      BY <2>2, <3>2, <3>3 DEF StartTimer
  <2> QED
    BY <2>1, <2>2
<1>8. TypeOK'
  BY <1>1, <1>4, <1>5, <1>6, <1>7, Times DEF TypeOK, Schedules, Stages, Fault, Good
<1>9. Timed'
  <2>1. now >= Prepare
    BY <1>2, <1>3, TypeFacts, Times DEF Timed
  <2>2. now + Backoff >= Prepare
    BY <1>2, <2>1, Times
  <2> QED
    BY <1>5, <1>6, <2>2 DEF Timed
<1>10. Follows(ui, ui', sched')
  BY <1>7 DEF Follows
<1> QED
  BY <1>1, <1>6, <1>8, <1>9, <1>10, FollowsNext

LEMMA EndKeeps ==
    ASSUME ShutdownInv, NEW t \in Timers, EndTimer(t)
    PROVE  ShutdownInv' /\ CutsNothing
<1> USE DEF ShutdownInv
<1>1. /\ Becomes(t, "ended", plan[t].end) /\ plan[t].end \in Nat
      /\ UNCHANGED <<now, plan, sleep, jobs, box, ready, wakeup, byTimer, auto, owed, user, faults>>
  BY TypeFacts DEF EndTimer, boxVars
<1>2. sched' \in Schedules /\ sched'[t].stage = "ended" /\ \A x \in Timers \ {t} : sched'[x] = sched[x]
  BY <1>1, BecomesType DEF Stages
<1> DEFINE u == IF Recording(t) THEN GotEnd(ui, sched') ELSE ui
<1>3. ui' = AfterEvent(u, sched', t)
  BY DEF EndTimer
<1>4. now \in Nat /\ ui \in UI /\ Good(ui, sched')
  BY <1>1, BecomesGood, TypeFacts DEF Stages
<1>5. Follows(ui, u, sched')
  BY <1>4, GotEndFollows, FollowsItself
<1> HIDE DEF u
<1>6. Follows(u, ui', sched')
  BY <1>3, <1>4, <1>5, AfterEventFollows DEF Follows, Good
<1>7. Follows(ui, ui', sched')
  BY <1>5, <1>6, FollowsOn
<1>8. TypeOK'
  BY <1>1, <1>2, <1>7 DEF TypeOK, Schedules, Stages, Follows, Good
<1>9. Timed'
  BY <1>1, <1>2 DEF Timed
<1> QED
  BY <1>1, <1>7, <1>8, <1>9, FollowsNext

-----------------------------------------------------------------------------
(***************************************************************************)
(* The screens, the sleep timer and the user.                              *)
(***************************************************************************)

\* A step of the screens alone.
LEMMA ScreensKeep ==
    ASSUME ShutdownInv, UNCHANGED <<now, plan, sched, boxVars, owed, faults>>,
           Good(ui', sched), ui.screens = << >> => ui'.screens = << >>,
           sleep' \in Nat \cup {None}, jobs' \in BOOLEAN, user' \in 0..MaxUser
    PROVE  ShutdownInv'
<1> USE DEF ShutdownInv
<1>1. UNCHANGED <<box, ready, wakeup, byTimer, auto>>
  BY DEF boxVars
<1>2. TypeOK'
  BY <1>1 DEF TypeOK, Good
<1>3. Timed' /\ Dark'
  BY <1>1 DEF Timed, Dark
<1>4. Good(ui, sched)'
  <2>1. Running(sched)' = Running(sched)
    BY DEF Running, Recording
  <2> QED
    BY <2>1 DEF Good, Settled, Calm, InTryQuit, Shown, Top
<1> QED
  BY <1>2, <1>3, <1>4

LEMMA ScreensFollow ==
    ASSUME ShutdownInv, UNCHANGED <<now, plan, sched, boxVars, owed, faults>>,
           Follows(ui, ui', sched),
           sleep' \in Nat \cup {None}, jobs' \in BOOLEAN, user' \in 0..MaxUser
    PROVE  ShutdownInv' /\ CutsNothing
<1>1. ShutdownInv'
  BY ScreensKeep DEF Follows
<1>2. CutsNothing
  BY DEF Follows, CutsNothing, Running
<1> QED
  BY <1>1, <1>2

LEMMA SleepKeeps ==
    ASSUME ShutdownInv, SleepTimerEnds
    PROVE  ShutdownInv' /\ CutsNothing
<1>1. /\ UNCHANGED <<now, plan, sched, jobs, boxVars, owed, user, faults>>
      /\ sleep' = None /\ ui' = SleepTimer(ui, Ask) /\ Ask \in BOOLEAN
  BY ShutdownAssumption DEF SleepTimerEnds
<1>2. /\ now \in Nat /\ ui \in UI /\ Good(ui, sched) /\ jobs \in BOOLEAN /\ user \in 0..MaxUser
  BY TypeFacts DEF ShutdownInv, TypeOK
<1>3. Follows(ui, ui', sched)
  BY <1>1, <1>2, SleepTimerFollows
<1> QED
  BY <1>1, <1>2, <1>3, ScreensFollow

LEMMA JobsKeep ==
    ASSUME ShutdownInv, JobsEnd
    PROVE  ShutdownInv' /\ CutsNothing
<1>1. /\ UNCHANGED <<now, plan, sched, sleep, boxVars, ui, owed, user, faults>> /\ jobs' \in BOOLEAN
  BY DEF JobsEnd
<1>2. sleep' \in Nat \cup {None} /\ user' \in 0..MaxUser /\ Follows(ui, ui', sched)
  BY <1>1, FollowsItself DEF ShutdownInv, TypeOK
<1> QED
  BY <1>1, <1>2, ScreensFollow

\* A question whose selection is moved stays on the screen, and waits.
LEMMA MoveFollows ==
    ASSUME ui \in UI, Good(ui, sched), Shown(ui) # None, NEW v \in Move(ui)
    PROVE  Follows(ui, v, sched)
<1>1. ui.screens \in Seq(Screens) /\ ui.screens # << >> /\ ui.answer = None
  BY TopType DEF UI
<1>2. ASSUME NEW x \in TryQuit
      PROVE  /\ <<x>> \o Tail(ui.screens) \in Seq(Screens)
             /\ <<x>> \o Tail(ui.screens) # << >>
  <2>1. x \in Screens
    BY DEF Screens
  <2>2. Tail(ui.screens) \in Seq(Screens)
    BY <1>1
  <2> QED
    BY <2>1, <2>2
<1>3. /\ v \in UI /\ v.timeout = None /\ v.answer = ui.answer /\ v.quit = ui.quit
      /\ v.screens # << >>
  <2>1. CASE InTryQuit(ui)
    <3>1. PICK x \in TryQuit :
             v = [[ui EXCEPT !.timeout = None] EXCEPT !.screens = <<x>> \o Tail(@)]
      BY <2>1 DEF Move
    <3> DEFINE new == <<x>> \o Tail(ui.screens)
    <3>3. new \in Seq(Screens) /\ new # << >>
      BY <1>2
    <3>4. v = [[ui EXCEPT !.timeout = None] EXCEPT !.screens = new]
      BY <3>1 DEF UI
    <3> HIDE DEF new
    <3> QED
      BY <1>1, <3>3, <3>4 DEF UI
  <2>2. CASE ~InTryQuit(ui)
    BY <1>1, <2>2 DEF Move, UI
  <2> QED
    BY <2>1, <2>2
<1>4. Good(v, sched)
  BY <1>1, <1>3, NoneDiffers DEF Good, Settled, Calm
<1> QED
  BY <1>1, <1>3, <1>4 DEF Follows

LEMMA UserKeeps ==
    ASSUME ShutdownInv, PowerKey \/ OpenMenu \/ LeaveScreen \/ Answer
    PROVE  ShutdownInv' /\ CutsNothing
<1>1. /\ UNCHANGED <<now, plan, sched, sleep, jobs, boxVars, owed, faults>>
      /\ sleep' \in Nat \cup {None} /\ jobs' \in BOOLEAN /\ user' \in 0..MaxUser
  BY Times DEF PowerKey, OpenMenu, LeaveScreen, Answer, ByUser, ShutdownInv, TypeOK
<1>2. ui \in UI /\ Good(ui, sched) /\ now \in Nat
  BY TypeFacts DEF ShutdownInv
<1>3. /\ Shown(ui) # None => Shown(ui) = Top(ui) /\ ui.answer = None /\ ui.screens # << >>
  BY <1>2, TopType
<1>4. ASSUME NEW x \in {"menu", "standby"}, Shown(ui) # None, ui' = Push(ui, x, None)
      PROVE  Follows(ui, ui', sched)
  <2>1. x \in Screens /\ x \notin Questions
    BY DEF Screens, Questions
  <2>2. Good(Push(ui, x, None), sched) /\ Push(ui, x, None).quit = ui.quit
    BY <1>2, <1>3, <1>4, <2>1, PushGood
  <2> QED
    BY <1>3, <1>4, <2>2 DEF Follows
<1>5. CASE PowerKey
  <2>1. Shown(ui) # None
    BY <1>5, NoneDiffers DEF PowerKey
  <2>2. Follows(ui, OpenTryQuit(ui, sched, "quitYes"), sched)
    BY <1>2, <1>3, <2>1, OpenTryQuitFollows DEF TryQuit
  <2>3. Follows(ui, ui', sched)
    BY <1>4, <1>5, <2>1, <2>2 DEF PowerKey
  <2> QED
    BY <1>1, <2>3, ScreensFollow
<1>6. CASE OpenMenu
  <2>1. Follows(ui, ui', sched)
    BY <1>4, <1>6, NoneDiffers DEF OpenMenu
  <2> QED
    BY <1>1, <2>1, ScreensFollow
<1>7. CASE LeaveScreen
  <2>1. Shown(ui) # None /\ ui' = Close(ui, "left")
    BY <1>7, NoneDiffers DEF LeaveScreen
  <2>2. Follows(ui, ui', sched)
    BY <1>2, <2>1, CloseGood DEF Follows, Answers
  <2> QED
    BY <1>1, <2>2, ScreensFollow
<1>8. CASE Answer
  <2>1. Shown(ui) # None /\ (~InTryQuit(ui) => Shown(ui) \in Questions)
    BY <1>8, NoneDiffers DEF Answer, InTryQuit
  <2>2. CASE ui' = Close(ui, "no") \/ (~InTryQuit(ui) /\ ui' = Close(ui, "yes"))
    <3>1. Follows(ui, ui', sched)
      BY <1>2, <2>1, <2>2, CloseGood DEF Follows, Answers
    <3> QED
      BY <1>1, <3>1, ScreensFollow
  <2>3. CASE ui' = Quits(ui, "user")
    <3>1. /\ Good(ui', sched) /\ ui'.screens = ui.screens
          /\ ui'.quit = IF ui.quit = "no" THEN "user" ELSE ui.quit
      BY <1>2, <2>3, QuitsGood
    <3>2. CutsNothing
      BY <3>1 DEF CutsNothing
    <3> QED
      BY <1>1, <3>1, <3>2, ScreensKeep
  <2>4. CASE ui' \in Move(ui)
    <3>1. Follows(ui, ui', sched)
      BY <1>2, <2>1, <2>4, MoveFollows
    <3> QED
      BY <1>1, <3>1, ScreensFollow
  <2> QED
    BY <1>8, <2>2, <2>3, <2>4 DEF Answer
<1> QED
  BY <1>5, <1>6, <1>7, <1>8

\* The countdown of the question to go down ends only while nothing records.
LEMMA TimeoutKeeps ==
    ASSUME ShutdownInv, TimeoutCallback
    PROVE  ShutdownInv' /\ CutsNothing
<1>1. UNCHANGED <<now, plan, sched, sleep, jobs, boxVars, owed, user, faults>>
  BY DEF TimeoutCallback
<1>2. /\ ui \in UI /\ Good(ui, sched) /\ ui.timeout # None
      /\ sleep \in Nat \cup {None} /\ jobs \in BOOLEAN /\ user \in 0..MaxUser
  BY TypeFacts DEF ShutdownInv, TypeOK, TimeoutCallback, Over
<1>3. Shown(ui) \in Questions \cup TryQuit /\ Shown(ui) # None
  BY <1>2, NoneDiffers DEF Good, Settled
<1>4. CASE Shown(ui) = "quitYes"
  <2>1. ui' = Quits(ui, "expired")
    BY <1>4 DEF TimeoutCallback
  <2>2. Running(sched) = {}
    BY <1>2, <1>4 DEF Good, Calm, InTryQuit, TryQuit
  <2>3. Good(ui', sched) /\ ui'.screens = ui.screens
    BY <1>2, <2>1, QuitsGood
  <2>4. CutsNothing
    BY <1>1, <2>2 DEF CutsNothing, Running
  <2> QED
    BY <1>1, <1>2, <2>3, <2>4, ScreensKeep
<1>5. CASE Shown(ui) # "quitYes"
  <2>1. ui' = Close(ui, "no") \/ (Shown(ui) \in Questions /\ ui' = Close(ui, "yes"))
    <3>1. CASE Shown(ui) = "quitNo"
      BY <1>5, <3>1 DEF TimeoutCallback
    <3>2. CASE Shown(ui) # "quitNo"
      <4>1. Shown(ui) \in Questions
        BY <1>3, <1>5, <3>2 DEF TryQuit
      <4> QED
        BY <1>5, <3>2, <4>1 DEF TimeoutCallback
    <3> QED
      BY <3>1, <3>2
  <2>2. Follows(ui, ui', sched)
    BY <1>2, <1>3, <2>1, CloseGood DEF Follows, Answers
  <2> QED
    BY <1>1, <1>2, <2>2, ScreensFollow
<1> QED
  BY <1>4, <1>5

LEMMA DelayKeeps ==
    ASSUME ShutdownInv, ProcessDelay
    PROVE  ShutdownInv' /\ CutsNothing
<1> DEFINE below == [ui EXCEPT !.screens = Tail(@), !.answer = None]
           u == CheckNotifications(below, sched)
<1>1. UNCHANGED <<now, plan, sched, sleep, jobs, boxVars, owed, user, faults>>
  BY DEF ProcessDelay
<1>2. /\ ui \in UI /\ Good(ui, sched) /\ now \in Nat /\ ui.answer # None
      /\ sleep \in Nat \cup {None} /\ jobs \in BOOLEAN /\ user \in 0..MaxUser
  BY TypeFacts DEF ShutdownInv, TypeOK, ProcessDelay
<1>3. ui.timeout = None /\ ui.screens # << >> /\ (ui.answer = "yes" => Top(ui) \in Questions)
  BY <1>2, NoneDiffers DEF Good, Settled, Shown
<1>4. Follows(ui, below, sched)
  <2>1. ui.screens \in Seq(Screens)
    BY <1>2 DEF UI
  <2>2. Tail(ui.screens) \in Seq(Screens)
    BY <1>3, <2>1
  <2>3. /\ below \in UI /\ below.timeout = None /\ below.answer = None /\ below.quit = ui.quit
    BY <1>2, <1>3, <2>2 DEF UI
  <2> HIDE DEF below
  <2> QED
    BY <1>3, <2>3, NoneDiffers DEF Follows, Good, Settled, Calm
<1>5. ui' = IF ui.answer # "yes" THEN u
            ELSE CASE Top(ui) = "askStandby" -> AddNotification(u, sched, "standby")
                   [] Top(ui) = "askDeep" -> AddNotification(u, sched, "quit")
                   [] Top(ui) = "askSleep" -> SleepTimer(u, FALSE)
  BY DEF ProcessDelay
<1> HIDE DEF below
<1>6. Follows(below, u, sched)
  BY <1>2, <1>4, CheckNotificationsFollows DEF Follows, Good
<1> HIDE DEF u
<1>7. u \in UI /\ Good(u, sched)
  BY <1>6 DEF Follows, Good
<1>8. Follows(u, ui', sched)
  <2>1. CASE ui.answer # "yes"
    <3>1. ui' = u
      BY <1>5, <2>1
    <3> QED
      BY <1>7, <3>1, FollowsItself
  <2>2. CASE ui.answer = "yes"
    <3>1. \/ \E n \in {"standby", "quit"} : ui' = AddNotification(u, sched, n)
          \/ ui' = SleepTimer(u, FALSE)
      BY <1>3, <1>5, <2>2 DEF Questions
    <3>2. \A n \in {"standby", "quit"} : Follows(u, AddNotification(u, sched, n), sched)
      BY <1>2, <1>7, AddNotificationFollows DEF Notes
    <3>3. Follows(u, SleepTimer(u, FALSE), sched)
      BY <1>2, <1>7, SleepTimerFollows
    <3> QED
      BY <3>1, <3>2, <3>3
  <2> QED
    BY <2>1, <2>2
<1>9. Follows(ui, ui', sched)
  BY <1>4, <1>6, <1>8, FollowsOn
<1> QED
  BY <1>1, <1>2, <1>9, ScreensFollow

-----------------------------------------------------------------------------
(***************************************************************************)
(* Down and up.                                                            *)
(***************************************************************************)
\* A set of times has an earliest.
LEMMA Earliest ==
    ASSUME NEW S, S \subseteq Nat, S # {}
    PROVE  Min(S) \in S /\ \A x \in S : Min(S) <= x
<1>1. PICK m \in S : \A y \in S : ~ (<<y, m>> \in OpToRel(<, Nat))
  BY WFMin, NatLessThanWellFounded, Zenon
<1>2. \A y \in S : ~ (y < m)
  BY <1>1 DEF OpToRel
<1>3. \A y \in S : m <= y
  BY <1>2
<1> QED
  BY <1>3 DEF Min

LEMMA BlankGood == \A s : Good(Blank, s)
<1>1. /\ Blank \in UI /\ Blank.screens = << >> /\ Blank.timeout = None /\ Blank.answer = None
      /\ Blank.quit = "no"
  <2>1. << >> \in Seq(Screens) /\ << >> \in Seq(Questions \cup {"standby", "quit", "later", "boot"})
    OBVIOUS
  <2> QED
    BY <2>1 DEF Blank, UI
<1> QED
  BY <1>1, NoneDiffers DEF Good, Settled, Calm

LEMMA UpcomingType ==
    ASSUME TypeOK
    PROVE  Upcoming(sched) \subseteq Nat /\ NextZap \subseteq Nat
BY TypeFacts DEF Upcoming, NextZap, Listed

\* The wake-up comes after now, early enough for the first of what is programmed.
LEMMA WakeupType ==
    ASSUME now \in Nat, NEW first \in Nat
    PROVE  /\ WakeupFor(first) \in Nat /\ now < WakeupFor(first)
           /\ \/ WakeupFor(first) = now + Restart /\ first <= now + NoLead
              \/ WakeupFor(first) + Lead = first
BY Times DEF WakeupFor

LEMMA LeaveKeeps ==
    ASSUME ShutdownInv, LeaveMainloop
    PROVE  ShutdownInv' /\ CutsNothing
<1> DEFINE next == Upcoming(sched) \cup NextZap
<1>1. /\ UNCHANGED <<now, plan, sched, sleep, jobs, ready, user, faults>>
      /\ wakeup' = IF next = {} THEN wakeup ELSE WakeupFor(Min(next))
      /\ box' = "off" /\ byTimer' = FALSE /\ ui' = Blank
      /\ owed' \subseteq owed
  BY DEF LeaveMainloop
<1>2. auto' \in BOOLEAN
  BY DEF LeaveMainloop
<1>3. wakeup' \in Nat \cup {None}
  <2>1. next \subseteq Nat /\ now \in Nat
    BY UpcomingType, TypeFacts DEF ShutdownInv
  <2>2. CASE next = {}
    BY <1>1, <2>2 DEF ShutdownInv, TypeOK
  <2>3. CASE next # {}
    BY <1>1, <2>1, <2>3, Earliest, WakeupType
  <2> QED
    BY <2>2, <2>3
<1>4. Good(ui', sched') /\ ui'.screens = << >> /\ ui'.quit = "no"
  BY <1>1, BlankGood DEF Blank
<1>5. TypeOK'
  BY <1>1, <1>2, <1>3, <1>4 DEF ShutdownInv, TypeOK, Good
<1>6. Timed' /\ Dark' /\ CutsNothing
  BY <1>1, <1>4 DEF ShutdownInv, Timed, Dark, CutsNothing
<1>7. Good(ui, sched)'
  <2>1. Running(sched)' = Running(sched')
    BY <1>1 DEF Running, Recording
  <2> QED
    BY <1>4, <2>1 DEF Good, Settled, Calm, InTryQuit, Shown, Top
<1> QED
  BY <1>5, <1>6, <1>7 DEF ShutdownInv

LEMMA SwitchKeeps ==
    ASSUME ShutdownInv, SwitchOn
    PROVE  ShutdownInv' /\ CutsNothing
<1> USE DEF ShutdownInv
<1>1. /\ UNCHANGED <<now, plan, sched, sleep, jobs, wakeup, auto, ui, owed, faults>>
      /\ box = "off" /\ box' = "booting" /\ ready' = now + BootTime /\ byTimer' \in BOOLEAN
      /\ user' \in 0..MaxUser
  <2>1. byTimer' \in BOOLEAN
    BY Zenon DEF SwitchOn
  <2>2. user' \in 0..MaxUser
    BY Times DEF SwitchOn, TypeOK
  <2> QED
    BY <2>1, <2>2 DEF SwitchOn
<1>2. ready' \in Nat
  BY <1>1, TypeFacts, Times
<1>3. TypeOK'
  BY <1>1, <1>2 DEF TypeOK
<1>4. Timed' /\ Dark'
  BY <1>1 DEF Timed, Dark
<1>5. Follows(ui, ui', sched')
  BY <1>1, FollowsItself
<1> QED
  BY <1>1, <1>3, <1>4, <1>5, FollowsNext

LEMMA LoadKeeps ==
    ASSUME ShutdownInv, LoadTimer
    PROVE  ShutdownInv' /\ CutsNothing
<1> USE DEF ShutdownInv
<1>1. /\ UNCHANGED <<now, plan, ready, wakeup, byTimer, auto, ui, owed, user, faults>>
      /\ box = "booting" /\ box' = "starting"
      /\ sched' = [t \in Timers |-> Reloaded(t)]
      /\ sleep' = None /\ jobs' = FALSE
  BY DEF LoadTimer
<1>2. /\ sched' \in Schedules /\ \A t \in Timers : sched'[t].stage \in {"waiting", "ended"}
  <2>1. \A t \in Timers : /\ Reloaded(t) \in [stage : Stages, due : Nat]
                          /\ Reloaded(t).stage \in {"waiting", "ended"}
    BY TypeFacts, Times DEF Reloaded, Timed, Stages
  <2> QED
    BY <1>1, <2>1 DEF Schedules
<1>3. TypeOK'
  BY <1>1, <1>2 DEF TypeOK, Schedules, Stages
<1>4. Timed' /\ (ui.screens = << >> => Dark')
  BY <1>1, <1>2 DEF Timed, Dark
<1>5. Running(sched') \subseteq Running(sched)
  BY <1>2 DEF Running
<1>6. Follows(ui, ui', sched')
  BY <1>1, <1>5, FewerRun, FollowsItself
<1> QED
  BY <1>1, <1>3, <1>4, <1>6, FollowsNext DEF Dark

LEMMA SessionKeeps ==
    ASSUME ShutdownInv, StartSession
    PROVE  ShutdownInv' /\ CutsNothing
<1> DEFINE u == IF byTimer /\ auto /\ (Held(sched) # {} \/ Near(sched))
                THEN StartHandling(ui, sched, "boot") ELSE ui
           v == [u EXCEPT !.screens = <<"infobar">>]
<1>1. /\ UNCHANGED <<now, plan, sched, sleep, jobs, ready, wakeup, byTimer, auto,
                     owed, user, faults>>
      /\ box = "starting" /\ box' = "on"
      /\ ui' = CheckNotifications(v, sched)
  BY DEF StartSession
<1>2. /\ now \in Nat /\ ui \in UI /\ Good(ui, sched) /\ ui.screens = << >>
  BY <1>1, TypeFacts DEF ShutdownInv, Dark
<1>3. Follows(ui, u, sched)
  <2>1. Follows(ui, StartHandling(ui, sched, "boot"), sched)
    BY <1>2, StartHandlingFollows DEF Notes
  <2> QED
    BY <1>2, <2>1, FollowsItself
<1> HIDE DEF u
<1>4. u \in UI /\ u.screens = << >> /\ u.answer = None /\ u.timeout = None
  BY <1>2, <1>3, NoneDiffers DEF Follows, Good, Settled, Shown, Top
<1>5. v \in UI /\ v.answer = None /\ v.timeout = None /\ v.quit = u.quit
  <2>1. <<"infobar">> \in Seq(Screens)
    BY DEF Screens
  <2> QED
    BY <1>4, <2>1 DEF UI
<1> HIDE DEF v
<1>6. Good(v, sched)
  BY <1>5, NoneDiffers DEF Good, Settled, Calm
<1>7. Follows(v, ui', sched)
  BY <1>1, <1>2, <1>5, <1>6, CheckNotificationsFollows
<1>8. CutsNothing
  BY <1>1, <1>3, <1>5, <1>7 DEF CutsNothing, Follows, Running
<1>9. TypeOK' /\ Timed' /\ Dark'
  BY <1>1, <1>7 DEF ShutdownInv, TypeOK, Timed, Dark, Follows, Good
<1>10. Good(ui, sched)'
  <2>1. Running(sched)' = Running(sched)
    BY <1>1 DEF Running, Recording
  <2>2. Good(ui', sched) /\ sched' = sched
    BY <1>1, <1>7 DEF Follows
  <2> QED
    BY <2>1, <2>2 DEF Good, Settled, Calm, InTryQuit, Shown, Top
<1> QED
  BY <1>8, <1>9, <1>10 DEF ShutdownInv

LEMMA TickKeeps ==
    ASSUME ShutdownInv, Tick
    PROVE  ShutdownInv' /\ CutsNothing
<1> USE DEF ShutdownInv
<1>1. /\ UNCHANGED <<plan, sched, sleep, jobs, box, ready, wakeup, byTimer, auto, ui, owed, user, faults>>
      /\ now < MaxTime /\ now' = now + 1
  BY DEF Tick, boxVars
<1>2. now' \in 0..MaxTime
  BY <1>1, Times DEF TypeOK
<1>3. TypeOK'
  BY <1>1, <1>2 DEF TypeOK
<1>4. Timed'
  BY <1>1 DEF Timed
<1>5. Follows(ui, ui', sched')
  BY <1>1, FollowsItself
<1> QED
  BY <1>1, <1>3, <1>4, <1>5, FollowsNext

LEMMA InitShutdown == Init => ShutdownInv /\ OwedInTime
<1> SUFFICES ASSUME Init PROVE ShutdownInv /\ OwedInTime
  OBVIOUS
<1>1. /\ plan \in [Timers -> Plan] /\ \A t \in Timers : plan[t].begin >= Prepare
  BY ShutdownAssumption DEF Init
<1>2. \A t \in Timers : /\ plan[t].begin \in Nat /\ plan[t].begin - Prepare \in Nat
                        /\ plan[t].zap \in BOOLEAN
  BY <1>1, Times DEF Plan
<1>3. /\ sched = [t \in Timers |-> [stage |-> "waiting", due |-> plan[t].begin - Prepare]]
      /\ now = 0 /\ box = "on" /\ ready = 0 /\ wakeup = None /\ byTimer = FALSE /\ auto = FALSE
      /\ sleep \in Nat \cup {None} /\ jobs \in BOOLEAN /\ user = 0 /\ faults = 0
      /\ owed = {t \in Timers : ~plan[t].zap}
  BY ShutdownAssumption DEF Init
<1>4. sched \in Schedules /\ \A t \in Timers : sched[t].stage = "waiting" /\ sched[t].due = plan[t].begin - Prepare
  BY <1>2, <1>3 DEF Schedules, Stages
<1>5. ui = [Blank EXCEPT !.screens = <<"infobar">>]
  BY DEF Init
<1>6. ui \in UI /\ ui.timeout = None /\ ui.answer = None
  <2>1. <<"infobar">> \in Seq(Screens) /\ Blank \in UI
    BY BlankGood DEF Screens, Good
  <2>2. Blank.timeout = None /\ Blank.answer = None
    BY DEF Blank
  <2> QED
    BY <1>5, <2>1, <2>2 DEF UI
<1>7. Good(ui, sched)
  BY <1>6, NoneDiffers DEF Good, Settled, Calm
<1>8. TypeOK
  <2>1. byTimer \in BOOLEAN /\ auto \in BOOLEAN /\ owed \subseteq Timers
    BY <1>3, Zenon
  <2>2. now \in 0..MaxTime /\ user \in 0..MaxUser /\ faults \in 0..MaxFaults /\ ready \in Nat
    BY <1>3, Times
  <2> QED
    BY <1>1, <1>3, <1>4, <1>6, <2>1, <2>2 DEF TypeOK, Schedules, Stages
<1>9. Timed /\ Dark
  BY <1>1, <1>3, <1>4 DEF Timed, Dark
<1>10. OwedInTime
  BY <1>2, <1>3, <1>4 DEF OwedInTime, Owed, Recording
<1> QED
  BY <1>7, <1>8, <1>9, <1>10 DEF ShutdownInv

LEMMA NextKeeps ==
    ASSUME ShutdownInv, [Next]_vars
    PROVE  ShutdownInv' /\ CutsNothing
<1>1. CASE UNCHANGED vars
  <2>1. /\ UNCHANGED <<now, plan, sched, sleep, jobs, boxVars, owed, user, faults>> /\ ui' = ui
    BY <1>1 DEF vars, boxVars
  <2>2. Follows(ui, ui', sched) /\ sleep \in Nat \cup {None} /\ jobs \in BOOLEAN /\ user \in 0..MaxUser
    BY <2>1, FollowsItself DEF ShutdownInv, TypeOK
  <2> QED
    BY <2>1, <2>2, ScreensFollow
<1>2. CASE Next
  BY <1>2, SkipKeeps, PrepareKeeps, StartKeeps, EndKeeps, SleepKeeps, TimeoutKeeps, DelayKeeps,
     LeaveKeeps, LoadKeeps, SessionKeeps, SwitchKeeps, UserKeeps, JobsKeep, TickKeeps
     DEF Next, Program, Activate
<1> QED
  BY <1>1, <1>2

-----------------------------------------------------------------------------
(***************************************************************************)
(* There is always time for what is owed.                                  *)
(***************************************************************************)
LEMMA OwedSame ==
    ASSUME OwedInTime, UNCHANGED <<now, plan, sched, box, wakeup, ready>>, owed' \subseteq owed
    PROVE  OwedInTime'
BY DEF OwedInTime, Owed, Recording

\* A timer that is due goes on while the box is on.
LEMMA ActivateOwed ==
    ASSUME ShutdownInv, OwedInTime, NEW t \in Timers,
           SkipTimer(t) \/ PrepareTimer(t) \/ StartTimer(t) \/ EndTimer(t)
    PROVE  OwedInTime'
<1>1. /\ UNCHANGED <<now, box, wakeup, ready>> /\ box \in {"on", "starting"}
      /\ owed' \subseteq owed /\ owed \subseteq Timers /\ now \in Nat
      /\ plan[t].end \in Nat /\ plan[t].begin \in Nat /\ now + Backoff \in Nat
  BY TypeFacts, Times
     DEF SkipTimer, PrepareTimer, StartTimer, EndTimer, At, On, boxVars, Fault, ShutdownInv, TypeOK
<1>2. \A x \in Timers \ {t} : sched'[x] = sched[x] /\ plan'[x] = plan[x]
  <2>1. PICK stage \in Stages, due \in Nat : Becomes(t, stage, due)
    BY <1>1 DEF SkipTimer, PrepareTimer, StartTimer, EndTimer, Stages
  <2>2. plan' = plan \/ plan' = [plan EXCEPT ![t].begin = now + Backoff]
    BY DEF SkipTimer, PrepareTimer, StartTimer, EndTimer
  <2> QED
    BY <2>1, <2>2, BecomesType DEF ShutdownInv, TypeOK
<1>3. \A x \in owed' \ {t} : Owed(x)'
  BY <1>1, <1>2 DEF OwedInTime, Owed, Recording
<1>4. ASSUME t \in owed' PROVE Owed(t)'
  <2>1. Owed(t)
    BY <1>1, <1>4 DEF OwedInTime
  <2>2. UNCHANGED plan
    BY <1>4 DEF SkipTimer, PrepareTimer, StartTimer, EndTimer, Fault
  <2>3. CASE Becomes(t, "prepared", plan[t].begin) /\ sched[t].stage = "waiting"
    <3>1. sched'[t].stage = "prepared"
      BY <1>1, <2>3, BecomesType DEF Stages, ShutdownInv
    <3> QED
      BY <1>1, <2>1, <2>2, <2>3, <3>1 DEF Owed, Recording
  <2>4. CASE Becomes(t, "running", plan[t].end) \/ Becomes(t, "ended", plan[t].end)
    <3>1. sched'[t].stage \in {"running", "ended"}
      BY <1>1, <2>4, BecomesType DEF Stages, ShutdownInv
    <3> QED
      BY <1>1, <2>1, <2>2, <3>1 DEF Owed, Recording
  <2>5. ~Fault(t)
    BY <1>4 DEF Fault
  <2> QED
    BY <2>3, <2>4, <2>5 DEF SkipTimer, PrepareTimer, StartTimer, EndTimer, At
<1> QED
  BY <1>3, <1>4 DEF OwedInTime

\* What is waiting when the box goes down, and has the time, is among what the
\* wake-up is set for, which comes no later than it.
LEMMA LeaveOwed ==
    ASSUME ShutdownInv, OwedInTime, LeaveMainloop
    PROVE  OwedInTime'
<1> DEFINE next == Upcoming(sched) \cup NextZap
<1>1. /\ UNCHANGED <<now, plan, sched>> /\ box' = "off"
      /\ wakeup' = IF next = {} THEN wakeup ELSE WakeupFor(Min(next))
      /\ owed' = {t \in owed : sched[t].stage = "ended" \/ HasTime(t)}
  BY DEF LeaveMainloop
<1>2. next \subseteq Nat /\ now \in Nat /\ owed \subseteq Timers
  BY UpcomingType, TypeFacts DEF ShutdownInv, TypeOK
<1> SUFFICES ASSUME NEW t \in owed, sched[t].stage = "ended" \/ HasTime(t)
             PROVE  Owed(t)'
  BY <1>1 DEF OwedInTime
<1>3. Owed(t) /\ t \in Timers
  BY <1>2 DEF OwedInTime
<1>4. CASE sched[t].stage = "ended"
  BY <1>1, <1>3, <1>4 DEF Owed, Recording
<1>5. CASE HasTime(t)
  <2>1. /\ sched[t].stage = "waiting" /\ sched[t].due > now
        /\ sched[t].due = plan[t].begin - Prepare
        /\ sched[t].due - now > NoLead \/ now + Restart + BootTime <= plan[t].begin
    BY <1>3, <1>5 DEF HasTime, Owed
  <2>2. sched[t].due \in next
    BY <1>3, <2>1 DEF Upcoming, Listed, Owed
  <2> DEFINE first == Min(next)
  <2>3. first \in Nat /\ first <= sched[t].due
    BY <1>2, <2>2, Earliest
  <2>4. wakeup' = WakeupFor(first)
    BY <1>1, <2>2
  <2> HIDE DEF first, next
  <2>5. /\ WakeupFor(first) \in Nat /\ now < WakeupFor(first)
        /\ \/ WakeupFor(first) = now + Restart /\ first <= now + NoLead
           \/ WakeupFor(first) + Lead = first
    BY <1>2, <2>3, WakeupType
  <2>6. WakeupFor(first) + BootTime <= plan[t].begin
    <3>1. plan[t].begin \in Nat /\ sched[t].due \in Nat
      BY <1>3, TypeFacts DEF ShutdownInv
    <3> QED
      BY <1>2, <2>1, <2>3, <2>5, <3>1, Times
  <2>7. wakeup' # None
    BY <2>4, <2>5, NoneDiffers
  <2> QED
    BY <1>1, <1>2, <1>3, <2>1, <2>4, <2>5, <2>6, <2>7 DEF Owed, Recording
<1> QED
  BY <1>4, <1>5

LEMMA UpOwed ==
    ASSUME ShutdownInv, OwedInTime, SwitchOn \/ LoadTimer \/ StartSession
    PROVE  OwedInTime'
<1>1. UNCHANGED <<now, plan, wakeup, owed>> /\ now \in Nat /\ owed \subseteq Timers
  BY TypeFacts DEF SwitchOn, LoadTimer, StartSession, ShutdownInv, TypeOK
<1> SUFFICES ASSUME NEW t \in owed PROVE Owed(t)'
  BY <1>1 DEF OwedInTime
<1>2. Owed(t) /\ t \in Timers /\ plan[t].begin \in Nat
  BY <1>1, TypeFacts DEF OwedInTime, ShutdownInv
<1>3. CASE SwitchOn
  <2>1. box = "off" /\ box' = "booting" /\ ready' = now + BootTime /\ sched' = sched
    BY <1>3 DEF SwitchOn
  <2>2. wakeup \in Nat \cup {None}
    BY DEF ShutdownInv, TypeOK
  <2> QED
    BY <1>1, <1>2, <2>1, <2>2, Times DEF Owed, Recording
<1>4. CASE LoadTimer
  <2>1. box = "booting" /\ box' = "starting" /\ sched'[t] = Reloaded(t) /\ ready \in Nat
    BY <1>2, <1>4 DEF LoadTimer, ShutdownInv, TypeOK
  <2>2. \/ sched'[t].stage = "ended"
        \/ /\ sched'[t].stage = "waiting" /\ sched'[t].due = plan[t].begin - Prepare
           /\ sched[t].stage # "ended"
    BY <2>1 DEF Reloaded
  <2> QED
    BY <1>1, <1>2, <2>1, <2>2 DEF Owed, Recording
<1>5. CASE StartSession
  BY <1>1, <1>2, <1>5 DEF StartSession, Owed, Recording
<1> QED
  BY <1>3, <1>4, <1>5

\* Time passes while nothing is due.
LEMMA TickOwed ==
    ASSUME ShutdownInv, OwedInTime, Tick
    PROVE  OwedInTime'
<1>1. /\ UNCHANGED <<plan, sched, box, ready, wakeup, owed>> /\ now' = now + 1
      /\ now \in Nat /\ owed \subseteq Timers
  BY TypeFacts DEF Tick, boxVars, ShutdownInv, TypeOK
<1> SUFFICES ASSUME NEW t \in owed PROVE Owed(t)'
  BY <1>1 DEF OwedInTime
<1>2. /\ Owed(t) /\ t \in Timers /\ plan[t].begin \in Nat /\ sched[t].due \in Nat
      /\ wakeup \in Nat \cup {None} /\ ready \in Nat
      /\ sched[t].stage = "prepared" => sched[t].due = plan[t].begin
  BY <1>1, TypeFacts DEF OwedInTime, ShutdownInv, TypeOK, Timed
<1>3. CASE box = "on"
  <2>1. Due = {}
    BY <1>3 DEF Tick
  <2>2. sched[t].stage # "ended" => sched[t].due > now
    BY <1>1, <1>2, <2>1 DEF Due, Listed
  <2> QED
    BY <1>1, <1>2, <1>3, <2>2, Times DEF Owed, Recording
<1>4. CASE box = "off"
  <2>1. wakeup # now
    BY <1>4 DEF Tick
  <2> QED
    BY <1>1, <1>2, <1>4, <2>1 DEF Owed, Recording
<1>5. CASE box = "booting"
  <2>1. ready > now
    BY <1>5 DEF Tick
  <2> QED
    BY <1>1, <1>2, <1>5, <2>1 DEF Owed, Recording
<1>6. box # "starting"
  BY DEF Tick
<1> QED
  BY <1>3, <1>4, <1>5, <1>6 DEF ShutdownInv, TypeOK

LEMMA NextOwed ==
    ASSUME ShutdownInv, OwedInTime, [Next]_vars
    PROVE  OwedInTime'
<1>1. CASE UNCHANGED vars
  BY <1>1, OwedSame DEF vars, boxVars
<1>2. CASE \/ SleepTimerEnds \/ TimeoutCallback \/ ProcessDelay \/ PowerKey \/ OpenMenu
           \/ LeaveScreen \/ Answer \/ JobsEnd
  BY <1>2, OwedSame
     DEF SleepTimerEnds, TimeoutCallback, ProcessDelay, PowerKey, OpenMenu, LeaveScreen, Answer,
         ByUser, JobsEnd, boxVars
<1> QED
  BY <1>1, <1>2, ActivateOwed, LeaveOwed, UpOwed, TickOwed DEF Next, Program, Activate

-----------------------------------------------------------------------------
(***************************************************************************)
(* The theorems.                                                           *)
(***************************************************************************)
LEMMA ShutdownInvHolds == Spec => [](ShutdownInv /\ OwedInTime)
BY InitShutdown, NextKeeps, NextOwed, PTL DEF Spec

\* Every variable stays in its range: no question is open that nobody can
\* answer, and every screen that is closed was there.
THEOREM ShutdownTyped == Spec => []TypeOK
<1>1. ShutdownInv => TypeOK
  BY DEF ShutdownInv
<1> QED
  BY <1>1, ShutdownInvHolds, PTL

\* Every recording starts at its time, for any plans, although the box goes
\* down and up before, by itself or not, when there was the time for that.
THEOREM RecordingsStartInTime == Spec => []StartsInTime
<1>1. ShutdownInv /\ OwedInTime => StartsInTime
  <2> SUFFICES ASSUME ShutdownInv, OwedInTime, NEW t \in owed, plan[t].begin < now
               PROVE  sched[t].stage \in {"running", "ended"}
    BY DEF StartsInTime
  <2>1. /\ Owed(t) /\ t \in Timers /\ plan[t].begin \in Nat /\ now \in Nat
        /\ sched[t].stage \in Stages /\ wakeup \in Nat \cup {None} /\ ready \in Nat
        /\ box \in {"on", "off", "booting", "starting"}
    BY TypeFacts DEF OwedInTime, ShutdownInv, TypeOK
  <2> QED
    BY <2>1, Times DEF Owed, Stages
<1> QED
  BY <1>1, ShutdownInvHolds, PTL

\* Nothing but the user takes the box down while it records: neither the end of
\* another recording, nor the sleep timer, nor a question whose time is over.
THEOREM NothingIsCutOff == Spec => NeverCutsUnasked
<1>1. ShutdownInv /\ [Next]_vars =>
        [ui.quit = "no" /\ ui'.quit \in {"idle", "expired"} =>
            \A t \in Timers : Recording(t) => sched'[t].stage # "running"]_vars
  BY NextKeeps DEF CutsNothing
<1> QED
  BY <1>1, ShutdownInvHolds, PTL DEF Spec, NeverCutsUnasked

=============================================================================
