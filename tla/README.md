# Formal models of the set-top box firmware

The repository is the firmware of a satellite receiver: a C++ core (`lib/`) that
drives tuners, demultiplexers and the screen, and Python on top of it
(`timer.py`, `RecordTimer.py`, `Navigation.py`, `lib/python/Screens`, ...) that
decides what the box does.  The models here are about what runs unattended, over
days, with many actors: timers and what they record (section 3), playback in a
thread of its own (4), the programme guide (5), tuners and recording services
(6), background jobs (7), the fast channel change (8), and how the box goes down
and comes up again in time (9).  Each of these sections says how the models
correspond to the code, what the runs of TLC check within which bounds, what is
proved for every value of the constants, and where code and comments differ.
Section 10 lists what can go wrong and is covered by no property, section 11
what is not modelled.

## 1. Inventory

| component | source | state it keeps | operations | interacts with | what makes it correct | section |
|---|---|---|---|---|---|---|
| Timers | `timer.py`, `RecordTimer.py` | two sorted lists (`timer_list`, `processed_timers`), the fields and stage of each entry, the time of the last activation, `timers.xml` | record, remove, timeChanged, cleanup, the eTimer callback, save, load | the eTimer calls it; it takes and returns recordings of eNavigation; screens call it and are called back | a timer is in one list, the one its stage calls for; a tuner is held exactly while a recording is prepared or runs; nothing due is left behind; the next wake-up is always set; every handler returns | 3 |
| Timer screens | `Screens/TimerEdit.py`, `Screens/TimerEntry.py`, `InfoBarGenerics.py` | which dialog is open, and about which timer | edit, toggle, remove, cleanup, the list of conflicts, instant recording | change entries in place, then call timeChanged, possibly many seconds later | an answer that comes late is still about a timer that exists, and does what the screen said | 3 |
| Conflict check | `Components/TimerSanityCheck.py` | none between calls | check, doubleCheck, getSimulTimerList | reads `timer_list` | refuses what the tuners cannot record, and nothing else | 3 (its answer is a choice) |
| eNavigation | `lib/nav/core.cpp`, `Navigation.py` | the playing service, the set of recordings | playService, recordService, stopRecordService, shutdown | service handlers; events to Python | one service per recording, released once | 3, 6, 8 |
| Main loop | `lib/base/ebase.cpp` | eTimers by due time, sockets, the event under way | addTimer, removeTimer, processOneEvent | calls everything | each eTimer fires once per start, never early, and may be stopped from any callback | as the scheduling of every model |
| Threads, pumps | `lib/base/thread.cpp`, `message.h`, `elock.cpp` | a semaphore, an alive flag; queues | run, kill, sync, the thread's body; send, receive | file pusher, EPG cache, playback | run and kill meet every thread exactly once | 4, 5 |
| File pusher | `lib/base/filepush.cpp` | a buffer, a stop flag, a position | start, stop, pause, seek, the push loop | source file or demux, destination | every byte once and in order; stop always ends the thread | 4 |
| EPG cache | `lib/dvb/epgcache.cpp` | events of each service in two maps, channels under collection | sections, private sections, cleaning, channel events, queries, save, load | main loop and its own thread | the maps agree; one event per id and per start; a channel that is gone is let go of | 5 |
| Channels | `lib/dvb/dvb.cpp`, `fbc.cpp` | tuners and their use counts, active channels, the cached channel and its release timer | allocateChannel, addChannel, removeChannel, releaseCachedChannel | service handlers, scan, frontends | a tuner carries one channel; it is free when its last user left | 6 |
| Service handlers | `lib/dvb/pmt.cpp`, `service/servicedvbrecord.cpp`, `servicedvb.cpp` | tune and program state, the recording's state and file | prepare, start, stop, events of tuner and tables | channels, demultiplexers, eNavigation | a recording that runs has all it needs, one that failed half way holds nothing | 6 |
| Jobs | `Components/Task.py` | the queue, the active job, its tasks, those that failed | AddJob, run, callbacks, retry, abort | external programs, screens | one job after the other, each ends | 7 |
| Fast channel change | `lib/dvb/fcc.cpp`, `service/servicedvbfcc.cpp`, its plugin | services prepared in advance, a list of what to prepare, timers | prepare, try, stop; zaps, events, recordings | service handlers, channels | one decodes, the rest fits beside it and leaves tuners to recordings | 8 |
| Standby, shutdown | `Screens/Standby.py`, `mytest.py`, `RecordTimer.py` (AFTEREVENT), `Navigation.py` | whether the box is in standby, who asked, what is shown, the wake-up time | enter, leave, ask, quit, boot | timers, notifications, front processor | nothing is cut off unasked; up again before the next recording | 9 |
| Sleep timer | `SleepTimer.py` | one timer | ask or act at its end | standby, notifications | as above | 9 |
| Notifications | `Tools/Notifications.py` | screens that wait for the infobar | add, open, close | timers, jobs | each is shown once | 9 |
| Recording thread | `lib/dvb/demux.cpp`, `lib/base/rawfile.cpp`, `ringbuffer` | a thread on `eThread` | start, stop, filter | recording service | as the file pusher | planned |
| Tuner driver, DiSEqC | `lib/dvb/frontend.cpp`, `sec.cpp` | tune state, a command sequence | tune, timeout, data | drivers | the sequence ends, with or without lock | no |
| CI modules | `lib/dvb_ci/` | sessions, routes | session open and close, routing | module in the slot | one route per stream | no |
| The rest | drawing, skins, configuration, databases, parsers, players, plugins, data | | | | not state machines a checker would help with | no |

What is hard here, and where (the hazards of `PROJECT.json`, by line): handlers
that call each other while a loop over the same list runs; an eTimer on one
clock for times of another; dialogs that answer late; refused activations that
are retried; edits in place of an entry that sits in a sorted list; exceptions
that end the program; power failures between two writes; threads that are
started and stopped by hand, and share buffers and flags with the main loop
without a lock, or take two locks in two orders; use counts over several kinds
of users; events of tuner and tables in any order; a shutdown that is decided
now and carried out later.

## 2. Plan

Done: sections 3 to 9.  In this order of importance, what is left:

1. `RecordThread` - eDVBTSRecorder and its thread, on `EThread` as `FilePush`
   is: its stop closes the source first, and its filter drops data.  `FilePush`
   with a cut list: spans the main loop replaces while the thread walks over
   them.
2. The allocation of tuners with the counts of `FCC` (`canAllocateChannel` looks
   at `m_fcc_chids`): `Channels` and `FCC` composed, and the refusals of
   `RecordTimer` and `Shutdown` explained by `RecordService`.
3. `MainLoop` - the list of eTimers, callbacks that start and stop others,
   nested loops.
4. Functions: the daylight saving change of `addOneDay`, and the simulation of
   the conflict check against a reference definition.

Which module composes which: `FilePush` and its proofs extend `EThread`;
`RecordService` extends `Channels`; `FCCSupport` extends `FCC`; `RecordTimer`
extends `TimerEntry`.  The abstract specifications are `TimerLifecycle` (of
`RecordTimer`) and `EPGListing` (of `EPGStore`), each reached by `INSTANCE ...
WITH`.

Deadlock is not checked in any run: every model has bounds (on operations,
faults, the clock) after which nothing is left to do.  That nothing stops
earlier is what the liveness properties say.

## 3. The record timer

### Modules

| module | models |
|---|---|
| `TimerEntry` | one entry: the fields of `TimerEntry` and `RecordTimerEntry`, each method an operator from the entry before to the entry after |
| `RecordTimer` | `Timer`, `RecordTimer`, the recordings of eNavigation, `timers.xml`, the screens, the clock, failures: the state machine |
| `RecordTimerProperties` | what must be true of it |
| `TimerLifecycle` | the abstract specification: what is promised of one timer and its tuner |
| `MCRecordTimer` | the small instances TLC checks |
| `RecordTimerProofs` | theorems and proofs about it, in six parts: types, lists, services, the refinement of `TimerLifecycle`, refused activations, disabled timers |
| `RecordTimerOrderProofs` | four parts more, on top of these: the order of `timer_list` with the wake-up, what `removeEntry` looks for, the time of day of repeated timers, what a restart brings back |

### State

| variable | code |
|---|---|
| `now` | `time()` |
| `wait` | the eTimer of `Timer`: seconds left, `Off` when it is not running. It counts on CLOCK_MONOTONIC (`ebase.cpp`), so setting `now` leaves it alone |
| `lastActivation`, `timer_list`, `processed_timers` | the attributes of `Timer` |
| `entry[t]` | the attributes of entry `t`; `svc` is whether `record_service` holds a service |
| `recordings[t]` | how many services of `t` are in `eNavigation::m_recordings` |
| `todo` | the call stack: a frame for each call that has not finished, innermost first |
| `dialog` | the screen that will call back, and the timer it is about |
| `file` | `timers.xml`; `Truncated` between `open(..., 'w')` and the write |
| `left` | what is left of the bounds on faults, clock jumps, crashes and user operations |

Times are whole seconds; the code's fractions of a second only decide ties.
`PrepareTime`, `MaxWaitTime`, `BackoffFirst`, `BackoffMax`, `AutoIncrease` (a
day) and `Lead` (30 s) are constants because their values in the code are.
`DayLength` is fixed: there is no daylight saving change in the model.

### Steps

The program is single-threaded, but its handlers nest: `addTimerEntry` calls
`calcNextActivation`, which activates what is due, which re-adds repeated timers
with `addTimerEntry`, which calls `calcNextActivation` again - inside the loop
of the first one, with the loop's older idea of the time.  One action per
handler would hide exactly this, so a call is a frame on `todo`, and the top
frame takes one step at a time:

| frame | call under way | action |
|---|---|---|
| `calc` | `calcNextActivation` is called | `CalcNextActivation` |
| `rearm` | its loop over the processed timers, after the clock stepped back | `ReEvaluate` |
| `process` | the loop of `processActivation`, with its `t = int(time()) + 1` rounded to whole seconds | `ProcessActivation`, `SetNextActivation` |
| `save`, `write` | `saveTimer` | `Truncate`, `Write` |
| `boot`, `load` | start of the program, `loadTimer` | `Boot`, `LoadTimer` |
| `add` | `RecordTimer.record` | `AddRecord` |
| `limit` | `setAutoincreaseEnd` and `timeChanged` for the recordings in conflict | `LimitRecording` |
| `extend`, `remove` | the second half of `removeEntry` | `ExtendRecordings`, `RemoveProcessed` |
| `edited` | the end of `finishedEdit` | `CheckEdited` |
| `activate`, `retime` | the two calls of `runningEventCallback` | `ActivateChosen`, `RetimeChosen` |

User operations, the eTimer and the setting of the clock wait until `todo` is
empty, because only the main loop dispatches them.  Time passes, and power
fails, at any step.  An exception that leaves a callback ends the program
(`python.cpp:210`): `Fatal`, followed by a boot.

`doActivate` and the stage of `activate` it calls are one step (`Skip`,
`Prepare`, `Start`, `Stop`): nothing in them is interrupted.  Refusals are
choices bounded by `Faults` and `left.fault`: no service, prepare fails, start
fails.

Choices the model leaves open because their cause is outside it: what the
conflict check answers (it depends on the tuners) and with which conflicts;
where `insort` puts an entry of a list that is not sorted; what the user enters,
among `Templates`.

### The abstract specification

`TimerLifecycle` knows a phase and a number of held services for each timer.
`RecordTimerProperties!PhaseOf` maps the concrete state to it: absent when the
timer is in no list, otherwise its stage.  `FollowsLifecycle` says that every
step of the record timer is one of the abstract steps or a stutter; so the tuner
is taken when a waiting timer is prepared, kept through the recording, and
returned in the very step that ends it.

### Properties and runs

Bounds of all runs: two timers of the same service, a week of two days of four
seconds, `PrepareTime` 1, backoff 1 then 2, and a clock that stops at 4 or 6.
Two timers are needed for nesting and for order.  A third matters where an edit
in place leaves the list out of order and an entry is then looked for behind two
others (see below); that case is argued and not run.  A day of four seconds lets
a daily timer occur again, so that the re-adding of repeated timers nests; two
or three operations are enough for enter, disturb and remove.

| run | question | properties | bounds |
|---|---|---|---|
| `RTStages` | do stages and services stay together while activations are refused, the user removes and disables timers, and conflicts are retried? | `ServiceMatchesState`, `DisabledNeverPrepared`, `FollowsLifecycle` | clock to 6, 1 fault (prepare or start), 3 operations of record, remove, toggle, retry |
| `RTWakeup` | does the box wake up for everything that is due, with the clock set once in either direction, and do handlers and timers come to their end? | `WakesInTime`, `NothingDueLeft`, `RefusalBacksOff`, `TimeOfDayKept`, `HandlerReturns`, `TimersEnd` | clock to 6, poll every 2 s, 1 fault (prepare), 1 jump, 2 operations of record, toggle |
| `RTScreens` | do dialogs that answer late do harm, with every kind of edit and timer, and a power failure or shutdown at any step? | `SavedCoversKnown`, `ListsConsistent`, `RemoveFindsEntry` | clock to 4, poll every 3 s, 1 crash, 3 operations of all but retry |

Fairness (`RTWakeup`): weak fairness of `Handler \/ Timeout`, because the main
loop is one thread, which runs the handler it is in and then looks at its
eTimers; of `Tick`, because time passes.  None of the user, of faults or of the
clock being set.  The clock may be set (`EarlySettings`) to times early enough
that the eTimer still fires before the model's clock stops; `TimersEnd` speaks
of timers that end early enough for the same reason.

### Where the code and what it says differ

The properties leave these cases out, each for the reason given:

- "the timer entry itself will fix up the delay then" (`RecordTimer.py:476`),
  but when no service can be had (`191-193`) there is no delay: the loop tries
  again at once, for as long as that lasts.  `RefusalBacksOff` is checked with
  the refusal of prepare (`Faults`).
- A refused start of a repeated timer moves its `begin` (`294`), and every later
  day starts from there; `tests/test_timer.py:64` checks that the time of day is
  kept.  `TimeOfDayKept` is checked without that refusal.
- An edit that turns a recording in progress into a zap (`TimerEntry.py:286`)
  makes `activate` skip `stopRecordService` (`305`): the tuner is never given
  back, not even when the timer is removed.  `RTStages` does not edit.
- "Stop current event but not coming events", answered after the event ended,
  prepares the next event instead (`TimerEdit.py:119`).
- A timer disabled on the list of conflicts is not enqueued again, and is
  recorded though it is disabled (`TimerEdit.py:386`).  `RTStages` leaves the
  edits on that list out.
- A retry from the list of conflicts (`finishSanityCorrection`) records the
  first timer of that list, which may be one that is already known; if it has
  ended meanwhile, `addTimerEntry` puts it into `processed_timers` a second
  time.  `ListsConsistent` does not hold with the operation `retry` for that
  reason; `RTScreens` leaves it out, `RTStages` has it.
- An edit that is abandoned on the list of conflicts stays applied, at the
  entry's old place in the list.  `DisabledNeverPrepared` and `NothingDueLeft`
  therefore say "no screen is open", and no property claims that `timer_list` is
  always sorted.  With three timers the removal of one fails then: enqueued
  again behind the edited one, which is not due, it is not ended, and
  `processed_timers.remove` raises (`RecordTimer.py:760`, "now the timer should
  be in the processed_timers list").  `RemoveFindsEntry` speaks of lists that
  are in order (`InOrder`).
- A timer that is disabled in the seconds between `prepare` and its beginning is
  recorded: `addTimerEntry` retires a disabled timer only while it waits
  (`timer.py:169`).  `DisabledNeverPrepared` says that it takes no tuner anew.
- `addTimerEntry` does not touch `lastActivation`, so a clock that steps back by
  less than the time since the last activation does not revive what ended in
  between.

### What a reader should know about the abstraction

- `timer_list` holds identities, the fields are in `entry`; an entry no list and
  no frame refers to is `Blank` and its identity may be used again.
- A recording service is a number; that taking it may need a tuner somebody else
  has is the fault `prepare`.
- `SavedTimer` keeps what is read back and matters here: times, days, disabled,
  kind.  Log entries, names and tags are left out.
- `Crash` leaves memory as it is until `Boot` clears it; properties of memory
  are then vacuous between the two, which is one step.

### Proofs

Proved with no bound on timers, clock, days, faults or operations, from the
assumptions on the constants (`EntryAssumption`, `TimerAssumption`):

- `TypeCorrect` (`RecordTimerProofs`): `Spec => []TypeOK`.  `TypeOK` is
  inductive as it stands, since the frames of the call stack are typed by kind
  (`Frames`): a frame that is about a timer has one, a `limit` frame has a timer
  left.  The argument is one lemma per operator that moves a timer between the
  lists (`EnqueueType`, `RetireType`, `AddTimerEntryType`,
  `TimerTimeChangedType`, `RequeueType`), one per stage (`ActivationType`), and
  one per action.  What is not obvious in it: `doActivate` only ever adds one to
  the state, so `Advance` needs each stage's guard; the delay of the eTimer is
  never negative because of `Delay`; `Selections` returns a sequence.
- `ListsStayConsistent`: `"retry" \notin UserOps => (Spec =>
  []ListsConsistent)`.  The condition is needed: with a retry the lists do come
  apart (see above).  `ListsConsistent` is not inductive.  A timer that
  is in no list yet may be held by a call on the stack, and an arbitrary stack
  could hold it twice, or hold one that is in a list.  The invariant that is
  proved, `ListsInv`, adds what the program does about it:
  - `StackInOrder`: `rearm`, which has taken all of `processed_timers` into its
    hands, is only ever on top (`addTimerEntry` is called with `noRecalc`
    there); at most one call, `add` or `load`, brings in new timers; nothing
    saves while `load` reads;
  - the timers still to arrive are in no list, and no other call is about them;
  - those a `rearm` holds are distinct and in no list;
  - `timers.xml` names a timer once (`DistinctTimers`), or loading it would put
    one into the lists twice;
  - no dialog offers a retry.

  `Fits(stack, known, timers)` says that a stack satisfies its part of this if
  the lists hold `known`; each operator that moves a timer has a lemma about the
  lists (`EnqueueLists` to `RequeueLists`), each shape of stack one about
  `Fits`, and `ListsFromFits` joins them.  `TimerTimeChangedLists` is where the
  code's choice of list by the state alone is shown right.

- `ServicesFollowStages`: `"retry" \notin UserOps /\ TypesStay => (Spec =>
  []ServiceMatchesState)`.  `TypesStay` says that no edit turns a recording that
  runs into a zap (the type is not switched, or nothing is edited), because then
  its service is not given back.
  `ServiceMatchesState` is not inductive: `Cleanup`, `Drop`, `Abandon`,
  `RemoveProcessed` and `LoadTimer` throw an entry away, or replace it, without
  a look at its service.  `Served` adds why that is right: an entry with a
  service is in `timer_list`, and what is thrown away is not (`ListsInv`).
- `LifecycleIsFollowed`: `Spec => FollowsLifecycle` under the same conditions,
  the refinement of `TimerLifecycle`.  Each action is shown to be one abstract
  step or a stutter under `PhaseOf`.  `StageInv` says what the step does not
  see: a timer that is activated on an answer (`activate`) is still in
  `timer_list`; while the question about a recording is open (`ChoiceOpen`) the
  timer it is about stays there, because it is repeated and not disabled; a
  timer that a `rearm` holds has ended, and one outside the lists was not
  prepared (`OutsideLists`).
- `RefusedIsTriedLater`: `"noservice" \notin Faults => (Spec =>
  RefusalBacksOff)`.  The delay is never 0 after `do_backoff`
  (`BackoffIsPositive`), and only an activation spends a fault
  (`FaultsOfActivations`).
- `DisabledTakesNoTuner`: `"conflict" \notin UserOps => (Spec =>
  []DisabledRests /\ DisabledNeverPrepared)`.  `DisabledRests` is stronger than
  what the run checks and inductive: a disabled timer never waits, in a list or
  on the stack.  Every way into the lists retires it; what is left to show is
  that nothing else sets the flag of a timer that waits, and here the keys of
  the list of conflicts are the exception.  Each step also keeps `Begins`: only
  a timer that waited is prepared.

- `NothingDueStays` (`RecordTimerOrderProofs`): `Unedited => (Spec =>
  NothingDueLeft)`, and `TheBoxWakesInTime`: `Unedited => (Spec =>
  []WakesInTime)`.  `Unedited` says that the user may do anything but edit a
  timer or retry one in conflict: an edit leaves the timer where it is in
  `timer_list`, and `processActivation`, which stops at the first timer that is
  not due, then leaves others behind it (see above).  What both rest on is that
  `timer_list` is in the order of the next activations whenever anybody looks at
  its head.  That is not inductive, since the answer to the question about a
  recording (`runningEventCallback`) changes the timer in place and has it
  activated by the next call.  The invariant is:
  - `Ordered`: the list is in order when that one timer is left out, and the
    bisection puts a timer that is moved where the order stays
    (`InsertAfterSorted`; one lemma `...Moves` per operator that moves a timer,
    one `...Proceeds` per action);
  - `BootIsLast`: when the box is about to start again, nothing but saving is
    still to be done;
  - `Awake`: the eTimer is armed for every timer of the list, or the next
    activation is going to be calculated by a call on the stack; a timer that
    was changed on an answer is left out until the call that enqueues it again
    (`Retimers`).  Every operation that moves a timer leaves such a call, and
    `Proceeds` says which calls a step may add to the stack and that it drops
    none, so that this holds however deep they nest.

- `RemovedTimersAreFound`: `Unedited => (Spec => []RemoveFindsEntry)`.
  `removeEntry` aborts a timer that records, has it enqueued again and, when all
  that this calls has returned, takes it out of `processed_timers`, with an
  comment that it should be there.  The property is about the last moment of
  this, and about the moments at which the answer to a screen looks for its
  timer; the invariant says how they are reached, in two parts:
  - `RemovalInv`: while a `remove` frame is on the stack, it is the last but for
    `saveTimer` (`RemovalLast`), and its timer is `Leaving`: past its end,
    neither repeated nor extended, no screen open, nothing on the stack but what
    a removal calls, and `OnItsWay`, that is, it is in `processed_timers` or in
    the hands of a `rearm`, or it is in `timer_list`, in a state in which an
    activation ends it (`Ending`), and a call above will go through the list.
    That call does not stop before it comes to the timer, because `timer_list`
    is in order (`Ordered`): what is in front of it is due as well;
  - `ScreensKnow`: a screen, and the call that its answer starts, is about a
    timer that is in a list or about to come into one, so a removal from a
    screen removes something.  `HandlerKeeps` and `UserKeeps` say that no
    handler but the end of a removal, and no operation of the user but the
    cleanup of the list, loses a timer.

- `RepeatedTimersKeepTheirTime`: `Spec => TimeOfDayKept`, when no recording
  fails to start (see above) and the list of conflicts is not used to edit or
  enter timers.  `Kept(x, e)` says what every change of the timer's own makes of
  an entry: the days, the type and whether it is saved stay, `begin` moves by
  whole days only (`SameRemainder`), and of a single timer `begin` stays and
  `end` moves only if it grows or is not saved.  `HandlerGoes` shows of every
  handler that it either changes entries in this way alone and goes on with the
  calls below it (`GoesAhead`), or is one of the seven that load, save, add,
  remove or boot.  What is left is that a model value stands for one timer after
  another: `Claimed` says that an entry with days belongs to a timer the program
  still refers to, so a new timer is never taken for an old one at another time.
- `RestartBringsTimersBack`: `Spec => []SavedCoversKnown`, when no recording
  fails to start, no new timer is entered again from the list of its conflicts,
  and the screens give single timers an end that is not before their begin
  (`InOrderTemplates`, which `getBeginEnd` makes true).  Few handlers save, and
  the main loop waits in between; `SavedInv` says what makes this enough:
  - `Covers`: a `write` is still to come, or the box goes down, or `timers.xml`
    holds each timer of the lists with its days, its type and its end; `Kept` is
    just what keeps this true under every handler that does not save;
  - `Orderly`: what has truncated `timers.xml` writes it afterwards;
  - `TargetsAlive`: a screen, and the call its answer makes, is about a timer
    that is in a list; so the answer to an edit does not bring a timer back that
    `timers.xml` no longer holds (`RemovesAlone`: none is open during a
    removal);
  - `Sound` and `SoundFile`: what is saved ends after it begins, or `loadTimer`
    would give it another end; a recording without a fixed end is not saved.
  It covers edits and the list of conflicts, which the order of part 7 does not.

Only model-checked: `HandlerReturns` and `TimersEnd`, since liveness is out of
the prover's reach.

## 4. The playback thread

### Modules

| module | models |
|---|---|
| `EThread` | `eThread` and its `eSemaphore`: run, sync, kill, hasStarted, thread_completed |
| `FilePush` | `eFilePushThread` and what `eDVBChannel` does with it: play, seek, stop, the push loop, the events; extends `EThread` |
| `MCFilePush` | the small instance |
| `FilePushProofs` | the handshake and the data: invariants, theorems and proofs |

### State and steps

Two processes: the main loop, whose next step is `at` (`idle` when it waits for
events), and the push thread, whose next step is `worker`.

| variable | code |
|---|---|
| `m_state` | the semaphore's value: 1 when the handshake is over, 0 while a thread starts |
| `m_alive`, `m_started`, `the_thread` | the members of `eThread` |
| `call`, `res` | whose `sync()` the main loop is in, and what it read |
| `m_stop`, `m_buf_start`, `m_buf_end`, `m_current_position`, `current_span_remaining` | of `eFilePushThread`; `current_span_remaining` is a local of `thread()` |
| `seek_request` | `m_seek_requests` of the cue sheet: the last one, since all are taken at once |
| `interrupted` | SIGUSR1 reached the thread in a system call, which will return EINTR |
| `length`, `room` | the file, which may still be recorded; whether the decoder takes data |
| `pump` | the message pump |
| `buf_base`, `next_out`, `resync` | not in the code: which byte `m_buffer[0]` is, the byte the decoder expects, a flush since the last span |
| `fatal`, `create_failed` | `eFatal` was called; `pthread_create` failed |

Every access to what the two share - the semaphore, `m_alive`, `m_started`,
`m_stop` - is a step of its own, because nothing orders them but the semaphore:
`sync()` is four steps (`SyncDown`, `SyncRead`, `SyncCheck`, `SyncUp`),
`runAsync()` is `RunDecide`, `Claim`, `Take`, `Mark`, `Reap`, `Create`, and the
end of a thread is `ClearAlive`, `TestStarted` and perhaps a second
`hasStarted()`. The push loop is cut at its system calls (`write`, `read`,
`poll`), which begin in one step and return in another: in between the signal
may come, the file may grow, the device may fill.  A signal that is sent while
the thread is not inside a call is lost, as it is in the program, whose handler
is empty.

The positions are the code's, with `BlockSize` for 188, `BufSize` for 65536 (no
multiple of it, as in the code) and `SpanSize` for 10 MB.  `NextSpan` is
`getNextSourceSpan` without a cut list or a skip mode: go on where the last span
ended, or at the target of a seek, both aligned.

### Properties and runs

| run | question | properties | bounds |
|---|---|---|---|
| `FPPlayback` | does the handshake keep the two apart, does every byte arrive, does everything come to its end? | `MainOwnsBuffer`, `ObjectOutlivesThread`, `RestartNeverRefused`, `WriteInOrder`, `CallsReturn`, `PlaybackEnds` | 3 user operations, 1 read or write error, 1 failed `pthread_create`, a file of up to 2 1/2 blocks |
| `FPHandshakeViolation` | do the assertions of the handshake hold? | `NeverFatal`: violated | 2 user operations |

Three operations are enough to play, seek and stop or play again, each of them
at any step of a thread that may just end by itself.  A block of 2 bytes, a file
of up to 5 and a buffer of 5 give reads that are short and not aligned, spans
filled by one read and by two, and partial writes.

Fairness: weak fairness of `Main` and of `Thread`, because the system's
scheduler runs both.  Strong fairness of `PollReady`: at the end of the file the
thread polls the device again and again, and a decoder that plays has played all
it was given after a finite time, so one of the polls succeeds.  None for the
user, for the growth of the file, for faults, or for the key that ends a pause.

`CallsReturn` has two exceptions that the code does have: a `pthread_create`
that fails leaves the semaphore taken, so the next `sync()` waits for ever
(`thread.cpp:67-73`); and `stop()` sends its signal once ("just do it ONCE. it
won't help to do this more than once", `filepush.cpp:336`), so that a thread
which tested `m_stop` just before and enters `write()` just after is waited for
until the decoder takes data, which it does not while it is paused
(`LostSignal`).

`FPHandshakeViolation`: `thread_completed` clears `m_alive` before it tests
`m_started` (`thread.cpp:10-14`).  In between a seek finds the thread not alive
and starts another: `runAsync` takes the semaphore and clears `m_started` before
it joins the old thread, which now believes it never called `hasStarted()`, and
posts the semaphore a second time.  The new thread's assertion fails (with
`Debug`), or the next `sync()` calls `eFatal` (`thread.cpp:98`).  The step
between two adjacent statements is short, but a playback that ends while the
user seeks reaches it. The properties of `FPPlayback` hold up to that point.

### Proofs

From `DebugAssumption` and `FileAssumption`, for any file, buffer, block, span,
targets, and number of operations and faults:

- `BufferHasOneOwner`, `ThreadDiesFirst`, `SeekRestarts` from one invariant,
  `HandshakeInv`.  The three properties speak of single moments of the main
  loop; the invariant says how it comes to know what it relies on:
  `AliveIsRight` (a thread in `thread()` has the handle set and `m_alive`),
  `Learnt` (what a `sync()` that read false, or a join, has established, and for
  how long), `Joined` (no thread without a handle, after a join), `ControlOK`
  (which steps go with which call).  It does not say that the semaphore is
  right, because it is not (`FPHandshakeViolation`): that the buffer has one
  owner depends on `m_alive` and the joins alone.
- `EveryByteInOrder`: `Spec => []WriteInOrder`. The
  invariant `DataInv` says that, unless the buffer was thrown away, the byte the
  decoder expects plus what is in the buffer is the position of the next read;
  that the buffer ends at that position; that positions are whole packets
  (`AlignDown`, `AlignSum`: a short read is cut to whole packets, and the
  position advances by what was kept); and that a thread started after a flush
  asks for a new span first.  It needs `HandshakeInv` where the main loop
  flushes: there is no thread that could be about to write.

Only model-checked: `CallsReturn` and `PlaybackEnds`, since liveness is out of
the prover's reach.

### Not modelled

Cut lists and skip modes (and with them the list of spans that the main loop
replaces while the thread may walk over it, `dvb.cpp:1556`), streams
(`m_stream_mode`), the limits for disks, filters that drop data, the splitting
of long files in `rawfile.cpp`, `pthread_cancel` (no caller of `kill` asks for
it here), and the threads of other components that are built on `eThread`, of
which the recording thread is planned first.

## 5. The programme guide

### Modules

| module | models |
|---|---|
| `EPGStore` | the events of one service: the map by id, the map by start, the tables of private events; sections, private sections, cleaning |
| `EPGListing` | the abstract specification: a set of events |
| `EPGThread` | the thread that collects, the main loop that knows channels and time, their messages and locks |
| `MCEPG` | symmetry for `EPGStore` |
| `EPGProofs` | the maps agree with each other and with the rows, and implement the listing; the data of a channel is deleted only when nothing refers to it |

### EPGStore

`evMap` and `tmMap` are the maps of a service by event id and by start; their
values are addresses (`Objects`), and `heap` says what is there, `Free` after
`delete`.  `table` holds the rows of `content_time_tables`, `job` the private
section under way.  `sectionRead` is one step per event of the section, with
`FixOverlapping` in it; `privateSectionRead` one step for what it withdraws
(`PrivateBegin`) and one per event it adds (`PrivateAdd`); `CleanLoop` is the
handler of the timer.  Every handler holds `cache_lock`, so nothing comes
between the steps of one.

One unit of time is five minutes, which is also what an overlap may have
(`Slack` 1); two starts within six minutes are one key, as the search in the map
by start treats them, and "the first free second" of a private event is the next
free unit.  The clock of a private section is read once, at its beginning.
Insertion hints of the maps are left out; `flushEPG` is never called; load,
save, the queries and MHW are not modelled.

Run `EPGStore`: ids 1 and 2 and the private 0, starts 0 to 3, durations 1 and 3,
two sources, two contents of a portal with one start each, a clock to 2 and a
horizon of 3; three objects are enough, one more than events that can be there
at once when one is replaced; objects are symmetric.

- `MapsAgree`: both maps hold the same objects, each under its own id and start
  (the `eFatal` "map sizes not equal").
- `RowsNamePrivate`: the rows name the private events and nothing else, so a new
  section withdraws what the last one of its content added.
- `ListingKept`: the maps implement `EPGListing`, a set of events in which a new
  event removes what it conflicts with and nothing else.

`MovesOntoPrivate` is FALSE: if EIT moves a known event to the start of a
private one, the code replaces the private event and leaves its row
(`epgcache.cpp:620`), which later names nothing or something else.  With TRUE
`RowsNamePrivate` and then `MapsAgree` do not hold; whether a portal's service
has EIT at all decides if that can happen.

### EPGThread

The main loop's place is `main` (`active` and `map`: waiting for the two locks
of `DVBChannelStateChanged`), the thread's is `thread`; `messages` is the
thread's pump.  A channel is the address of an eDVBChannel; the fields of its
`channel_data` are functions of it.  The definitions `ThreadInit`, `ThreadNext`,
`ThreadSpec` and the like carry the name of the thread because `EPGProofs`
extends both modules.  The thread holds `channel_active[c]` from
`startChannel` to `abortEPG` and `channel_map_lock` while it handles a message.

Run `EPGThread` (two channels, two readers, eight events of the main loop):

- `DeletedNotArmed`: the main loop deletes the data of a channel only when no
  timer and no reader of the thread refers to it.
- `ReleaseReturns`: the release of a channel returns, unless it meets the start
  of the same channel.
- `WaitingIsStarted`: a channel that waits when the clock is set for the first
  time, and the thread has been started, has its events read.

Fairness: the main loop goes on in the handlers it is in, the thread starts and
handles its messages (a message is read although timers and sections come, too).
None for channels, sections or the clock.  `ReusesAddress` is FALSE: a new
channel at the address of one about which messages are still on the way takes
them for its own.  The timer of a private pid is left out of `DeletedNotArmed`:
`abortEPG` does not stop it (`epgcache.cpp:1388`).

Run `EPGDeadlockViolation`: `LeaveHandled` states the comment "-> gotMessage ->
abortEPG" (`epgcache.cpp:405`).  The main loop takes `channel_active` and then
`channel_map_lock` (`400`, through the wait for the thread), the thread takes
them the other way round; if a channel goes while the thread starts it, each
waits for the lock the other holds, and the box stands still.  One channel, one
reader and five events are enough.

### Proofs

Without a bound on ids, times, sources, objects or contents, if
`MovesOntoPrivate = FALSE`: `MapsAlwaysAgree` and `RowsAlwaysNamePrivate`, and
`ImplementsListing`, the refinement, step by step.  `MapsAgree` is not
inductive: `privateSectionRead` erases by the rows what only `RowsNamePrivate`
says is one object in both maps.  The invariant is the conjunction with
`TypeOK`.  Erasing a set of objects and adding one are lemmas, and every handler
is made of these two.

For any channels, readers and messages, if `ReusesAddress = FALSE`:
`DeletedIsNeverArmed` (part 2 of `EPGProofs`).  `DeletedNotArmed` is about one
moment of the main loop, between its two locks; the invariant `ThreadInv` says
how it gets there: `MapLocked` (the map is locked by the thread exactly while it
starts a channel), `ActiveHeld` (timers and readers are armed only while the
thread holds `channel_active`), `LeaveIsLast` and `LeftIsLeaving` (no start
comes after the leave, and whoever is told to leave is being forgotten),
`Forgets` (when the main loop deletes, it holds `channel_active` itself or the
thread has handled the leave and cannot start the channel again).  The condition
is needed: a stale leave frees the lock of a channel that reuses the address.

Only model-checked: `ReleaseReturns` and `WaitingIsStarted`, which are liveness.

## 6. Channels and recording services

### Modules

| module | models |
|---|---|
| `Channels` | `eDVBResourceManager` and `eDVBChannel`: tuners, use counts, the cached channel and its timer |
| `RecordService` | on top of it the service handlers (`pmt.cpp`) and the recording services (`servicedvbrecord.cpp`) |
| `MCRecordService` | symmetry |
| `RecordServiceProofs` | the use counts, and what a recording holds and hears |

A channel is named by its tuner; `channel[t]` has the id, the use count, the
state and whether the tuner has locked.  A service holds two references to its
channel (handler and scan), taken in `Tune` and given back in `Free`; the cache
holds one; a scan takes a raw channel.  A change to `state_ok` calls the
handlers connected to the channel one after the other, and each may call its
recording: the calls to come are in `todo`, and nothing else happens before they
are done.  `Prepare`, `Start`, `Stop`, `Record` are the methods of
`eDVBServiceRecord`, with every way they fail: no channel, no demux, no file, no
recorder, a write error.  `BUILD_VUPLUS` is always defined in this repository,
so a tune that failed is repeated (`Retune`).

Run `RecordService`: two tuners, three ids, a service that is watched, a
recording and a stream, two faults; tuners and ids are symmetric.  More services
than tuners make it evict, share and refuse.

- `UsesCounted`: the use count is what refers to the channel.  So a tuner is
  free when its last user has left and not before.
- `TunedWhenOk`: a service on a tuned channel has been told so, whenever it
  came.
- `HoldsWhatItNeeds`: a recording that runs has its channel, demux, recorder and
  file; one that is gone holds no tuner.
- `RunsInAnyOrder`: start, tuning and program information may come in any order.

Proved for any tuners, ids and services (`RecordServiceProofs`):
`UsesAlwaysCounted` and `NoTunerWasted` (two channels never carry the same
transponder), from `Typed /\ UsesCounted /\ OneTunerPerId`.  `UsesCounted` is
nearly inductive; beside it only the ranges of three variables are needed.  The
arithmetic of references is in lemmas about one channel (`AddUseCounts` and
following), the sets of users in lemmas about cardinality.

On top of it `ServicesTyped`, `RecordingHoldsWhatItNeeds`, `ServicesAreTold` and
`RecordingRunsInAnyOrder`, from one invariant, `Strong`.  The last two
properties hold only when no call is left to make.  What is true in between is
that the one who has not heard yet is still to be called: `ToldOrCalled` (a
handler on a tuned channel knows it, or its call is in `todo`), `RunsOrCalled`
(a recording that may run does, or will be told to).  `HandlersAgree`,
`LastIsCached` and `RecordsHold` say how handlers, the cache and the stages of a
recording belong together.

Where code and comments differ, or the code does what one would not expect:
`AddUse` sets `state_ok` whenever a last reference becomes two, although the
tuner has not locked yet, so the new user hears `eventTuned` at once
("sucessfully (re-)tuned in", `pmt.h:184`).  The timer of the cached channel is
started by `state_last_instance` and stopped by `state_ok`, so a lock that comes
after the last user left keeps the channel tuned until something else is
allocated (`idvb.h:512` speaks of a channel that is idle).
`releaseCachedChannel` stays connected to the channel it gave up
(`dvb.cpp:867`).  After a write error `m_want_record` stays set: the next
program information prepares the recording anew and the one after removes the
file (`servicedvbrecord.cpp:361`).

## 7. Jobs

`Jobs` is the job manager of `Components/Task.py`.  A job is a sequence of tasks
of one of the kinds the plugins build: `check` (a test that answers at once),
`tool` (a program), `burn` (a program that may fail softly), `resident` (one
that stays while the next runs), `download`, `ask` (a question), `wait` (for the
resident ones).  Everything runs in the main loop, but the callbacks nest, so
what is left of the calls under way is on `calls`, the innermost first, and
programs end and users answer when it is empty.  An exception in a callback ends
the program (`up`).

Run `Jobs` (`MCJobs`: one job of a data disc, one of an image, one of a DVD with
a resident program; two retries, three cancels):

- `OneAfterAnother`: at most one job works, and it is the active one ("The
  jobmanager will execute multiple jobs, each after another", `Task.py:250`).
- `NeverRaises`: no callback meets an assertion, an index or a callback that is
  not there.
- `FinishedMeansDone`: a job that says it has finished has run every task to its
  end.
- `JobsEnd`: every job that was added ends, unless a question is left unanswered
  for ever.

Fairness: calls go on, programs and downloads end, and the question of a
`PreviewTask`, "Do you want to preview this DVD before burning?", runs out after
60 s (`Process.py:419`).  None of the user, and the other questions do not run
out: "Retry?" (`Task.py:281`) and "Do you want to burn" (`Process.py:435`) are
opened without a timeout (`MessageBox.py:16`: -1, which `initTimeout` takes for
none).  A "Retry?" that nobody answers keeps `active_job`, and `kick` starts
nothing more: the queue stands still.  `JobsEnd` says that this is all that can
hold it up.  Having the preview played, moving the selection or staying in a
screen above the infobar keeps the first question from running out, too
(`HoldQuestion`); then it is the user's to answer (`Held`).

The job with the resident program neither fails nor is cancelled in this run
(`Faulty`, `Cancelable`).  If its current task fails, or it is cancelled, while
the resident one runs, the next job starts although that one is still running,
and its end makes the failed job go on (`Task.py:90`, `98`, `107`);
`OneAfterAnother` does not hold then.

Proved for any jobs and tasks without resident ones and without a question in a
job that can be cancelled (`InLine`): `JobsOneAfterAnother`, `JobsNeverRaise`
and `FinishedJobsAreDone` (`JobsProofs`).  The invariant: only the innermost
call is ever live, that is, may start a task or end a job; it speaks of the
active job, and no task runs meanwhile (`Live`, `Inert`, `CallsInOrder`); one
task of one job is open (`OneOpen`, `OneInProgress`); a question is asked
exactly for a job that failed (`Asked`); waiting jobs have not begun (`Queued`).
`Finished` needs it to see that nothing gets a job on that has finished.
`JobsEnd` is liveness and only model-checked.

Not modelled: progress, `in_background` and what a JobView shows, what is done
after the last job (`performAfterEvent`), the pipes of eConsoleAppContainer.

## 8. Fast channel change

### Modules

| module | models |
|---|---|
| `FCC` | the manager (`fcc.cpp`): the services in its map and the counts of each channel, as a record and operators on it |
| `FCCSupport` | the plugin (`FastChannelChange/plugin.py`) with eNavigation and the services: zaps, events, timers, recordings, a second picture, the setup |
| `MCFCC` | a bouquet |
| `FCCProofs` | counts and decoding, recordings, the limit, progress of the preparations, no second preparation |

A zap calls the manager, which sends `evEnd` to the plugin, which calls the
manager again: an action is one such call with all it causes.  Between the
plugin's timers the user zaps, tuners answer, and recordings come and go.
Timers of 0 ms are a queue; the long ones fire at any time.  What the dictionary
of the plugin has first is fixed as long as its keys are the same; when a list
is created the place of the cursor in the bouquet is arbitrary.

Run `FCC`: services A to D on two channels, one of them on a USB tuner, a radio
service R that cannot be prepared; three decoders, two zaps, one disturbance
(recording, second picture, or setup).

- `ChannelsCounted`: the counts from which `canAllocateChannel` tells free
  tuners are the prepared services of each channel, whichever way they came
  there and left.
- `OneIsWatched`: only the service that is watched decodes.
- `WithinMax`: there are never more services than decoders.
- `NothingBesideRecording`: a recording that wants all tuners gets them,
  whatever timers were on their way.
- `NeverStalls`: preparations do not come to a halt: the timer is running that
  gives up what does not lock.

Proved for any services, channels and lists (`FCCProofs`): `PreparedAreCounted`,
`WatchedAlone`, `NothingIsKeptFromARecording`, `NeverMoreThanMax` (`WithinMax`)
and `PreparationsGoOn` (`NeverStalls`).  The invariant `Fits` says of the
manager that a service is connected exactly until it decodes and that the counts
are right; of the plugin that it works off a list only while it is activating,
and then the map is not empty; and of both that an enabled plugin that watches
something playable has it in the map. The operators of the manager have one
lemma each, in terms of which services it holds and which decode (`Holds`); the
count changes by one exactly where that set does.  For recordings `Beside` is
added: the plugin's flag is true exactly while something records, and while it
is, and the user wants it, nothing is prepared and no list worked off.

`WithinMax` and `NeverStalls` need two parts more, each for the other
(`Advances`).  `Kept`: what is in the map and what is on the list together are
at most `MaxFCC` (`Room`), every service of the map is known by a name that
stands for it (`Named`), and only what can be prepared is listed. When a list is
made, what it names and the map already has is taken off it, and what the map
prepares and the list does not name is stopped; so there are at most as many
left on both as the list had, and the watched one (`CreateListRoom`).  From then
on a service comes into the map only by leaving the list, or by a zap to a
service it does not have, for which it is cleared first. `Lively`: while the
plugin is activating it is enabled, a list is made only where the tuning of the
watched service is still to be told, events are worked off or a timer for them
is running, and one of four things holds (`Moving`): the watched service is
still tuning, an event is there, the service that does not lock is the one whose
timeout runs, or nothing is left.  `Kept` needs of it that there is an event
when one is worked off. The lists of the model are sequences selected by
position (`AtPositions`) rather than folded, so that their lengths are
cardinalities and need no induction over the list.

Also proved: `PreparedOnce`, that `NeverAsserts` holds where every service has
one name and no name stands twice in the bouquet (`OneName`; a name is put into
a bouquet only once, `eBouquet::addService`, `db.cpp:17-22`, while a bouquet
that is read from its file is not looked through).  The invariant is `Spare`: no
name is listed twice, and while the plugin is activating, or its tracker is on,
nothing suspends it and no new list is due, no entry of the list is in the map
(`Fresh`).  The second half of that condition is needed: a zap to a listed
service puts it into the map, and what keeps it from being prepared again is
that its start lets the list be made anew before the plugin goes on.  The entry
that leaves the list when it is prepared is not among the others, for the list
has each name once: the two neighbours that `ZapUpDown` begins with differ where
there are three services or more (`Neighbours`), and `AddFCCList` adds nothing
that is listed.

Neither half of `OneName` can be left out.  With the bouquet `<<a, a, b>>`,
`Names = {a, b, c}`, `Services = {A, B, C}`, `Plain = {}`, `MaxFCC = 3`,
`MaxDisturbances = 2` TLC finds `NeverAsserts` violated.  So it does with two
names for one service, `Names = {a, b, b2, c}`, `Services = {A, B, C}`, `Plain =
{}`, `MaxFCC = 2`, `History = FALSE`, `MaxDisturbances = 2`, and this is where
code and assertion differ: `playFCCService` asserts that it is not asked for a
service it has ("ASSERT (ref != it->second.m_service_reference);",
`fcc.cpp:72`).  The plugin compares strings (`plugin.py:358`), the manager
references, which leave the name out: when the service that is watched stands in
the bouquet a second time under a name of its own, the assertion fails.  No run
of the project checks `NeverAsserts`: it is the theorem that says where it
holds.

Not modelled: the history's next, the priority "historynextback", lists without
zap up and down, a change of `maxfcc`, the loss of a lock.

## 9. Standby, shutdown and the wake-up

### Shutdown

One module: `Shutdown`, with the values of `MCShutdown`, and the theorems about
it in `ShutdownProofs`.  It follows the box as a whole: timers with one
occurrence each that go through the stages of section 3, what they want when
they end, the sleep timer, the user, the stack of screens, and the program as it
ends and starts again.

| variable | code |
|---|---|
| `sched` | stage and next activation of each timer; `plan` is what was programmed |
| `sleep`, `jobs` | the entry of the sleep timer; whether jobs are pending |
| `ui.screens` | `Session.dialog_stack` with `current_dialog` on top |
| `ui.timeout` | when the topmost MessageBox answers by itself |
| `ui.answer` | its `returnValue`, between `close` and `processDelay` |
| `ui.notes` | `Notifications.notifications`: `askStandby`, `askDeep` of a timer, `askSleep`, `standby`, `quit`, and `later`, `boot`, which stand for the static handler |
| `ui.static` | `receiveRecordEvents`: the static handler hears recordings |
| `ui.quit` | `quitMainloop` was called, and why |
| `box`, `ready`, `wakeup`, `byTimer`, `auto` | the power, the front processor, and the setting that is saved for the next boot |
| `owed` | not in the code: recordings for which there has always been time |

A screen is closed in two steps, as in the code: `close` remembers the answer,
and `processDelay` brings back the screen below, and with it, if that is the
infobar, the next notification, before the one who asked hears the answer.
Notifications are opened by the infobar only.  A move of the selection stops the
countdown of a question for good, but that of `TryQuitMainloop` is started again
when a recording ends shortly before the next (`Standby.py:170`): then the
answer is what is selected by then, so `quitYes` and `quitNo` name the
selection, not what was preset.

Times are whole units; a handler's clock has always gone a little past the
second it was called for, so what is due at this very moment is not seen by
`getNextRecordingTime`.  That is deliberate: it is what happens when one timer
ends in the second another is prepared.

Run `Shutdown` (one unit is a minute: preparing, backoff, question and restart
1, `Soon` 6, `NoLead` 5, `Lead` 4, boot 2): three timers in 12 arrangements -
`b` overlaps `a` or is due when `a` ends, `c` is a zap, the next recording at
the edge of what the box waits for, or one that leaves the time to go down and
come up - with and without a sleep timer and jobs; two inputs of the user, one
failure of a tuner, a clock to 28, after the last of them.

- `NeverCutsUnasked`: whatever timers end, questions time out and screens are
  left, nothing but the user takes the box down while a recording runs.
- `StartsInTime`: every recording starts at its time, however often the box went
  down before and for whatever reason, if it was still ahead then and there was
  the time to come up again ("no time to switch box back on", `mytest.py:518`).
- `GoesDown`: a box that was told to go down and waits for recordings does so
  when they are over.

Fairness: weak fairness of what the main loop does by itself, of time, and of
the front processor at its wake-up time.  None of the user.

Where code and comments differ, or the properties stop:

- "no starting records in the next 360 seconds... immediate shutdown"
  (`RecordTimer.py:69`), also when one recording ends in the second another is
  to be prepared; that one is lost or cut at its beginning.  `StartsInTime`
  therefore speaks of recordings still ahead.
- "wait for next starting timer" (`Standby.py:170`): the 360 s may run out while
  the next recording is prepared and has not begun, if it is due in the last 20
  s of them; the box goes down.  `NeverCutsUnasked` speaks of recordings that
  run.
- "only in use when the box is in (soft) standby" (`RecordTimer.py:52`): the
  static handler stays on when standby is left to a menu, until the infobar is
  shown.
- A recording that is refused while the box waits for it may leave it on for
  ever: no `evEnd` comes when it is skipped.  `GoesDown` has that exception.
- `TryQuitMainloop` asks because of jobs, but its `getRecordEvent` does not look
  at them: the last `evEnd` shuts down although they run.  `close` sets
  `self.conntected` (`Standby.py:179`).
- The "next activation" of a recording that runs is its end, so a box switched
  off during a recording wakes up for the end of it, and `getRecordEvent` takes
  the end for the start of another.

Left out: reboot and restart (which quit with another number), the kinds of
popups a recording shows, the question before a zap that fails, the removal of
timers, wake-ups for plugins, `performAfterEvent` of jobs, and the time between
the decision to quit and the end of the main loop (`umount` may block).

Proved for any timers, plans and screens, and any times of the firmware that
leave the box the time to come up (`Lead + Restart <= NoLead` and what else
`ShutdownAssumption` says; the values of the code satisfy it):

- `RecordingsStartInTime` (`StartsInTime`) and `NothingIsCutOff`
  (`NeverCutsUnasked`), from `ShutdownInv`: `Timed` (a timer that is prepared is
  due at its beginning), `Good` (only a question times out, and while something
  records the question to go down waits for the user), `Dark` (a box that is off
  has no screens).
- `StartsInTime` also needs `OwedInTime`: for each recording for which there was
  always time, where that time is now.  As long as the box is on, what is due
  comes before the beginning of the recording; a box that is off, or boots,
  wakes up before it.

`GoesDown` is liveness and only model-checked.

## 10. What can go wrong and no property covers

Beside the hazards of `PROJECT.json`, which have a property each, first the
cases that properties leave out (their section says why):

- `RecordTimer.py:193`: a timer for which no service can be had is tried again
  without a delay (`RefusalBacksOff`, section 3).
- `RecordTimer.py:294`: a refused start moves the time of day of a repeated
  timer (`TimeOfDayKept`, section 3).
- `TimerEdit.py:386`: a timer that is disabled on the list of conflicts is
  recorded (`DisabledNeverPrepared`, section 3).
- `epgcache.cpp:869`: a message about a channel that is gone is taken for one
  about a new channel at its address (`DeletedNotArmed`, section 5).
- `epgcache.cpp:254`: a channel that gets ok between `hasStarted()` of the
  thread and `m_running = 1` keeps the state -1 after `run()` has looked at the
  channels, and its events are not read before it is tuned anew
  (`WaitingIsStarted`, section 5).
- `Task.py:281`: a "Retry?" that nobody answers holds up all jobs (`JobsEnd`,
  section 7).

And those that no property is about:

- `RecordTimer.py:622`: `timers.xml` is truncated and then written in place:
  power lost in between loses every timer.  The model does that, too
  (`Truncated`); the code promises nothing about it.
- `RecordTimer.py:379`: a write error stops the recording service but leaves the
  timer running ("TODO: this has to be done").
- `RecordTimer.py:358`: the answer to the question before a zap comes after the
  retry has succeeded.
- `TimerEdit.py:223`: `removeTimer` takes the timer under the cursor again after
  the question was answered.
- `timer.py:46`: `addOneDay` skips a whole day when the hour changes.
- `thread.cpp:70`: when `pthread_create` fails the semaphore stays taken
  (`CallsReturn` leaves it out).
- `filepush.cpp:160`, `274`: nobody hears `evtWriteError`; `evtEOF` may be in
  the pump when the user seeks away.
- `dvb.cpp:1680`: the old thread may take a seek request just before it is
  stopped, and its chunk is thrown away.
- `dvb.cpp:1556`: the spans of a cut list are replaced while the thread walks
  over them.
- `demux.cpp:577`: the recorder closes its source before it stops the thread
  that reads it.
- `epgcache.cpp:1388`: `abortEPG` does not stop the timer of a private pid;
  `403`: an iterator is used after erase; `445`: an insertion hint that was
  erased is kept; `988`: a crash between load and save loses all events.
- `dvb.cpp:852`, `1854`, `servicedvbrecord.cpp:375`, `281`, `559`: section 6,
  and descriptors that are lost, a prepare that failed and is started all the
  same, an event of a recording that does not run.
- `NFIFlash/downloader.py:581`: `failed_jobs` is emptied after `AddJob`, which
  may have run the job to its failure already; `Task.py:276`: one flag
  `in_background` for all jobs.
- `FastChannelChange/plugin.py:435`, `servicedvbfcc.cpp:69`: a prepared service
  that loses its lock stalls the preparations; a failure is remembered when the
  service is zapped to.
- `RecordTimer.py:75`: section 9, the static handler outside of standby.

## 11. Not modelled

Planned: section 2.  For good: drawing, skins, parsers, databases, drivers,
players, input, configuration, most screens and plugins, which are presentation,
conversions or programs of their own on top of the core.  They are most of the
lines of the repository, and have no behaviour of the kind these models are
about.

Of the record timer: the events that a recording sends while it runs, the
question before a zap that fails, the query functions, the texts; AFTEREVENT is
in section 9.
