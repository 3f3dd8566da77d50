---------------------------- MODULE FCCSupport -----------------------------
(***************************************************************************)
(* Fast channel change: the plugin that decides which services are         *)
(* prepared (FastChannelChange/plugin.py), on top of the manager, of       *)
(* eNavigation (core.cpp) and of the services (servicedvbfcc.cpp).         *)
(*                                                                         *)
(* Everything runs in the main loop.  A zap calls the manager, which sends *)
(* evEnd to the plugin, which calls the manager again: an action is one    *)
(* such call with all it causes.  The plugin works on from its timers, and *)
(* between them the user zaps, tuners answer, and recordings come and go.  *)
(***************************************************************************)
EXTENDS FCC, Integers, Sequences, SequencesExt

CONSTANTS
    Ref,          \* [Names -> Services]
    Bouquet,      \* the names of the current list, in order
    MaxFCC,       \* config.plugins.fccsetup.maxfcc
    History,      \* config.plugins.fccsetup.history
    None,
    MaxZaps, MaxDisturbances  \* bounds

ASSUME SupportAssumption ==
    /\ Ref \in [Names -> Services]
    /\ Bouquet \in Seq(Names) /\ MaxFCC \in Nat \ {0, 1}
    /\ History \in BOOLEAN
    /\ None \notin Services \cup Names
    /\ MaxZaps \in Nat /\ MaxDisturbances \in Nat

VARIABLES
    manager,   \* the record of FCC
    running,   \* the name of m_runningService, or None
    enabled,   \* m_fcc_enable, fccSetupActivate
    support,   \* the plugin, see below
    recs,      \* recordings
    previous,  \* the name before this one in the history, if it is used
    asserted,  \* an ASSERT has failed
    zaps,
    disturbances  \* recordings, second pictures and changes of the setup

others == <<enabled, recs, previous, zaps, disturbances>>

vars == <<manager, running, enabled, support, recs, previous, asserted,
          zaps, disturbances>>

(***************************************************************************)
(* The fields of support: list is fccList; queue holds the timers that     *)
(* were started with 0 ms, in the order they expire; events is eventList;  *)
(* wait is fccTimeoutWait; applying: inside the loop of FCCApplyEvent.     *)
(***************************************************************************)
Quiet == [tracker |-> TRUE, recordings |-> FALSE, list |-> << >>,
          disableforrec |-> TRUE, queue |-> << >>, events |-> << >>, activating |-> FALSE,
          applying |-> FALSE, wait |-> None, timeout |-> FALSE,
          forceStart |-> FALSE, reset |-> FALSE]

Init ==
    /\ manager = NoServices /\ running = None
    /\ enabled = TRUE
    /\ support \in {[Quiet EXCEPT !.disableforrec = d] : d \in BOOLEAN}
    /\ recs = 0 /\ previous = None /\ asserted = FALSE
    /\ zaps = 0 /\ disturbances = 0

\* The main loop is free to call a handler.
Idle == ~support.applying /\ ~asserted

Playable(s) == s \in Services \ Plain

Watching(s) == running # None /\ s = Ref[running]

\* A timer is in the queue once at most.
Without(q, timer) ==
    IF timer \in ToSet(q)
    THEN RemoveAt(q, CHOOSE i \in 1..Len(q) : q[i] = timer)
    ELSE q

Start(p, timer) == [p EXCEPT !.queue = Append(Without(@, timer), timer)]
Stop(p, timer) == [p EXCEPT !.queue = Without(@, timer)]

GetEvent(p, event) ==
    IF p.activating
    THEN Start([p EXCEPT !.events = Append(@, event)], "fccEvent")
    ELSE p

TimeoutStop(p) == [p EXCEPT !.wait = None, !.timeout = FALSE]
TimeoutStart(p, s) == [p EXCEPT !.wait = s, !.timeout = TRUE]

\* FCCDisableServices, without its call of the manager
Disabled(p) ==
    [Stop(Stop(TimeoutStop(p), "getSref"), "fccEvent") EXCEPT
        !.activating = FALSE, !.list = << >>, !.events = << >>]

Suspended(p) == p.disableforrec /\ p.recordings

(***************************************************************************)
(* The events of the service that is watched, as the plugin hears them.    *)
(***************************************************************************)
\* evEnd; m is the manager, w the pair of it and the plugin
End(m, p) ==
    IF p.tracker THEN [m |-> StopFailed(m), p |-> Disabled(p)]
    ELSE [m |-> m, p |-> p]

OnStart(p) == IF p.tracker THEN Start(p, "createList") ELSE p
OnTune(p) == IF p.tracker THEN Start(p, "getSref") ELSE p

\* popFCCEvents: what a service of the map has met is told again.
Announced(p, e) ==
    IF e.locked \/ e.failed = "tune" THEN OnTune(OnStart(p)) ELSE OnStart(p)

(***************************************************************************)
(* eNavigation.  A start has an outcome: what the tuner says at once, and  *)
(* whether the service is on a tuner that only decodes.                    *)
(***************************************************************************)
Answers == {[locked |-> FALSE, failed |-> "no"], [locked |-> TRUE, failed |-> "no"],
            [locked |-> FALSE, failed |-> "tune"]}

Watched(s) ==
    {[locked |-> a.locked, failed |-> a.failed,
      normal |-> s \in Usb /\ a.failed = "no"] : a \in Answers}

PreparedAs(s) ==
    IF s \in Usb THEN {[locked |-> l, failed |-> "tune"] : l \in BOOLEAN}
    ELSE Answers

\* stopService
\* Mutant: the prepared services stay when the one that is watched stops.
StopWatched(m, p) ==
    IF running = None THEN [m |-> m, p |-> p] ELSE End(m, p)

StopRunning(m, p) ==
    IF running = None THEN [m |-> m, p |-> p]
    ELSE [m |-> Cleanup(m), p |-> End(m, p).p]

\* The first part of tryFCCService, for the service d that decodes.
LeaveDecoding(m, p, d) ==
    LET w == End(m, p)
        e == m.services[d]
    IN [m |-> Leave(w.m, d),
        p |-> IF e.failed # "no" /\ ~e.normal THEN GetEvent(w.p, "failed")
              ELSE w.p]

\* playService of what is not in the map, when nothing is watched any more.
\* What a service outside the map tells after its start leads to nothing,
\* FCCGetCurSref stops for it: it is left out.
PlayFresh(w, n) ==
    /\ running' = n
    /\ IF enabled' /\ Playable(Ref[n])
       THEN \E o \in Watched(Ref[n]) :
               /\ manager' = PutWatched(w.m, Ref[n], n, o)
               /\ support' = Announced(w.p, o)
       ELSE manager' = w.m /\ support' = OnStart(w.p)

PlayService(n) ==
    LET decoding == In(manager, "decoding")
        w == IF decoding = {} THEN [m |-> manager, p |-> support]
             ELSE LeaveDecoding(manager, support, CHOOSE d \in decoding : TRUE)
    IN IF enabled /\ Ref[n] \in InMap(w.m)
       THEN /\ running' = n
            /\ manager' = Use(w.m, Ref[n])
            /\ support' = Announced(w.p, w.m.services[Ref[n]])
       ELSE PlayFresh(IF enabled /\ decoding # {}
                      THEN [w EXCEPT !.m = Cleanup(@)]
                      ELSE StopRunning(manager, support), n)

Zap(n) ==
    /\ Idle /\ zaps < MaxZaps /\ ~Watching(Ref[n])
    /\ UNCHANGED enabled
    /\ PlayService(n)
    /\ zaps' = zaps + 1
    /\ previous' = IF running = None \/ ~History THEN previous ELSE running
    /\ UNCHANGED <<recs, asserted, disturbances>>

StopService ==
    /\ Idle /\ running # None /\ zaps < MaxZaps
    /\ LET w == StopRunning(manager, support)
       IN manager' = w.m /\ support' = w.p
    /\ running' = None /\ zaps' = zaps + 1
    /\ previous' = IF History THEN running ELSE previous
    /\ UNCHANGED <<enabled, recs, asserted, disturbances>>

(***************************************************************************)
(* What services tell later: the tuner has locked, or tuning or the        *)
(* preparation of the decoder has failed.                                  *)
(***************************************************************************)
Tells(s, event) ==
    LET p == IF manager.services[s].connected THEN GetEvent(support, event)
             ELSE support
    IN IF Watching(s) THEN OnTune(p) ELSE p

TunedIn(s) ==
    /\ Idle /\ s \in InMap(manager) /\ ~manager.services[s].locked
    /\ manager' = [manager EXCEPT !.services[s].locked = TRUE]
    /\ support' = Tells(s, "tuned")
    /\ UNCHANGED <<running, asserted, others>>

TuneFailed(s) ==
    /\ Idle /\ s \in InMap(manager) /\ manager.services[s].failed # "tune"
    /\ manager' = Fails(manager, s, "tune")
    /\ support' = Tells(s, "failed")
    /\ UNCHANGED <<running, asserted, others>>

\* prepareFCC fails for the program of s; evFccFailed is not one the plugin
\* listens to when s is watched.
FccFailed(s) ==
    /\ Idle /\ s \in InMap(manager) /\ ~manager.services[s].normal
    /\ manager.services[s].locked /\ manager.services[s].failed = "no"
    /\ manager' = Fails(manager, s, "fcc")
    /\ support' = IF Watching(s) THEN support ELSE Tells(s, "failed")
    /\ UNCHANGED <<running, asserted, others>>

(***************************************************************************)
(* FCCCreateList, with the cursor of the channel list on name c.           *)
(***************************************************************************)
\* The entries of the sequence q at the positions in P, in their order.
AtPositions(q, P) ==
    [k \in 1..Cardinality(P) |->
        q[CHOOSE i \in P : Cardinality({j \in P : j <= i}) = k]]

\* Where an entry of q stands for the first time.
Firsts(q) == {i \in 1..Len(q) : \A j \in 1..(i - 1) : q[j] # q[i]}

Listed ==
    AtPositions(Bouquet, {i \in 1..Len(Bouquet) : Playable(Ref[Bouquet[i]])})

\* getZapUpDownList: next, previous, the one after next, ...
ZapUpDown(c) ==
    LET n == Len(Listed)
        i == SelectInSeq(Listed, LAMBDA x : x = c) - 1
        step(x) == IF x % 2 = 0 THEN x \div 2 + 1 ELSE -(x \div 2 + 1)
        count == IF n < MaxFCC THEN n - 1 ELSE MaxFCC - 1
    IN IF i < 0 THEN << >>
       ELSE [x \in 1..count |-> Listed[((i + step(x - 1)) % n) + 1]]

\* getHistoryPrevNextList, where the user has not gone back
HistoryPrev ==
    IF previous # None /\ Playable(Ref[previous]) THEN <<previous>> ELSE << >>

\* list is never longer than MaxFCC - 1 when this begins.
AddFCCList(list, new) ==
    LET added == {i \in Firsts(new) : new[i] \notin ToSet(list)}
        all == list \o AtPositions(new, added)
    IN SubSeq(all, 1, IF Len(all) < MaxFCC - 1 THEN Len(all) ELSE MaxFCC - 1)

Wanted(c) ==
    LET near == ZapUpDown(c)
        first == SubSeq(near, 1, IF Len(near) > 2 THEN 2 ELSE Len(near))
        prev == IF History THEN HistoryPrev ELSE << >>
    IN AddFCCList(AddFCCList(first, prev), near)

\* FCCReconfigureFccList
\* Mutant: what is not wanted any more stays prepared.
KeepAll(m, list) == In(m, "failed")

Unwanted(m, list) ==
    In(m, "failed") \cup
    {s \in In(m, "preparing") : m.services[s].name \notin ToSet(list)}

\* Each service of the map that has not failed takes one entry from the list.
Missing(m, list) ==
    LET known == {m.services[s].name : s \in InMap(m) \ In(m, "failed")}
        taken == {i \in Firsts(list) : list[i] \in known}
    IN AtPositions(list, 1..Len(list) \ taken)

CreateList(w, c) ==
    IF ~enabled \/ Suspended(w.p) THEN w
    ELSE [m |-> Stopped(w.m, Unwanted(w.m, Wanted(c))),
          p |-> [w.p EXCEPT !.list = Missing(w.m, Wanted(c))]]

(***************************************************************************)
(* The timers of the plugin.                                               *)
(***************************************************************************)
Due(timer) == support.queue # << >> /\ Head(support.queue) = timer

State == [m |-> manager, p |-> support]

Becomes(w) == manager' = w.m /\ support' = w.p

CreateListTimer ==
    /\ Idle /\ Due("createList")
    /\ \E c \in ToSet(Bouquet) :
          Becomes(CreateList([State EXCEPT !.p = Stop(@, "createList")], c))
    /\ UNCHANGED <<running, asserted, others>>

\* FCCGetCurSref, FCCStart
GetSrefTimer ==
    /\ Idle /\ Due("getSref")
    /\ \E c \in ToSet(Bouquet) :
          LET w == [State EXCEPT !.p = Stop(@, "getSref")]
              l == IF "createList" \in ToSet(w.p.queue)
                   THEN CreateList([w EXCEPT !.p = Stop(@, "createList")], c)
                   ELSE w
          IN Becomes(IF ~enabled \/ Suspended(w.p) THEN w
                     ELSE IF running = None \/ ~Playable(Ref[running]) THEN l
                     ELSE [l EXCEPT !.p = GetEvent([@ EXCEPT !.activating = TRUE],
                                                   "tuned")])
    /\ UNCHANGED <<running, asserted, others>>

FccEventTimer ==
    /\ Idle /\ Due("fccEvent")
    /\ support' = [Stop(support, "fccEvent") EXCEPT
                      !.applying = support.activating /\ support.events # << >>]
    /\ UNCHANGED <<manager, running, asserted, others>>

\* FCCCheckNoLocked: the order of the dictionary does not change while the
\* services in it do not.
NoLocked(m) == {s \in InMap(m) \ In(m, "decoding") : ~m.services[s].locked}

Awaited(m) ==
    IF NoLocked(m) = {} THEN {} ELSE {CHOOSE s \in NoLocked(m) : TRUE}

\* One turn of the loop of FCCApplyEvent.
LoopEnds(p) == [p EXCEPT !.applying = p.events # << >>]

ApplyEvent ==
    /\ support.applying /\ ~asserted
    /\ LET p == TimeoutStop([support EXCEPT !.events = Tail(@)])
           m == IF Head(support.events) = "failed" THEN StopFailed(manager)
                ELSE manager
           n == Head(p.list)
           rest == [p EXCEPT !.list = Tail(@)]
       IN \/ /\ Awaited(m) # {}
             /\ manager' = m
             /\ \E s \in Awaited(m) : support' = LoopEnds(TimeoutStart(p, s))
             /\ UNCHANGED asserted
          \/ /\ Awaited(m) = {} /\ (p.list # << >> => ~Playable(Ref[n]))
             /\ manager' = m
             /\ support' = LoopEnds(IF p.list = << >> THEN p ELSE rest)
             /\ UNCHANGED asserted
          \/ /\ Awaited(m) = {} /\ p.list # << >> /\ Playable(Ref[n])
             /\ IF Ref[n] \in InMap(m)
                THEN /\ asserted' = TRUE
                     /\ manager' = m /\ support' = rest
                ELSE \E a \in PreparedAs(Ref[n]) :
                     LET t == IF a.locked THEN GetEvent(rest, "tuned") ELSE rest
                         f == IF a.failed = "no" THEN t ELSE GetEvent(t, "failed")
                     IN /\ manager' = Prepared(m, Ref[n], n, a)
                        /\ support' = LoopEnds(TimeoutStart(f, Ref[n]))
                        /\ UNCHANGED asserted
    /\ UNCHANGED <<running, others>>

\* Mutant: the service is stopped, and nothing more.
GivenUpSilently(p) == p

GivenUp(p) == GetEvent(p, "timeout")

FCCTimeout ==
    /\ Idle /\ support.timeout
    /\ LET p == [support EXCEPT !.timeout = FALSE]
       IN IF Awaited(manager) = {support.wait}
          THEN /\ manager' = Stopped(manager, {support.wait})
               /\ support' = GivenUp(p)
          ELSE support' = p /\ UNCHANGED manager
    /\ UNCHANGED <<running, asserted, others>>

(***************************************************************************)
(* Recordings, the second picture and the setup stop the preparations.     *)
(***************************************************************************)
ForceStart(w) ==
    [w EXCEPT !.p = Start(Start([@ EXCEPT !.tracker = TRUE], "createList"),
                          "getSref")]

\* Mutant: what is prepared is left alone.
ForceStopTracking(w) ==
    [m |-> StopFailed(w.m), p |-> Disabled([w.p EXCEPT !.tracker = FALSE])]

ForceStop(w) ==
    [m |-> Stopped(w.m, InMap(w.m) \ In(w.m, "decoding")),
     p |-> Disabled([w.p EXCEPT !.tracker = FALSE])]

ForceStopAndStart(w) ==
    LET stopped == ForceStop([w EXCEPT !.p.reset = FALSE])
    IN [stopped EXCEPT !.p.forceStart = TRUE]

ForceStartTimer ==
    /\ Idle /\ support.forceStart
    /\ Becomes(ForceStart([State EXCEPT !.p.forceStart = FALSE]))
    /\ UNCHANGED <<running, asserted, others>>

ResetTimer ==
    /\ Idle /\ support.reset
    /\ Becomes(ForceStart(ForceStop([State EXCEPT !.p.reset = FALSE])))
    /\ UNCHANGED <<running, asserted, others>>

\* gotRecordEvent, which is called only when the plugin is enabled
RecordTuneStart ==
    /\ Idle /\ disturbances < MaxDisturbances
    /\ recs' = recs + 1 /\ disturbances' = disturbances + 1
    /\ Becomes(IF ~enabled \/ Suspended(support) THEN State
               ELSE IF support.disableforrec
               THEN ForceStop([State EXCEPT !.p.recordings = TRUE])
               ELSE ForceStopAndStart(State))
    /\ UNCHANGED <<running, enabled, previous, asserted, zaps>>

RecordEnd ==
    /\ Idle /\ recs > 0
    /\ recs' = recs - 1
    /\ Becomes(IF ~enabled THEN State
               ELSE IF ~support.disableforrec
               THEN [State EXCEPT !.p = [@ EXCEPT !.forceStart = FALSE, !.reset = TRUE]]
               ELSE IF recs' > 0 THEN [State EXCEPT !.p.recordings = TRUE]
               ELSE ForceStart([State EXCEPT !.p.recordings = FALSE]))
    /\ UNCHANGED <<running, enabled, previous, asserted, zaps, disturbances>>

\* FCCForceStopforPIP
StartPip ==
    /\ Idle /\ disturbances < MaxDisturbances
    /\ Becomes(ForceStopAndStart(State))
    /\ disturbances' = disturbances + 1
    /\ UNCHANGED <<running, enabled, recs, previous, asserted, zaps>>

\* FCCSetupChanged: the plugin is switched on or off, or disableforrec is.
SetupChanged(on, disable) ==
    /\ Idle /\ disturbances < MaxDisturbances
    /\ <<on, disable>> # <<enabled, support.disableforrec>>
    /\ enabled' = on
    /\ LET known == [support EXCEPT !.recordings = recs > 0,
                                   !.disableforrec = disable]
           p == [known EXCEPT !.tracker = on /\ ~Suspended(known)]
           w == IF p.tracker THEN [State EXCEPT !.p = p]
                ELSE [m |-> StopFailed(manager), p |-> Disabled(p)]
       IN IF running = None
          THEN Becomes(w) /\ UNCHANGED running
          ELSE PlayFresh(StopRunning(w.m, w.p), running)
    /\ disturbances' = disturbances + 1
    /\ UNCHANGED <<recs, previous, asserted, zaps>>

Timers == CreateListTimer \/ GetSrefTimer \/ FccEventTimer \/ ApplyEvent

LongTimers == FCCTimeout \/ ForceStartTimer \/ ResetTimer

Next ==
    \/ \E n \in Names : Zap(n)
    \/ StopService
    \/ \E s \in Services : TunedIn(s) \/ TuneFailed(s) \/ FccFailed(s)
    \/ Timers \/ LongTimers
    \/ RecordTuneStart \/ RecordEnd \/ StartPip
    \/ \E on, disable \in BOOLEAN : SetupChanged(on, disable)

Spec == Init /\ [][Next]_vars

TypeOK ==
    /\ manager.services \in [InMap(manager) -> Elems]
    /\ InMap(manager) \subseteq Services
    /\ manager.chids \in [Channels -> Nat]
    /\ running \in Names \cup {None} /\ previous \in Names \cup {None}

(***************************************************************************)
(* Properties                                                              *)
(***************************************************************************)
\* m_fcc_chids, from which canAllocateChannel tells the tuners it may count
\* as free, counts for each channel the services that are prepared on it,
\* whichever way they came there and left.
ChannelsCounted ==
    \A c \in Channels :
        manager.chids[c] =
            Cardinality({s \in InMap(manager) \ In(manager, "decoding") :
                            ChannelID[s] = c})

\* Services are prepared only beside the one that is watched, which is in the
\* map, decodes and is the only one to do so: a zap overwrites m_runningService
\* without a stop, and tryFCCService asserts that one service decodes.
OneIsWatched ==
    InMap(manager) # {} =>
        running # None /\ In(manager, "decoding") = {Ref[running]}

\* The manager is never asked to prepare what it has already: playFCCService
\* asserts it.
NeverAsserts == ~asserted

\* There are never more services than decoders, whatever is on the list still
\* to be started.
WithinMax == Cardinality(InMap(manager)) <= MaxFCC

\* While a recording runs that stops the preparations, no tuner is kept for
\* them, whatever timers of the plugin were on their way.
NothingBesideRecording ==
    enabled /\ support.disableforrec /\ recs > 0 =>
        InMap(manager) = In(manager, "decoding")

\* The preparations do not come to a halt: when no event is left to handle and
\* there is still a service to start, or one that has not locked, the timer is
\* running that gives up the one it is about and goes on.
NeverStalls ==
    Idle /\ support.activating /\ support.queue = << >> =>
        \/ NoLocked(manager) = {} /\ support.list = << >>
        \/ support.timeout /\ Awaited(manager) = {support.wait}
=============================================================================
