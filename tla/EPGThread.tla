----------------------------- MODULE EPGThread -----------------------------
(***************************************************************************)
(* eEPGCache and its thread (epgcache.cpp): the main loop learns of        *)
(* channels and of the time, and tells the thread by messages to start and *)
(* to leave a channel; the thread reads the events of the channels.        *)
(*                                                                         *)
(* A channel is the address of an eDVBChannel, used again after release.   *)
(* Its channel_data is here as functions of that address.  The thread      *)
(* holds channel_active from startChannel to abortEPG, and channel_map_lock*)
(* for a message; the main loop takes both to forget a channel.  What the  *)
(* readers deliver goes to EPGStore.                                       *)
(***************************************************************************)
EXTENDS Integers, SequencesExt

CONSTANTS
    Channels, NoChannel,
    Readers,    \* now/next, schedule, schedule other, viasat
    ReusesAddress, \* a new channel may have the address of one that messages
                   \* on the way are still about
    MaxEvents   \* bounds the calls of the main loop

ASSUME ThreadAssumption ==
    /\ IsFiniteSet(Channels) /\ NoChannel \notin Channels /\ MaxEvents \in Nat
    /\ ReusesAddress \in BOOLEAN

VARIABLES
    main, leaving,     \* what the main loop is in, and the channel it forgets
    thread, starting,  \* the same of the thread
    m_running,
    messages,
    map_lock,          \* who holds channel_map_lock
    m_knownChannels,
    \* of a channel's data
    active,            \* who holds channel_active
    state, prevChannelState,
    zapTimer, abortTimer,  \* running?
    isRunning, haveData,   \* readers
    private,           \* the private pid: unset, timer, reader, stopped
    events

mainVars == <<main, leaving, events>>
threadVars == <<thread, starting, m_running>>
locks == <<map_lock, active>>
readVars == <<zapTimer, abortTimer, isRunning, haveData>>
dataVars == <<state, prevChannelState, readVars, private>>
allVars == <<mainVars, threadVars, messages, locks, m_knownChannels, dataVars>>

Message(type, channel) == [type |-> type, channel |-> channel]

ThreadInit ==
    /\ main = "idle" /\ leaving = NoChannel /\ events = 0
    /\ thread = "none" /\ starting = NoChannel /\ m_running = FALSE
    /\ messages = <<>>
    /\ map_lock = "free" /\ active = [c \in Channels |-> "free"]
    /\ m_knownChannels = {}
    /\ state = [c \in Channels |-> -2]
    /\ prevChannelState = [c \in Channels |-> "none"]
    /\ zapTimer = [c \in Channels |-> FALSE]
    /\ abortTimer = [c \in Channels |-> FALSE]
    /\ isRunning = [c \in Channels |-> {}]
    /\ haveData = [c \in Channels |-> {}]
    /\ private = [c \in Channels |-> "unset"]

(***************************************************************************)
(* The main loop.                                                          *)
(***************************************************************************)
MainEvent == main = "idle" /\ events < MaxEvents /\ events' = events + 1

DVBChannelAdded(c) ==
    /\ MainEvent /\ c \notin m_knownChannels /\ map_lock = "free"
    /\ ReusesAddress \/ \A i \in DOMAIN messages : messages[i].channel # c
    /\ m_knownChannels' = m_knownChannels \cup {c}
    /\ active' = [active EXCEPT ![c] = "free"]
    /\ state' = [state EXCEPT ![c] = -2]
    /\ prevChannelState' = [prevChannelState EXCEPT ![c] = "none"]
    /\ zapTimer' = [zapTimer EXCEPT ![c] = FALSE]
    /\ abortTimer' = [abortTimer EXCEPT ![c] = FALSE]
    /\ isRunning' = [isRunning EXCEPT ![c] = {}]
    /\ haveData' = [haveData EXCEPT ![c] = {}]
    /\ private' = [private EXCEPT ![c] = "unset"]
    /\ UNCHANGED <<main, leaving, threadVars, messages, map_lock>>

\* state_ok, for the first time: a channel that loses its lock and finds it
\* again is not started anew.  Without a demux it is never started.
DVBChannelRunning(c) ==
    /\ MainEvent /\ c \in m_knownChannels /\ prevChannelState[c] # "ok"
    /\ \/ /\ m_running
          /\ state' = [state EXCEPT ![c] = 0]
          /\ messages' = Append(messages, Message("start", c))
       \/ /\ ~m_running
          /\ state' = [state EXCEPT ![c] = -1]
          /\ UNCHANGED messages
       \/ UNCHANGED <<state, messages>>
    /\ prevChannelState' = [prevChannelState EXCEPT ![c] = "ok"]
    /\ UNCHANGED <<main, leaving, threadVars, locks, m_knownChannels, readVars,
                   private>>

\* state_release: the rest of the handler follows below.
ReleaseBegin(c) ==
    /\ MainEvent /\ c \in m_knownChannels
    /\ messages' = IF state[c] >= 0 THEN Append(messages, Message("leave", c))
                                    ELSE messages
    /\ main' = "active" /\ leaving' = c
    /\ UNCHANGED <<threadVars, locks, m_knownChannels, dataVars>>

ReleaseActive ==
    /\ main = "active" /\ active[leaving] = "free"
    /\ active' = [active EXCEPT ![leaving] = "main"]
    /\ main' = "map"
    /\ UNCHANGED <<leaving, events, threadVars, messages, map_lock,
                   m_knownChannels, dataVars>>

ReleaseForget ==
    /\ main = "map" /\ map_lock = "free"
    /\ m_knownChannels' = m_knownChannels \ {leaving}
    /\ active' = [active EXCEPT ![leaving] = "free"]
    /\ main' = "idle" /\ leaving' = NoChannel
    /\ UNCHANGED <<events, threadVars, messages, map_lock, dataVars>>

\* The first time the clock is set and the cache file is known, the thread is
\* started; run() returns after its hasStarted().
TimeUpdated ==
    /\ MainEvent
    /\ IF thread = "none"
       THEN thread' = "init" /\ main' = "run" /\ UNCHANGED messages
       ELSE /\ messages' = Append(messages, Message("timeChanged", NoChannel))
            /\ UNCHANGED <<thread, main>>
    /\ UNCHANGED <<leaving, starting, m_running, locks, m_knownChannels, dataVars>>

Waiting == {c \in m_knownChannels : state[c] = -1}

\* Mutant: the channels that wait are not started.
RunReturnsOnly ==
    /\ main = "run" /\ thread # "init" /\ map_lock = "free"
    /\ main' = "idle"
    /\ UNCHANGED <<leaving, events, threadVars, messages, locks, m_knownChannels,
                   dataVars>>

RunReturns ==
    /\ main = "run" /\ thread # "init" /\ map_lock = "free"
    /\ \E order \in SetToSeqs(Waiting) :
           messages' = messages \o [i \in DOMAIN order |-> Message("start", order[i])]
    /\ state' = [c \in Channels |-> IF c \in Waiting THEN 0 ELSE state[c]]
    /\ main' = "idle"
    /\ UNCHANGED <<leaving, events, threadVars, locks, m_knownChannels,
                   prevChannelState, readVars, private>>

\* A service of the channel has a pid with private sections.
PMTready(c) ==
    /\ MainEvent /\ c \in m_knownChannels /\ prevChannelState[c] = "ok"
    /\ messages' = Append(messages, Message("private", c))
    /\ UNCHANGED <<main, leaving, threadVars, locks, m_knownChannels, dataVars>>

\* The destructor: quit, and wait for the thread.
Destroy ==
    /\ MainEvent
    /\ messages' = Append(messages, Message("quit", NoChannel))
    /\ main' = "kill"
    /\ UNCHANGED <<leaving, threadVars, locks, m_knownChannels, dataVars>>

Killed ==
    /\ main = "kill" /\ thread \in {"none", "exited"}
    /\ main' = "gone"
    /\ UNCHANGED <<leaving, events, threadVars, messages, locks, m_knownChannels,
                   dataVars>>

Main ==
    \/ \E c \in Channels : \/ DVBChannelAdded(c) \/ DVBChannelRunning(c)
                           \/ ReleaseBegin(c) \/ PMTready(c)
    \/ TimeUpdated \/ Destroy

MainGoesOn == ReleaseActive \/ ReleaseForget \/ RunReturns \/ Killed

(***************************************************************************)
(* The thread.                                                             *)
(***************************************************************************)
HasStarted ==
    /\ thread = "init"
    /\ thread' = "started"
    /\ UNCHANGED <<mainVars, starting, m_running, messages, locks,
                   m_knownChannels, dataVars>>

EnterLoop ==
    /\ thread = "started"
    /\ m_running' = TRUE
    /\ thread' = "loop"
    /\ UNCHANGED <<mainVars, starting, messages, locks, m_knownChannels, dataVars>>

Receive(type) ==
    /\ thread = "loop" /\ messages # <<>> /\ Head(messages).type = type
    /\ messages' = Tail(messages)

GotStart ==
    /\ Receive("start") /\ map_lock = "free"
    /\ IF Head(messages).channel \in m_knownChannels
       THEN /\ map_lock' = "thread" /\ thread' = "lock"
            /\ starting' = Head(messages).channel
       ELSE UNCHANGED <<map_lock, thread, starting>>
    /\ UNCHANGED <<mainVars, m_running, active, m_knownChannels, dataVars>>

StartChannel ==
    /\ thread = "lock" /\ active[starting] = "free"
    /\ active' = [active EXCEPT ![starting] = "thread"]
    /\ zapTimer' = [zapTimer EXCEPT ![starting] = TRUE]
    /\ map_lock' = "free"
    /\ thread' = "loop" /\ starting' = NoChannel
    /\ UNCHANGED <<mainVars, m_running, messages, m_knownChannels, state,
                   prevChannelState, abortTimer, isRunning, haveData, private>>

\* Mutant: the lock stays with the thread.
AbortKeepsLock(c) ==
    /\ zapTimer' = [zapTimer EXCEPT ![c] = FALSE]
    /\ abortTimer' = [abortTimer EXCEPT ![c] = FALSE]
    /\ isRunning' = [isRunning EXCEPT ![c] = {}]
    /\ private' = [private EXCEPT ![c] = IF @ = "reader" THEN "stopped" ELSE @]
    /\ UNCHANGED active

\* Mutant: the zap timer goes on.
AbortKeepsTimer(c) ==
    /\ abortTimer' = [abortTimer EXCEPT ![c] = FALSE]
    /\ isRunning' = [isRunning EXCEPT ![c] = {}]
    /\ private' = [private EXCEPT ![c] = IF @ = "reader" THEN "stopped" ELSE @]
    /\ active' = [active EXCEPT ![c] = "free"]
    /\ UNCHANGED zapTimer

\* The private timer is not stopped.
AbortEPG(c) ==
    /\ zapTimer' = [zapTimer EXCEPT ![c] = FALSE]
    /\ abortTimer' = [abortTimer EXCEPT ![c] = FALSE]
    /\ isRunning' = [isRunning EXCEPT ![c] = {}]
    /\ private' = [private EXCEPT ![c] = IF @ = "reader" THEN "stopped" ELSE @]
    /\ active' = [active EXCEPT ![c] = "free"]

GotLeave ==
    /\ Receive("leave") /\ map_lock = "free"
    /\ IF Head(messages).channel \in m_knownChannels
       THEN AbortEPG(Head(messages).channel)
       ELSE UNCHANGED <<active, zapTimer, abortTimer, isRunning, private>>
    /\ UNCHANGED <<mainVars, threadVars, map_lock, m_knownChannels, state,
                   prevChannelState, haveData>>

GotPrivatePid ==
    /\ Receive("private") /\ map_lock = "free"
    /\ private' = [c \in Channels |->
           IF /\ c = Head(messages).channel /\ c \in m_knownChannels
              /\ private[c] = "unset"
           THEN "timer" ELSE private[c]]
    /\ UNCHANGED <<mainVars, threadVars, locks, m_knownChannels, state,
                   prevChannelState, readVars>>

GotTimeChanged ==
    /\ Receive("timeChanged")
    /\ UNCHANGED <<mainVars, threadVars, locks, m_knownChannels, dataVars>>

GotQuit ==
    /\ Receive("quit")
    /\ thread' = "exited" /\ m_running' = FALSE
    /\ UNCHANGED <<mainVars, starting, locks, m_knownChannels, dataVars>>

\* zapTimer: all readers start.
StartEPG(c) ==
    /\ thread = "loop" /\ zapTimer[c]
    /\ zapTimer' = [zapTimer EXCEPT ![c] = FALSE]
    /\ abortTimer' = [abortTimer EXCEPT ![c] = TRUE]
    /\ state' = [state EXCEPT ![c] = 0]
    /\ haveData' = [haveData EXCEPT ![c] = {}]
    /\ isRunning' = [isRunning EXCEPT ![c] = Readers]
    /\ UNCHANGED <<mainVars, threadVars, messages, locks, m_knownChannels,
                   prevChannelState, private>>

\* abortTimer: the readers that have seen nothing stop; if some are left, it
\* comes once more.
AbortNonAvail(c) ==
    /\ thread = "loop" /\ abortTimer[c]
    /\ LET left == IF state[c] = 0 THEN isRunning[c] \cap haveData[c]
                                   ELSE isRunning[c]
           again == state[c] = 0 /\ left # {}
       IN  /\ isRunning' = [isRunning EXCEPT ![c] = left]
           /\ abortTimer' = [abortTimer EXCEPT ![c] = again]
           /\ state' = [state EXCEPT ![c] = IF again THEN 1 ELSE 2]
    /\ UNCHANGED <<mainVars, threadVars, messages, locks, m_knownChannels,
                   prevChannelState, zapTimer, haveData, private>>

\* A section with events: sectionRead puts them into the maps.
ReadSection(c, r) ==
    /\ thread = "loop" /\ r \in isRunning[c] /\ state[c] < 2
    /\ haveData' = [haveData EXCEPT ![c] = @ \cup {r}]
    /\ UNCHANGED <<mainVars, threadVars, messages, locks, m_knownChannels, state,
                   prevChannelState, zapTimer, abortTimer, isRunning, private>>

\* A section of a reader that has seen them all, or whose time is up; after
\* the last reader the next round is set.
FinishReader(c, r) ==
    /\ thread = "loop" /\ r \in isRunning[c] /\ state[c] >= 1
    /\ isRunning' = [isRunning EXCEPT ![c] = @ \ {r}]
    /\ zapTimer' = [zapTimer EXCEPT ![c] = @ \/ isRunning[c] = {r}]
    /\ UNCHANGED <<mainVars, threadVars, messages, locks, m_knownChannels, state,
                   prevChannelState, abortTimer, haveData, private>>

StartPrivateReader(c) ==
    /\ thread = "loop" /\ private[c] = "timer"
    /\ private' = [private EXCEPT ![c] = "reader"]
    /\ UNCHANGED <<mainVars, threadVars, messages, locks, m_knownChannels, state,
                   prevChannelState, readVars>>

GotMessage ==
    \/ GotStart \/ StartChannel \/ GotLeave
    \/ GotPrivatePid \/ GotTimeChanged \/ GotQuit

Thread ==
    \/ HasStarted \/ EnterLoop \/ GotMessage
    \/ \E c \in Channels :
           \/ StartEPG(c) \/ AbortNonAvail(c) \/ StartPrivateReader(c)
           \/ \E r \in Readers : ReadSection(c, r) \/ FinishReader(c, r)

ThreadNext == Main \/ MainGoesOn \/ Thread

ThreadSpec == ThreadInit /\ [][ThreadNext]_allVars

\* A thread that can go on does: the main loop returns from its handlers, and
\* the thread takes its messages although timers and sections come, too.
FairSpec ==
    /\ ThreadSpec
    /\ WF_allVars(MainGoesOn)
    /\ WF_allVars(HasStarted) /\ WF_allVars(EnterLoop) /\ WF_allVars(GotMessage)
-----------------------------------------------------------------------------
Holders == {"free", "main", "thread"}
MessageType == {"start", "leave", "private", "timeChanged", "quit"}

\* Every variable stays in its range.
ThreadTypeOK ==
    /\ main \in {"idle", "active", "map", "run", "kill", "gone"}
    /\ leaving \in Channels \cup {NoChannel}
    /\ main \in {"active", "map"} <=> leaving # NoChannel
    /\ events \in 0 .. MaxEvents
    /\ thread \in {"none", "init", "started", "loop", "lock", "exited"}
    /\ starting \in Channels \cup {NoChannel}
    /\ thread = "lock" <=> starting # NoChannel
    /\ m_running \in BOOLEAN
    /\ messages \in Seq([type : MessageType, channel : Channels \cup {NoChannel}])
    /\ map_lock \in Holders /\ active \in [Channels -> Holders]
    /\ m_knownChannels \subseteq Channels
    /\ state \in [Channels -> -2 .. 2]
    /\ prevChannelState \in [Channels -> {"none", "ok"}]
    /\ zapTimer \in [Channels -> BOOLEAN] /\ abortTimer \in [Channels -> BOOLEAN]
    /\ isRunning \in [Channels -> SUBSET Readers]
    /\ haveData \in [Channels -> SUBSET Readers]
    /\ private \in [Channels -> {"unset", "timer", "reader", "stopped"}]

Armed(c) == zapTimer[c] \/ abortTimer[c] \/ isRunning[c] # {}

\* The main loop deletes the data of a channel only when no timer and no
\* reader of the thread refers to it (the private ones excepted).
DeletedNotArmed ==
    \A c \in Channels :
        c \notin m_knownChannels \/ (main = "map" /\ leaving = c) => ~Armed(c)

\* Each waits for the lock the other holds.
LockCycle == thread = "lock" /\ main = "map" /\ leaving = starting

\* The release of a channel returns, unless it meets the start of the same
\* channel.
ReleaseReturns ==
    \A c \in Channels : leaving = c ~> leaving # c \/ LockCycle \/ thread = "exited"

\* A channel that runs when the clock is set for the first time has its events
\* read, unless it is gone before.
WaitingIsStarted ==
    \A c \in Channels :
        c \in Waiting /\ main = "run" ~>
            Armed(c) \/ c \notin m_knownChannels \/ leaving # NoChannel
            \/ thread = "exited"

\* The message that ends the reading of a channel is handled ("-> gotMessage
\* -> abortEPG").
LeaveHandled ==
    \A c \in Channels :
        (\E i \in DOMAIN messages : messages[i] = Message("leave", c))
        /\ thread \in {"loop", "lock"}
        ~> \/ ~ \E i \in DOMAIN messages : messages[i] = Message("leave", c)
           \/ thread = "exited"
=============================================================================
