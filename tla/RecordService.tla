--------------------------- MODULE RecordService ---------------------------
(***************************************************************************)
(* The services on top of the channels: the one that is played and the     *)
(* recordings of eNavigation (core.cpp), their service handlers (pmt.cpp)  *)
(* and eDVBServiceRecord (servicedvbrecord.cpp).                           *)
(*                                                                         *)
(* The main loop is one thread.  A change to state_ok calls the handlers   *)
(* connected to the channel one after the other, and each may call the     *)
(* recording: the calls to come are in todo, and nothing else happens      *)
(* before they are done.                                                   *)
(***************************************************************************)
EXTENDS Channels

CONSTANTS
    Services,
    Recordings,  \* of these
    Streams,     \* recordings without a file
    MaxFaults    \* bounds what fails

ASSUME ServiceAssumption ==
    /\ Recordings \subseteq Services /\ Streams \subseteq Recordings
    /\ IsFiniteSet(Services) /\ MaxFaults \in Nat

VARIABLES
    on,       \* the tuner of m_channel, or None
    demux,    \* m_demux is set
    info,     \* getProgramInfo succeeds
    m_tuned,  \* eventTuned was sent
    m_state,  \* none: there is no such service
    m_want_record,
    started,  \* start() has answered 0
    m_record,
    m_target_fd,  \* is open
    file,     \* none, empty or data
    todo,     \* calls: <<"tuned", s>>, <<"info", s>>
    faults

handlerVars == <<on, demux, info, m_tuned>>
recordVars == <<m_state, m_want_record, started, m_record, m_target_fd, file>>
vars == <<channelVars, handlerVars, recordVars, todo, faults>>

Init ==
    /\ ChannelInit
    /\ on = [s \in Services |-> None]
    /\ demux = [s \in Services |-> FALSE]
    /\ info = [s \in Services |-> FALSE]
    /\ m_tuned = [s \in Services |-> FALSE]
    /\ m_state = [r \in Recordings |-> "none"]
    /\ m_want_record = [r \in Recordings |-> FALSE]
    /\ started = [r \in Recordings |-> FALSE]
    /\ m_record = [r \in Recordings |-> FALSE]
    /\ m_target_fd = [r \in Recordings |-> FALSE]
    /\ file = [r \in Recordings |-> "none"]
    /\ todo = {} /\ faults = 0

Idle == todo = {}

Fault == faults < MaxFaults /\ faults' = faults + 1

(***************************************************************************)
(* tuneExt and free of a handler.                                          *)
(***************************************************************************)
\* Mutant: the handler does not ask for the state after it has connected.
TuneDeaf(s, i, t) ==
    /\ on[s] = None /\ AllocateChannel(i, t)
    /\ on' = [on EXCEPT ![s] = t]
    /\ UNCHANGED todo

Tune(s, i, t) ==
    /\ on[s] = None /\ AllocateChannel(i, t)
    /\ on' = [on EXCEPT ![s] = t]
    /\ todo' = IF channel'[t].state = "ok" THEN {<<"tuned", s>>} ELSE {}

Free(s) ==
    /\ on[s] # None /\ FreeChannel(on[s])
    /\ on' = [on EXCEPT ![s] = None]
    /\ demux' = [demux EXCEPT ![s] = FALSE]
    /\ info' = [info EXCEPT ![s] = FALSE]
    /\ m_tuned' = [m_tuned EXCEPT ![s] = FALSE]

(***************************************************************************)
(* eNavigation: play and stop the running service.                         *)
(***************************************************************************)
Play(s, i) ==
    /\ Idle
    /\ \E t \in Tuners : Tune(s, i, t)
    /\ UNCHANGED <<demux, info, m_tuned, recordVars, faults>>

StopService(s) ==
    /\ Idle /\ Free(s)
    /\ UNCHANGED <<recordVars, todo, faults>>

\* Refused: the cached channel is gone all the same.
Refuse(i) ==
    /\ Idle /\ AllocateFails(i)
    /\ IF AllBusy THEN UNCHANGED faults ELSE Fault
    /\ UNCHANGED <<handlerVars, recordVars, todo>>

(***************************************************************************)
(* The recording service.  recordService and prepare, as the record timer  *)
(* calls them; when it is refused it is stopped again at once (Refuse).    *)
(***************************************************************************)
Record(r, i) ==
    /\ Idle /\ m_state[r] = "none"
    /\ \E t \in Tuners : Tune(r, i, t)
    /\ m_state' = [m_state EXCEPT ![r] = "prepared"]
    /\ file' = [file EXCEPT ![r] = "none"]
    /\ UNCHANGED <<demux, info, m_tuned, m_want_record, started, m_record,
                   m_target_fd, faults>>

\* doRecord from "start streaming" or "start recording" on.
Begins(r) ==
    m_state' = IF info[r] \/ r \in Streams THEN [m_state EXCEPT ![r] = "recording"]
                                           ELSE m_state

\* doRecord fails: no demux, no recorder, or no file; an open file stays open
\* without being m_target_fd.
Refused(r) ==
    /\ m_tuned[r] /\ r \notin Streams /\ ~m_record[r]
    /\ \/ ~demux[r] /\ file' = [file EXCEPT ![r] = "empty"] /\ UNCHANGED faults
       \/ Fault /\ \E left \in {"none", "empty"} : file' = [file EXCEPT ![r] = left]
    /\ UNCHANGED <<m_state, m_record, m_target_fd>>

Recorded(r) ==
    \/ /\ ~m_tuned[r]
       /\ UNCHANGED <<m_state, m_record, m_target_fd, file, faults>>
    \/ /\ m_tuned[r] /\ (m_record[r] \/ r \in Streams)
       /\ Begins(r)
       /\ UNCHANGED <<m_record, m_target_fd, file, faults>>
    \/ /\ m_tuned[r] /\ ~m_record[r] /\ r \notin Streams /\ demux[r]
       /\ file' = [file EXCEPT ![r] = "empty"]
       /\ m_record' = [m_record EXCEPT ![r] = TRUE]
       /\ m_target_fd' = [m_target_fd EXCEPT ![r] = TRUE]
       /\ Begins(r)
       /\ UNCHANGED faults

Start(r) ==
    /\ Idle /\ m_state[r] = "prepared" /\ ~started[r]
    /\ m_want_record' = [m_want_record EXCEPT ![r] = TRUE]
    /\ \/ Recorded(r) /\ started' = [started EXCEPT ![r] = TRUE]
       \/ Refused(r) /\ UNCHANGED started
    /\ UNCHANGED <<channelVars, handlerVars, todo>>

\* Mutant: the state is that of a recording.
StopGoesOn(r) ==
    /\ m_target_fd' = [m_target_fd EXCEPT ![r] = FALSE]
    /\ m_record' = [m_record EXCEPT ![r] = FALSE]
    /\ UNCHANGED m_state

\* stop()
Stop(r) ==
    /\ m_target_fd' =
           IF m_state[r] = "recording" THEN [m_target_fd EXCEPT ![r] = FALSE]
                                       ELSE m_target_fd
    /\ m_record' = [m_record EXCEPT ![r] = FALSE]
    /\ m_state' = [m_state EXCEPT ![r] = "idle"]

\* stopRecordService; the service is destroyed with its last reference.  A file
\* that is open before the recording runs is never closed.
StopRecord(r) ==
    /\ Idle /\ m_state[r] # "none" /\ Free(r)
    /\ m_state' = [m_state EXCEPT ![r] = "none"]
    /\ m_want_record' = [m_want_record EXCEPT ![r] = FALSE]
    /\ started' = [started EXCEPT ![r] = FALSE]
    /\ m_record' = [m_record EXCEPT ![r] = FALSE]
    /\ m_target_fd' = [m_target_fd EXCEPT ![r] = FALSE]
    /\ UNCHANGED <<file, todo, faults>>

\* The recorder has written; or it cannot.
WriteData(r) ==
    /\ Idle /\ m_state[r] = "recording" /\ m_target_fd[r] /\ channel[on[r]].locked
    /\ file[r] = "empty"
    /\ file' = [file EXCEPT ![r] = "data"]
    /\ UNCHANGED <<channelVars, handlerVars, m_state, m_want_record, started,
                   m_record, m_target_fd, todo, faults>>

WriteError(r) ==
    /\ Idle /\ m_state[r] = "recording" /\ m_target_fd[r] /\ Fault
    /\ Stop(r)
    /\ UNCHANGED <<channelVars, handlerVars, m_want_record, started, file, todo>>

(***************************************************************************)
(* Events of the handlers.                                                 *)
(***************************************************************************)
\* channelStateChanged in state_ok: a demux is taken, unless none is left;
\* with pids from an earlier tuning the program is known at once.
EventTuned(s) ==
    /\ <<"tuned", s>> \in todo
    /\ IF demux[s]
       THEN /\ todo' = todo \ {<<"tuned", s>>}
            /\ UNCHANGED <<demux, info, m_tuned, faults>>
       ELSE /\ m_tuned' = [m_tuned EXCEPT ![s] = TRUE]
            /\ \/ /\ Fault
                  /\ UNCHANGED <<demux, info>>
                  /\ todo' = todo \ {<<"tuned", s>>}
               \/ /\ demux' = [demux EXCEPT ![s] = TRUE]
                  /\ UNCHANGED faults
                  /\ \E cache \in BOOLEAN :
                       /\ info' = [info EXCEPT ![s] = cache]
                       /\ todo' = (todo \ {<<"tuned", s>>})
                                  \cup (IF cache THEN {<<"info", s>>} ELSE {})
    /\ UNCHANGED <<channelVars, on, recordVars>>

PMTready(s) ==
    /\ Idle /\ demux[s] /\ channel[on[s]].locked
    /\ info' = [info EXCEPT ![s] = TRUE]
    /\ todo' = {<<"info", s>>}
    /\ UNCHANGED <<channelVars, on, demux, m_tuned, recordVars, faults>>

\* eventNewProgramInfo of a recording.
Prepares(r) ==
    /\ m_state[r] = "idle"
    /\ Retune(on[r])
    /\ m_state' = [m_state EXCEPT ![r] = "prepared"]
    /\ UNCHANGED <<m_record, m_target_fd, file, faults>>

\* Mutant: a recording that was prepared before the program was known is not
\* gone on with.
GoesOnRunning(r) ==
    /\ m_state[r] # "idle" /\ UNCHANGED channelVars
    /\ IF m_want_record[r] /\ m_state[r] = "recording"
       THEN Recorded(r) \/ (Refused(r) /\ UNCHANGED m_want_record)
       ELSE UNCHANGED <<m_state, m_record, m_target_fd, file, faults>>

GoesOn(r) ==
    /\ m_state[r] # "idle" /\ UNCHANGED channelVars
    /\ IF m_want_record[r]
       THEN Recorded(r) \/ Refused(r)
       ELSE UNCHANGED <<m_state, m_record, m_target_fd, file, faults>>

EventNewProgramInfo(s) ==
    /\ <<"info", s>> \in todo
    /\ todo' = todo \ {<<"info", s>>}
    /\ IF s \in Recordings
       THEN Prepares(s) \/ GoesOn(s)
       ELSE UNCHANGED <<channelVars, m_state, m_record, m_target_fd, file, faults>>
    /\ UNCHANGED <<handlerVars, m_want_record, started>>

(***************************************************************************)
(* The tuners.                                                             *)
(***************************************************************************)
Lock(t) ==
    /\ Idle /\ FrontendLocks(t)
    /\ todo' = IF channel[t].state = "ok"
               THEN {} ELSE {<<"tuned", s>> : s \in {x \in Services : on[x] = t}}
    /\ UNCHANGED <<handlerVars, recordVars, faults>>

Alone ==
    /\ Idle
    /\ \/ ReleaseCachedChannel \/ AllocatePVRChannel
       \/ \E t \in Tuners : \/ AllocateRawChannel(t) \/ ReleaseRawChannel(t)
                            \/ FrontendRetunes(t)
    /\ UNCHANGED <<handlerVars, recordVars, todo, faults>>

Next ==
    \/ \E s \in Services \ Recordings :
           (\E i \in Ids : Play(s, i)) \/ StopService(s)
    \/ \E i \in Ids : Refuse(i)
    \/ \E r \in Recordings :
           \/ \E i \in Ids : Record(r, i)
           \/ Start(r) \/ StopRecord(r) \/ WriteData(r) \/ WriteError(r)
    \/ \E s \in Services : EventTuned(s) \/ PMTready(s) \/ EventNewProgramInfo(s)
    \/ \E t \in Tuners : Lock(t)
    \/ Alone

Spec == Init /\ [][Next]_vars
-----------------------------------------------------------------------------
\* Every variable stays in its range.
TypeOK ==
    /\ channel \in [Tuners -> Channel \cup {None}]
    /\ cached \in Tuners \cup {None} /\ timer \in BOOLEAN /\ heard \subseteq Tuners
    /\ on \in [Services -> Tuners \cup {None}]
    /\ demux \in [Services -> BOOLEAN] /\ info \in [Services -> BOOLEAN]
    /\ m_tuned \in [Services -> BOOLEAN]
    /\ m_state \in [Recordings -> {"none", "idle", "prepared", "recording"}]
    /\ m_want_record \in [Recordings -> BOOLEAN] /\ started \in [Recordings -> BOOLEAN]
    /\ m_record \in [Recordings -> BOOLEAN] /\ m_target_fd \in [Recordings -> BOOLEAN]
    /\ file \in [Recordings -> {"none", "empty", "data"}]
    /\ todo \subseteq {"tuned", "info"} \X Services
    /\ faults \in 0 .. MaxFaults

\* A channel with n references; a raw one is the scan's alone.
Counts(c, n) ==
    IF c = None THEN n = 0
    ELSE IF c.id = Raw THEN c.use = 1 /\ n = 0 ELSE c.use = n

Users(t) == {s \in Services : on[s] = t}

\* The use count is what refers to the channel: two references of every
\* service, one of the cache.  So a tuner is free when its last user has left,
\* not before, and one that nobody uses is the cached one, which the next
\* allocation gives up.
UsesCounted ==
    \A t \in Tuners :
        Counts(channel[t], 2 * Cardinality(Users(t)) + (IF cached = t THEN 1 ELSE 0))

\* Services on the same transponder share a tuner.
OneTunerPerId ==
    \A t, x \in Busy : channel[t].id = channel[x].id /\ channel[t].id # Raw => t = x

\* A service on a channel in state_ok has been told so, whether it came before
\* or after the lock, or found the channel cached.
TunedWhenOk ==
    Idle => \A s \in Services :
        on[s] # None /\ channel[on[s]].state = "ok" => m_tuned[s]

\* A recording that runs has a channel, a demux, its recorder and its file, all
\* of them still, whatever was refused, stopped or tuned anew in between; one
\* that is gone holds no tuner.
HoldsWhatItNeeds ==
    \A r \in Recordings :
        /\ m_state[r] = "none" <=> on[r] = None
        /\ m_record[r] => m_state[r] # "none" /\ demux[r] /\ m_target_fd[r]
        /\ m_state[r] = "recording" /\ r \notin Streams =>
               m_record[r] /\ file[r] # "none"

\* Without a failure a recording that was started runs as soon as the channel
\* is tuned and the program is known, in whatever order the three come.
RunsInAnyOrder ==
    Idle /\ faults = 0 =>
        \A r \in Recordings :
            started[r] /\ m_tuned[r] /\ info[r] => m_state[r] = "recording"
=============================================================================
