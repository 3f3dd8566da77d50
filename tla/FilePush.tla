------------------------------ MODULE FilePush ------------------------------
(***************************************************************************)
(* Playback of a recording: eDVBChannel (dvb.cpp) starts, seeks and stops  *)
(* an eFilePushThread (filepush.cpp), which copies the file to the DVR     *)
(* device of the decoder.                                                  *)
(*                                                                         *)
(* The file is a number of bytes; a byte is its position.  There is no cut *)
(* list and no skip mode, so a source span starts where the last one ended *)
(* or at the target of a seek.  filterRecordData returns its whole input.  *)
(***************************************************************************)
EXTENDS EThread, Sequences

CONSTANTS
    FileLen,    \* how long the file may grow
    BlockSize,  \* m_blocksize, a TS packet (188)
    BufSize,    \* sizeof(m_buffer) (65536), not a multiple of BlockSize
    SpanSize,   \* the most getNextSourceSpan gives (10 MB)
    Targets,    \* where a seek may go
    NoSeek,     \* m_seek_requests is empty
    MaxOps,     \* bounds the calls of the user
    MaxFaults   \* bounds read and write errors

ASSUME FileAssumption ==
    /\ FileLen \in Nat
    /\ BlockSize \in Nat \ {0}
    /\ BufSize \in Nat /\ BufSize >= BlockSize
    /\ SpanSize \in Nat \ {0} /\ SpanSize % BlockSize = 0
    /\ Targets \subseteq Nat /\ NoSeek \notin Nat
    /\ MaxOps \in Nat /\ MaxFaults \in Nat

VARIABLES
    m_pvr_thread,  \* is there a push thread object?
    goal,          \* why the main loop stops the thread
    m_stop,
    interrupted,   \* SIGUSR1 hit the thread in a system call
    m_buf_start, m_buf_end,
    buf_base,      \* the byte at m_buffer[0]
    m_current_position, current_span_remaining,
    seek_request,  \* the last of m_seek_requests
    length,        \* of the file
    room,          \* the decoder takes data
    pump,          \* events on their way to the main loop
    next_out,      \* the byte the decoder expects next
    resync,        \* the buffer was thrown away since
    ops, faults

bufferVars == <<m_buf_start, m_buf_end, buf_base>>
sourceVars == <<m_current_position, current_span_remaining>>
dataVars == <<bufferVars, sourceVars, next_out, resync>>
mainVars == <<m_pvr_thread, goal, ops>>
deviceVars == <<length, room, faults>>
fileVars == <<dataVars, mainVars, deviceVars, m_stop, interrupted,
              seek_request, pump>>
vars == <<threadVars, fileVars>>

Align(x) == x - (x % BlockSize)
Least(a, b) == IF a < b THEN a ELSE b
Syscalls == {"write", "read", "poll"}

Init ==
    /\ InitThread
    /\ m_pvr_thread = FALSE /\ goal = "close"
    /\ m_stop = FALSE /\ interrupted = FALSE
    /\ m_buf_start = 0 /\ m_buf_end = 0 /\ buf_base = 0
    /\ m_current_position = 0 /\ current_span_remaining = 0
    /\ seek_request = NoSeek
    /\ length \in 0..FileLen /\ room = TRUE
    /\ pump = <<>>
    /\ next_out = 0 /\ resync = FALSE
    /\ ops = 0 /\ faults = 0

-----------------------------------------------------------------------------
(***************************************************************************)
(* The main loop.                                                          *)
(***************************************************************************)
\* The rest of a step that only moves the main loop along.
Goto(step) ==
    /\ at' = step
    /\ UNCHANGED <<handshake, worker, res, fatal, create_failed>>

FlushBuffer == m_buf_start' = 0 /\ m_buf_end' = 0

UserCall(why) ==
    /\ at = "idle" /\ ops < MaxOps
    /\ goal' = why /\ ops' = ops + 1

PlaySource ==
    /\ UserCall("play")
    /\ IF m_pvr_thread THEN Goto("down") /\ call' = "stop"
                       ELSE Goto("new") /\ UNCHANGED call
    /\ UNCHANGED <<dataVars, deviceVars, m_pvr_thread, m_stop, interrupted,
                   seek_request, pump>>

StopSource ==
    /\ UserCall("close") /\ m_pvr_thread
    /\ Goto("down") /\ call' = "stop"
    /\ UNCHANGED <<dataVars, deviceVars, m_pvr_thread, m_stop, interrupted,
                   seek_request, pump>>

\* seekTo() queues the request before flushPVR() stops the thread.
SeekTo(target) ==
    /\ UserCall("seek") /\ m_pvr_thread
    /\ seek_request' = target
    /\ Goto("down") /\ call' = "stop"
    /\ UNCHANGED <<dataVars, deviceVars, m_pvr_thread, m_stop, interrupted, pump>>

AfterStop == IF goal = "seek" THEN "flush" ELSE "destroy"

StopDecide ==
    /\ at = "synced" /\ call = "stop"
    /\ Goto(IF res THEN "flag" ELSE AfterStop)
    /\ UNCHANGED <<fileVars, call>>

\* Mutant: only the signal is sent.
RaiseStopForgotten ==
    at = "flag" /\ Goto("signal") /\ UNCHANGED <<fileVars, call>>

RaiseStop ==
    /\ at = "flag"
    /\ m_stop' = TRUE
    /\ Goto("signal")
    /\ UNCHANGED <<dataVars, mainVars, deviceVars, interrupted, seek_request,
                   pump, call>>

\* A signal that arrives before the thread is inside the call is lost.
SendSignal ==
    /\ at = "signal"
    /\ interrupted' \in
         IF m_alive /\ worker \in Syscalls THEN BOOLEAN ELSE {interrupted}
    /\ Goto("kill")
    /\ UNCHANGED <<dataVars, mainVars, deviceVars, m_stop, seek_request, pump, call>>

\* Mutant: stop() returns without waiting.
KillForgotten == at = "kill" /\ Goto(AfterStop) /\ UNCHANGED <<fileVars, call>>

Kill == at = "kill" /\ KillSync("kill", AfterStop) /\ UNCHANGED fileVars

Join == KillJoin("kill", AfterStop) /\ UNCHANGED fileVars

Flush ==
    /\ at = "flush"
    /\ FlushBuffer /\ resync' = TRUE
    /\ Goto("rearm")
    /\ UNCHANGED <<buf_base, sourceVars, next_out, mainVars, deviceVars, m_stop,
                   interrupted, seek_request, pump, call>>

\* Mutant: the destructor does not join.
DestroyUnjoined ==
    /\ at = "destroy" /\ pump' = <<>>
    /\ Goto("delete")
    /\ UNCHANGED <<dataVars, mainVars, deviceVars, m_stop, interrupted,
                   seek_request, call>>

\* The members go first, the message pump among them; the base class joins.
Destroy ==
    /\ at = "destroy"
    /\ pump' = <<>>
    /\ KillSync("destroy", "delete")
    /\ UNCHANGED <<dataVars, mainVars, deviceVars, m_stop, interrupted, seek_request>>

DestroyJoin == KillJoin("destroy", "delete") /\ UNCHANGED fileVars

Delete ==
    /\ at = "delete"
    /\ m_pvr_thread' = FALSE
    /\ Goto(IF goal = "play" THEN "new" ELSE "idle")
    /\ UNCHANGED <<dataVars, deviceVars, goal, ops, m_stop, interrupted,
                   seek_request, pump, call>>

\* The service opens the file with a cue sheet of its own.  The constructor
\* does not set m_started; nobody reads it before runAsync() does.
New ==
    /\ at = "new"
    /\ m_pvr_thread' = TRUE
    /\ m_state' = 1 /\ m_alive' = FALSE /\ the_thread' = FALSE
    /\ FlushBuffer
    /\ m_current_position' = 0 /\ next_out' = 0 /\ resync' = FALSE
    /\ seek_request' = NoSeek
    /\ at' = "rearm"
    /\ UNCHANGED <<m_started, worker, call, res, fatal, create_failed, buf_base,
                   current_span_remaining, goal, ops, deviceVars, m_stop,
                   interrupted, pump>>

PlayFails == at = "new" /\ Goto("idle") /\ UNCHANGED <<fileVars, call>>

Rearm ==
    /\ at = "rearm"
    /\ m_stop' = FALSE
    /\ Goto("down") /\ call' = "run"
    /\ UNCHANGED <<dataVars, mainVars, deviceVars, interrupted, seek_request, pump>>

RecvEvent ==
    /\ at = "idle" /\ pump # <<>>
    /\ pump' = Tail(pump)
    /\ UNCHANGED <<threadVars, dataVars, mainVars, deviceVars, m_stop,
                   interrupted, seek_request>>

User ==
    \/ PlaySource \/ StopSource
    \/ \E target \in Targets : SeekTo(target)

Main ==
    \/ StopDecide \/ RaiseStop \/ SendSignal \/ Kill \/ Join \/ Flush
    \/ Destroy \/ DestroyJoin \/ Delete \/ New \/ PlayFails \/ Rearm \/ RecvEvent
    \/ ((Sync \/ Run) /\ UNCHANGED fileVars)
-----------------------------------------------------------------------------
(***************************************************************************)
(* The thread: eFilePushThread::thread().                                  *)
(***************************************************************************)
Become(step) ==
    /\ worker' = step
    /\ UNCHANGED <<handshake, at, call, res, fatal, create_failed>>

\* What a step that only moves the thread along leaves alone.
KeepRest == UNCHANGED <<mainVars, deviceVars, m_stop, seek_request>>

Begin ==
    /\ HasStarted("init", "post")
    /\ current_span_remaining' = 0
    /\ UNCHANGED <<bufferVars, m_current_position, next_out, resync, interrupted, pump>>
    /\ KeepRest

LeaveLoop ==
    /\ worker = "loop" /\ m_stop
    /\ Become("done")
    /\ UNCHANGED fileVars

BeginWrite ==
    /\ worker = "loop" /\ ~m_stop /\ m_buf_start # m_buf_end
    /\ Become("write") /\ interrupted' = FALSE
    /\ UNCHANGED <<dataVars, pump>>
    /\ KeepRest

\* getNextSourceSpan: all requests are taken, the last one counts.
NextSpan ==
    LET start == IF seek_request = NoSeek THEN Align(m_current_position)
                                          ELSE Align(seek_request)
    IN  /\ m_current_position' = start
        /\ current_span_remaining' = SpanSize
        /\ seek_request' = NoSeek
        /\ next_out' = IF resync \/ seek_request # NoSeek THEN start ELSE next_out
        /\ resync' = FALSE

BeginRead ==
    /\ worker = "loop" /\ ~m_stop /\ m_buf_start = m_buf_end
    /\ IF current_span_remaining = 0
         THEN NextSpan
         ELSE UNCHANGED <<sourceVars, seek_request, next_out, resync>>
    /\ FlushBuffer /\ buf_base' = m_current_position'
    /\ Become("read") /\ interrupted' = FALSE
    /\ UNCHANGED <<mainVars, deviceVars, m_stop, pump>>

\* write() takes what the device has room for.
Written ==
    /\ worker = "write" /\ room
    /\ \E w \in 1..(m_buf_end - m_buf_start) :
         /\ m_buf_start' = m_buf_start + w
         /\ next_out' = next_out + w
    /\ Become("loop")
    /\ UNCHANGED <<m_buf_end, buf_base, sourceVars, resync, interrupted, pump>>
    /\ KeepRest

\* EINTR, also for the poll that waits for the end of the playback.
Interrupted ==
    /\ worker \in Syscalls /\ interrupted
    /\ Become("loop") /\ interrupted' = FALSE
    /\ UNCHANGED <<dataVars, pump>>
    /\ KeepRest

WriteFails ==
    /\ worker = "write" /\ faults < MaxFaults
    /\ faults' = faults + 1
    /\ pump' = Append(pump, "evtWriteError")
    /\ Become("done")
    /\ UNCHANGED <<dataVars, mainVars, length, room, m_stop, interrupted, seek_request>>

\* Mutant: the position passes the tail that was dropped.
AdvanceUnaligned(bytes) == m_current_position + bytes

\* The tail that is no whole block is read again later.
Advance(bytes) == m_current_position + Align(bytes)

ReadData ==
    LET maxread == Align(Least(BufSize, current_span_remaining))
        bytes == Least(maxread, length - m_current_position)
    IN  /\ worker = "read"
        /\ length - m_current_position >= BlockSize
        /\ m_buf_end' = Align(bytes)
        /\ m_current_position' = Advance(bytes)
        /\ current_span_remaining' = current_span_remaining - Align(bytes)
        /\ Become("loop")
        /\ UNCHANGED <<m_buf_start, buf_base, next_out, resync, interrupted, pump>>
        /\ KeepRest

ReadNothing ==
    /\ worker = "read" /\ length - m_current_position < BlockSize
    /\ Become("poll") /\ interrupted' = FALSE
    /\ UNCHANGED <<dataVars, pump>>
    /\ KeepRest

\* "read error, not yet handled": it counts as the end of the file.
ReadFails ==
    /\ worker = "read" /\ faults < MaxFaults
    /\ faults' = faults + 1
    /\ Become("poll") /\ interrupted' = FALSE
    /\ UNCHANGED <<dataVars, mainVars, length, room, m_stop, seek_request, pump>>

PollTimeout ==
    /\ worker = "poll"
    /\ Become("loop")
    /\ UNCHANGED fileVars

\* Mutant: the thread ends without a word.
PollReadySilent ==
    worker = "poll" /\ room /\ Become("done") /\ UNCHANGED fileVars

PollReady ==
    /\ worker = "poll" /\ room
    /\ pump' = Append(pump, "evtEOF")
    /\ Become("done")
    /\ UNCHANGED <<dataVars, interrupted>>
    /\ KeepRest

Body ==
    \/ Begin
    \/ Post("post", "loop") /\ UNCHANGED fileVars
    \/ LeaveLoop \/ BeginWrite \/ BeginRead
    \/ Written \/ Interrupted \/ WriteFails
    \/ ReadData \/ ReadNothing \/ ReadFails
    \/ PollTimeout \/ PollReady

Thread == Body \/ (Completed /\ UNCHANGED fileVars)
-----------------------------------------------------------------------------
(***************************************************************************)
(* The recording that still grows, and the pause key: a paused decoder     *)
(* takes no data, and both keys need the main loop.                        *)
(***************************************************************************)
Grow ==
    /\ length < FileLen
    /\ length' = length + 1
    /\ UNCHANGED <<threadVars, dataVars, mainVars, room, faults, m_stop,
                   interrupted, seek_request, pump>>

Freeze ==
    /\ at = "idle" /\ room /\ ops < MaxOps
    /\ room' = FALSE /\ ops' = ops + 1
    /\ UNCHANGED <<threadVars, dataVars, m_pvr_thread, goal, length, faults,
                   m_stop, interrupted, seek_request, pump>>

Unfreeze ==
    /\ at = "idle" /\ ~room
    /\ room' = TRUE
    /\ UNCHANGED <<threadVars, dataVars, mainVars, length, faults, m_stop,
                   interrupted, seek_request, pump>>

\* eFatal ends the program.
Running == ~fatal

Next ==
    \/ Running /\ User
    \/ Running /\ Main
    \/ Running /\ Thread
    \/ Running /\ Grow
    \/ Running /\ Freeze
    \/ Running /\ Unfreeze

Spec == Init /\ [][Next]_vars

\* The scheduler runs both threads.  While the decoder is not paused, a poll
\* of the device is not always too early.
FairSpec ==
    /\ Spec
    /\ WF_vars(Running /\ Main) /\ WF_vars(Running /\ Thread)
    /\ SF_vars(Running /\ PollReady)
-----------------------------------------------------------------------------
(***************************************************************************)
(* What must be true.                                                      *)
(***************************************************************************)
\* The type invariant.
TypeOK ==
    /\ m_state \in Nat /\ m_alive \in BOOLEAN /\ m_started \in BOOLEAN
    /\ the_thread \in BOOLEAN /\ res \in BOOLEAN
    /\ fatal \in BOOLEAN /\ create_failed \in BOOLEAN
    /\ worker \in {"none", "init", "post", "loop", "done", "cleared", "late",
                   "repost", "exited"} \cup Syscalls
    /\ at \in {"idle", "down", "read", "check", "up", "synced", "flag", "signal",
               "kill", "flush", "destroy", "delete", "new", "rearm", "claim",
               "take", "mark", "reap", "create"}
    /\ call \in {"stop", "kill", "destroy", "run", "started"}
    /\ m_pvr_thread \in BOOLEAN /\ goal \in {"play", "close", "seek"}
    /\ m_stop \in BOOLEAN /\ interrupted \in BOOLEAN
    /\ m_buf_start \in 0..m_buf_end /\ m_buf_end \in 0..BufSize
    /\ buf_base \in Nat /\ m_current_position \in Nat
    /\ current_span_remaining \in 0..SpanSize
    /\ seek_request \in Targets \cup {NoSeek}
    /\ length \in 0..FileLen /\ room \in BOOLEAN
    /\ pump \in Seq({"evtEOF", "evtWriteError"})
    /\ next_out \in Nat /\ resync \in BOOLEAN
    /\ ops \in 0..MaxOps /\ faults \in 0..MaxFaults

\* The thread is in thread(), where it uses the buffer, the source and m_stop.
Active == worker \in {"init", "post", "loop", "done"} \cup Syscalls

\* The main loop clears the buffer, destroys the members, resets m_stop and
\* starts the thread anew only while no thread is in thread(): what sync()
\* and kill() promise ("0: thread is guaranteed not to run", thread.cpp:102).
Settled ==
    \/ at \in {"flush", "destroy", "delete", "new", "rearm"}
    \/ call = "run" /\ at # "idle"

MainOwnsBuffer == Settled => ~Active

\* The memory of the object, m_state in it, is freed after the thread was
\* joined, also when stop() returned without a join because the thread had
\* just ended by itself.
ObjectOutlivesThread == at \in {"delete", "new"} => worker = "none"

\* resume() ignores the answer of run(): a seek restarts the thread because
\* run() never finds the old one alive.
RestartNeverRefused == at = "synced" /\ call = "run" => ~res

\* Between two seeks every byte goes to the decoder once and in order,
\* whatever partial writes, short reads, signals, unaligned ends of a growing
\* file and ends of spans come in between.
WriteInOrder == worker = "write" => buf_base + m_buf_start = next_out

\* sync() finds the semaphore as it left it (the test in thread.cpp:98), and
\* with Debug every ASSERT of the handshake holds.
NeverFatal == ~fatal

\* stop() waits for a thread that was not yet inside write() when the signal
\* came, and the decoder it now writes to is paused.
LostSignal ==
    /\ call = "kill" /\ m_stop
    /\ worker = "write" /\ ~room /\ ~interrupted

\* Playing, stopping and seeking return to the main loop, also while the
\* decoder is paused: the stop flag and the one signal get the thread out of
\* its loop, unless the signal is lost.  (A failed pthread_create leaves the
\* semaphore taken: the next call waits for ever.)
CallsReturn ==
    (at # "idle") ~> (at = "idle" \/ fatal \/ create_failed \/ LostSignal)

\* A playback nobody stops or pauses ends with an event for the main loop.
PlaybackEnds ==
    (worker = "loop" /\ at = "idle")
        ~> (pump # <<>> \/ at # "idle" \/ fatal \/ ~room)
=============================================================================
