--------------------------- MODULE FilePushProofs ---------------------------
(***************************************************************************)
(* For any file, buffer and number of calls, and whether or not the        *)
(* semaphore of eThread keeps its promise: the main loop and the thread    *)
(* never use the buffer together, the object outlives its thread, a seek   *)
(* always restarts the playback, and between two seeks the decoder gets    *)
(* every byte once and in order.                                           *)
(***************************************************************************)
EXTENDS FilePush, TLAPS

ControlOK ==
    /\ worker \in {"none", "init", "post", "loop", "write", "read", "poll",
                   "done", "cleared", "late", "repost", "exited"}
    /\ at \in {"idle", "down", "read", "check", "up", "synced", "flag", "signal",
               "kill", "flush", "destroy", "delete", "new", "rearm", "claim",
               "take", "mark", "reap", "create"}
    /\ call \in {"stop", "kill", "destroy", "run", "started"}
    /\ m_alive \in BOOLEAN /\ the_thread \in BOOLEAN /\ res \in BOOLEAN
    /\ m_pvr_thread \in BOOLEAN

\* No handle, no thread; no object, no thread.
Joined ==
    /\ ~the_thread => worker = "none"
    /\ ~m_pvr_thread => worker = "none"
    /\ at \in {"delete", "new"} => worker = "none"
    /\ at \notin {"idle", "new"} => m_pvr_thread

\* m_alive is true of the thread, except where runAsync() has set it for the
\* next one.
AliveIsRight ==
    /\ Active => m_alive
    /\ at \notin {"reap", "create"} => (m_alive => Active)
    /\ at \in {"reap", "create"} => m_alive /\ ~Active
    /\ at = "create" => worker = "none"

\* What the main loop has learnt stays true until it starts a thread.
Learnt ==
    /\ at \in {"check", "up", "synced"} /\ ~res => ~m_alive
    /\ Settled /\ at \notin {"reap", "create"} => ~m_alive
    /\ call = "run" /\ at \in {"check", "up", "synced"} => ~res
    /\ at \in {"claim", "take", "mark", "reap", "create"} => call = "run"

HandshakeInv == ControlOK /\ Joined /\ AliveIsRight /\ Learnt

-----------------------------------------------------------------------------
\* It holds at the start: no object, no thread.
LEMMA InvInit == Init => HandshakeInv
  BY DEF Init, InitThread, HandshakeInv, ControlOK, Joined, AliveIsRight, Learnt, Active,
      Settled, Syscalls

\* The calls of the user find or make no thread.
LEMMA InvUser == HandshakeInv /\ User => HandshakeInv'
<1> SUFFICES ASSUME HandshakeInv, User PROVE HandshakeInv'
  OBVIOUS
<1> USE DEF HandshakeInv, ControlOK, Joined, AliveIsRight, Learnt, Active,
      Settled, Syscalls
<1>1. CASE PlaySource
  BY <1>1 DEF PlaySource, UserCall, Goto, handshake
<1>2. CASE StopSource
  BY <1>2 DEF StopSource, UserCall, Goto, handshake
<1>3. CASE \E target \in Targets : SeekTo(target)
  BY <1>3 DEF SeekTo, UserCall, Goto, handshake
<1> QED
  BY <1>1, <1>2, <1>3 DEF User

\* sync() reads m_alive once, and what it read stays true when it is false.
LEMMA InvSync == HandshakeInv /\ Sync /\ UNCHANGED fileVars => HandshakeInv'
<1> SUFFICES ASSUME HandshakeInv, Sync /\ UNCHANGED fileVars PROVE HandshakeInv'
  OBVIOUS
<1> USE DEF HandshakeInv, ControlOK, Joined, AliveIsRight, Learnt, Active,
      Settled, Syscalls
<1>1. CASE SyncDown
  BY <1>1 DEF SyncDown, fileVars, mainVars, handshake
<1>2. CASE SyncRead
  BY <1>2 DEF SyncRead, fileVars, mainVars, handshake
<1>3. CASE SyncCheck
  BY <1>3 DEF SyncCheck, fileVars, mainVars, handshake
<1>4. CASE SyncUp
  BY <1>4 DEF SyncUp, fileVars, mainVars, handshake
<1> QED
  BY <1>1, <1>2, <1>3, <1>4 DEF Sync

\* runAsync() joins the old thread before it creates the new one.
LEMMA InvRun == HandshakeInv /\ Run /\ UNCHANGED fileVars => HandshakeInv'
<1> SUFFICES ASSUME HandshakeInv, Run /\ UNCHANGED fileVars PROVE HandshakeInv'
  OBVIOUS
<1> USE DEF HandshakeInv, ControlOK, Joined, AliveIsRight, Learnt, Active,
      Settled, Syscalls
<1>1. CASE RunDecide
  BY <1>1 DEF RunDecide, fileVars, mainVars, handshake
<1>2. CASE Claim
  BY <1>2 DEF Claim, fileVars, mainVars, handshake
<1>3. CASE Take
  BY <1>3 DEF Take, fileVars, mainVars, handshake
<1>4. CASE Mark
  BY <1>4 DEF Mark, fileVars, mainVars, handshake
<1>5. CASE Reap
  BY <1>5 DEF Reap, fileVars, mainVars, handshake
<1>6. CASE Create
  BY <1>6 DEF Create, fileVars, mainVars, handshake
<1>7. CASE CreateFails
  BY <1>7 DEF CreateFails, fileVars, mainVars, handshake
<1>8. CASE Started
  BY <1>8 DEF Started, fileVars, mainVars, handshake
<1> QED
  BY <1>1, <1>2, <1>3, <1>4, <1>5, <1>6, <1>7, <1>8 DEF Run

\* stop() and kill(): either sync() saw the end of the thread, or it is joined.
LEMMA InvStop == HandshakeInv /\ (StopDecide \/ RaiseStop \/ SendSignal \/ Kill \/ Join) => HandshakeInv'
<1> SUFFICES ASSUME HandshakeInv, (StopDecide \/ RaiseStop \/ SendSignal \/ Kill \/ Join) PROVE HandshakeInv'
  OBVIOUS
<1> USE DEF HandshakeInv, ControlOK, Joined, AliveIsRight, Learnt, Active,
      Settled, Syscalls
<1>1. CASE StopDecide
  BY <1>1 DEF StopDecide, AfterStop, Goto, fileVars, mainVars, handshake
<1>2. CASE RaiseStop
  BY <1>2 DEF RaiseStop, Goto, mainVars, handshake
<1>3. CASE SendSignal
  BY <1>3 DEF SendSignal, Goto, mainVars, handshake
<1>4. CASE Kill
  BY <1>4 DEF Kill, KillSync, AfterStop, fileVars, mainVars, handshake
<1>5. CASE Join
  BY <1>5 DEF Join, KillJoin, AfterStop, fileVars, mainVars, handshake
<1> QED
  BY <1>1, <1>2, <1>3, <1>4, <1>5 DEF Join

\* The object is replaced only after its thread was joined.
LEMMA InvObject == HandshakeInv /\ (Destroy \/ DestroyJoin \/ Delete \/ New \/ PlayFails) => HandshakeInv'
<1> SUFFICES ASSUME HandshakeInv, (Destroy \/ DestroyJoin \/ Delete \/ New \/ PlayFails) PROVE HandshakeInv'
  OBVIOUS
<1> USE DEF HandshakeInv, ControlOK, Joined, AliveIsRight, Learnt, Active,
      Settled, Syscalls
<1>1. CASE Destroy
  BY <1>1 DEF Destroy, KillSync, mainVars, handshake
<1>2. CASE DestroyJoin
  BY <1>2 DEF DestroyJoin, KillJoin, fileVars, mainVars, handshake
<1>3. CASE Delete
  BY <1>3 DEF Delete, Goto, handshake
<1>4. CASE New
  BY <1>4 DEF New
<1>5. CASE PlayFails
  BY <1>5 DEF PlayFails, Goto, fileVars, mainVars, handshake
<1> QED
  BY <1>1, <1>2, <1>3, <1>4, <1>5 DEF Delete

\* flush(), resume() and events for the main loop.
LEMMA InvRestart == HandshakeInv /\ (Flush \/ Rearm \/ RecvEvent) => HandshakeInv'
<1> SUFFICES ASSUME HandshakeInv, (Flush \/ Rearm \/ RecvEvent) PROVE HandshakeInv'
  OBVIOUS
<1> USE DEF HandshakeInv, ControlOK, Joined, AliveIsRight, Learnt, Active,
      Settled, Syscalls
<1>1. CASE Flush
  BY <1>1 DEF Flush, Goto, mainVars, handshake
<1>2. CASE Rearm
  BY <1>2 DEF Rearm, Goto, mainVars, handshake
<1>3. CASE RecvEvent
  BY <1>3 DEF RecvEvent, threadVars, control, mainVars, handshake
<1> QED
  BY <1>1, <1>2, <1>3 DEF Flush

\* In thread() the thread stays active, and m_alive is its own.
LEMMA InvBody == HandshakeInv /\ Body => HandshakeInv'
<1> SUFFICES ASSUME HandshakeInv, Body PROVE HandshakeInv'
  OBVIOUS
<1> USE DEF HandshakeInv, ControlOK, Joined, AliveIsRight, Learnt, Active,
      Settled, Syscalls
<1>1. CASE Begin
  BY <1>1 DEF Begin, HasStarted, KeepRest, mainVars, handshake
<1>2. CASE Post("post", "loop") /\ UNCHANGED fileVars
  BY <1>2 DEF Post, fileVars, mainVars, handshake
<1>3. CASE LeaveLoop
  BY <1>3 DEF LeaveLoop, Become, KeepRest, fileVars, mainVars, handshake
<1>4. CASE BeginWrite
  BY <1>4 DEF BeginWrite, Become, KeepRest, fileVars, mainVars, handshake
<1>5. CASE BeginRead
  BY <1>5 DEF BeginRead, Become, KeepRest, fileVars, mainVars, handshake
<1>6. CASE Written
  BY <1>6 DEF Written, Become, KeepRest, fileVars, mainVars, handshake
<1>7. CASE Interrupted
  BY <1>7 DEF Interrupted, Become, KeepRest, fileVars, mainVars, handshake
<1>8. CASE WriteFails
  BY <1>8 DEF WriteFails, Become, KeepRest, fileVars, mainVars, handshake
<1>9. CASE ReadData
  BY <1>9 DEF ReadData, Become, KeepRest, fileVars, mainVars, handshake
<1>10. CASE ReadNothing
  BY <1>10 DEF ReadNothing, Become, KeepRest, fileVars, mainVars, handshake
<1>11. CASE ReadFails
  BY <1>11 DEF ReadFails, Become, KeepRest, fileVars, mainVars, handshake
<1>12. CASE PollTimeout
  BY <1>12 DEF PollTimeout, Become, KeepRest, fileVars, mainVars, handshake
<1>13. CASE PollReady
  BY <1>13 DEF PollReady, Become, KeepRest, fileVars, mainVars, handshake
<1> QED
  BY <1>1, <1>2, <1>3, <1>4, <1>5, <1>6, <1>7, <1>8, <1>9, <1>10, <1>11, <1>12, <1>13 DEF Body

\* After thread() the flag is cleared, and never set again by the thread.
LEMMA InvCompleted == HandshakeInv /\ Completed /\ UNCHANGED fileVars => HandshakeInv'
<1> SUFFICES ASSUME HandshakeInv, Completed /\ UNCHANGED fileVars PROVE HandshakeInv'
  OBVIOUS
<1> USE DEF HandshakeInv, ControlOK, Joined, AliveIsRight, Learnt, Active,
      Settled, Syscalls
<1>1. CASE ClearAlive
  BY <1>1 DEF ClearAlive, fileVars, mainVars, handshake
<1>2. CASE TestStarted
  BY <1>2 DEF TestStarted, fileVars, mainVars, handshake
<1>3. CASE HasStarted("late", "repost")
  BY <1>3 DEF HasStarted, fileVars, mainVars, handshake
<1>4. CASE Post("repost", "exited")
  BY <1>4 DEF Post, fileVars, mainVars, handshake
<1> QED
  BY <1>1, <1>2, <1>3, <1>4 DEF Completed

\* The file and the decoder know nothing of threads.
LEMMA InvDevice == HandshakeInv /\ (Grow \/ Freeze \/ Unfreeze) => HandshakeInv'
<1> SUFFICES ASSUME HandshakeInv, (Grow \/ Freeze \/ Unfreeze) PROVE HandshakeInv'
  OBVIOUS
<1> USE DEF HandshakeInv, ControlOK, Joined, AliveIsRight, Learnt, Active,
      Settled, Syscalls
<1>1. CASE Grow
  BY <1>1 DEF Grow, threadVars, control, mainVars, handshake
<1>2. CASE Freeze
  BY <1>2 DEF Freeze, threadVars, control, mainVars, handshake
<1>3. CASE Unfreeze
  BY <1>3 DEF Unfreeze, threadVars, control, mainVars, handshake
<1> QED
  BY <1>1, <1>2, <1>3 DEF Grow

\* Every step keeps the invariant.
LEMMA InvStep == HandshakeInv /\ [Next]_vars => HandshakeInv'
<1> SUFFICES ASSUME HandshakeInv, [Next]_vars PROVE HandshakeInv'
  OBVIOUS
<1>1. CASE User
  BY <1>1, InvUser
<1>2. CASE Main
  BY <1>2, InvSync, InvRun, InvStop, InvObject, InvRestart DEF Main
<1>3. CASE Thread
  BY <1>3, InvBody, InvCompleted DEF Thread
<1>4. CASE Grow \/ Freeze \/ Unfreeze
  BY <1>4, InvDevice
<1>5. CASE UNCHANGED vars
  BY <1>5 DEF vars, threadVars, handshake, control, fileVars, mainVars, HandshakeInv,
              ControlOK, Joined, AliveIsRight, Learnt, Active, Settled, Syscalls
<1> QED
  BY <1>1, <1>2, <1>3, <1>4, <1>5 DEF Next

\* In every reachable state, whatever eThread's semaphore does.
THEOREM HandshakeHolds == Spec => []HandshakeInv
<1>1. Init => HandshakeInv
  BY InvInit
<1>2. HandshakeInv /\ [Next]_vars => HandshakeInv'
  BY InvStep
<1> QED
  BY <1>1, <1>2, PTL DEF Spec

\* The main loop touches the buffer, the members and m_stop of the push
\* thread only while no thread is in eFilePushThread::thread().
THEOREM BufferHasOneOwner == Spec => []MainOwnsBuffer
<1>1. HandshakeInv => MainOwnsBuffer
  BY DEF HandshakeInv, ControlOK, AliveIsRight, Learnt, MainOwnsBuffer, Settled
<1> QED
  BY <1>1, HandshakeHolds, PTL

\* A push thread object is freed only after its thread was joined.
THEOREM ThreadDiesFirst == Spec => []ObjectOutlivesThread
<1>1. HandshakeInv => ObjectOutlivesThread
  BY DEF HandshakeInv, Joined, ObjectOutlivesThread
<1> QED
  BY <1>1, HandshakeHolds, PTL

\* run(), whose answer resume() ignores, never finds the old thread alive.
THEOREM SeekRestarts == Spec => []RestartNeverRefused
<1>1. HandshakeInv => RestartNeverRefused
  BY DEF HandshakeInv, Learnt, RestartNeverRefused
<1> QED
  BY <1>1, HandshakeHolds, PTL
-----------------------------------------------------------------------------
(***************************************************************************)
(* The data: for any packet size and targets too.                          *)
(***************************************************************************)

\* A number of whole packets.
Whole(x) == x % BlockSize = 0

DataOK ==
    /\ m_buf_start \in Nat /\ m_buf_end \in Nat /\ m_buf_start <= m_buf_end
    /\ buf_base \in Nat /\ next_out \in Nat
    /\ m_current_position \in Nat /\ Whole(m_current_position)
    /\ current_span_remaining \in Nat
    /\ seek_request \in Targets \cup {NoSeek}
    /\ length \in Nat /\ resync \in BOOLEAN

\* What is in the buffer ends where the next read starts, and begins at the
\* byte the decoder expects.
BufferInStep ==
    /\ ~resync => next_out + (m_buf_end - m_buf_start) = m_current_position
    /\ m_buf_start # m_buf_end => buf_base + m_buf_end = m_current_position
    /\ worker = "write" => m_buf_start # m_buf_end
    /\ worker = "read" =>
         /\ m_buf_start = 0 /\ m_buf_end = 0
         /\ buf_base = m_current_position

\* After a flush the first thing the new thread does is to ask for a span.
SpanAfterFlush ==
    /\ resync => m_buf_start = m_buf_end
    /\ worker \in Syscalls => ~resync
    /\ resync /\ worker \in {"post", "loop"} => current_span_remaining = 0

DataInv == DataOK /\ BufferInStep /\ SpanAfterFlush
-----------------------------------------------------------------------------
\* Rounding down to whole packets.
LEMMA DivideBlocks ==
    ASSUME NEW x \in Nat, NEW q \in Nat, NEW r \in Nat,
           q = x \div BlockSize, r = x % BlockSize
    PROVE  x = q * BlockSize + r
  BY FileAssumption, SMTT(30)

\* A number of whole blocks leaves no rest.
LEMMA WholeBlocks ==
    ASSUME NEW q \in Nat
    PROVE  Whole(q * BlockSize)
  BY FileAssumption, SMTT(30) DEF Whole

\* None is a number of whole blocks.
LEMMA NoBlocks == Whole(0)
  BY FileAssumption, SMTT(30) DEF Whole

\* Align() gives a number of whole packets that is not larger.
LEMMA AlignDown ==
    ASSUME NEW x \in Nat
    PROVE  Align(x) \in Nat /\ Align(x) <= x /\ Whole(Align(x))
<1> DEFINE q == x \div BlockSize
           r == x % BlockSize
<1>1. q \in Nat /\ r \in Nat
  BY FileAssumption, SMTT(30)
<1> HIDE DEF q, r
<1>2. x = q * BlockSize + r
  BY <1>1, DivideBlocks DEF q, r
<1>3. q * BlockSize \in Nat
  BY <1>1, FileAssumption
<1>4. Align(x) = q * BlockSize
  BY <1>1, <1>2, <1>3 DEF Align, r
<1> QED
  BY <1>1, <1>2, <1>3, <1>4, WholeBlocks

\* Whole packets stay as they are.
LEMMA AlignWhole ==
    ASSUME NEW x \in Nat, Whole(x)
    PROVE  Align(x) = x
  BY DEF Align, Whole

\* The sum of whole packets is whole packets.
LEMMA AlignSum ==
    ASSUME NEW x \in Nat, NEW y \in Nat,
           Whole(x), Whole(y)
    PROVE  Whole(x + y)
<1>1. PICK i \in Nat : x = i * BlockSize
  BY FileAssumption, SMTT(30) DEF Whole
<1>2. PICK j \in Nat : y = j * BlockSize
  BY FileAssumption, SMTT(30) DEF Whole
<1>3. x + y = (i + j) * BlockSize
  BY <1>1, <1>2, FileAssumption, SMTT(30)
<1> QED
  BY <1>3, WholeBlocks
-----------------------------------------------------------------------------
\* It holds at the start: the buffer is empty.
LEMMA DataInit == Init => DataInv
<1> SUFFICES ASSUME Init PROVE DataInv
  OBVIOUS
<1>1. Whole(m_current_position)
  BY NoBlocks DEF Init
<1>2. length \in Nat
  BY FileAssumption DEF Init
<1>3. seek_request \in Targets \cup {NoSeek}
  BY DEF Init
<1>4. /\ m_buf_start \in Nat /\ m_buf_end \in Nat /\ m_buf_start <= m_buf_end
      /\ buf_base \in Nat /\ next_out \in Nat
      /\ m_current_position \in Nat /\ current_span_remaining \in Nat
  BY DEF Init
<1>5. DataOK
  <2>1. resync \in BOOLEAN
    BY DEF Init
  <2>2. length \in Nat
    BY <1>2
  <2>3. seek_request \in Targets \cup {NoSeek}
    BY <1>3
  <2>4. m_current_position \in Nat /\ Whole(m_current_position)
    BY <1>1, <1>4
  <2>5. m_buf_start \in Nat /\ m_buf_end \in Nat /\ m_buf_start <= m_buf_end
    BY <1>4
  <2>6. buf_base \in Nat /\ next_out \in Nat /\ current_span_remaining \in Nat
    BY <1>4
  <2> QED
    BY <2>1, <2>2, <2>3, <2>4, <2>5, <2>6, Zenon DEF DataOK
<1>6. BufferInStep
  BY DEF Init, InitThread, BufferInStep
<1>7. SpanAfterFlush
  BY DEF Init, InitThread, SpanAfterFlush, Syscalls
<1> QED
  BY <1>5, <1>6, <1>7 DEF DataInv

\* A call of the user only adds a request.
LEMMA DataUser == DataInv /\ User => DataInv'
<1> SUFFICES ASSUME DataInv, User PROVE DataInv'
  OBVIOUS
<1> USE DEF DataInv, DataOK, BufferInStep, SpanAfterFlush, Syscalls
<1>1. CASE PlaySource
  BY <1>1 DEF PlaySource, UserCall, Goto, deviceVars, dataVars, bufferVars, sourceVars
<1>2. CASE StopSource
  BY <1>2 DEF StopSource, UserCall, Goto, deviceVars, dataVars, bufferVars, sourceVars
<1>3. CASE \E target \in Targets : SeekTo(target)
  BY <1>3 DEF SeekTo, UserCall, Goto, deviceVars, dataVars, bufferVars, sourceVars
<1> QED
  BY <1>1, <1>2, <1>3 DEF User

\* The handshake leaves the data alone, and makes no active thread but a new one.
LEMMA DataHandshake == DataInv /\ (Sync \/ Run \/ Completed) /\ UNCHANGED fileVars => DataInv'
<1> SUFFICES ASSUME DataInv, (Sync \/ Run \/ Completed) /\ UNCHANGED fileVars PROVE DataInv'
  OBVIOUS
<1> USE DEF DataInv, DataOK, BufferInStep, SpanAfterFlush, Syscalls
<1>1. CASE Sync
  BY <1>1 DEF Sync, SyncDown, SyncRead, SyncCheck, SyncUp, fileVars, deviceVars, dataVars, bufferVars, sourceVars
<1>2. CASE Run
  BY <1>2 DEF Run, RunDecide, Claim, Take, Mark, Reap, Create, CreateFails, Started,
         handshake, fileVars, deviceVars, dataVars, bufferVars, sourceVars
<1>3. CASE Completed
  BY <1>3 DEF Completed, ClearAlive, TestStarted, HasStarted, Post,
         fileVars, deviceVars, dataVars, bufferVars, sourceVars
<1> QED
  BY <1>1, <1>2, <1>3 DEF Sync

Stopping ==
    \/ StopDecide \/ RaiseStop \/ SendSignal \/ Kill \/ Join
    \/ Destroy \/ DestroyJoin \/ Delete \/ PlayFails \/ Rearm \/ RecvEvent

\* Stopping leaves the data alone.
LEMMA DataStop == DataInv /\ Stopping => DataInv'
<1> SUFFICES ASSUME DataInv, Stopping PROVE DataInv'
  OBVIOUS
<1> USE DEF DataInv, DataOK, BufferInStep, SpanAfterFlush, Syscalls
<1>1. CASE StopDecide
  BY <1>1 DEF StopDecide, Goto, KillSync, KillJoin, threadVars, control, fileVars, deviceVars,
         dataVars, bufferVars, sourceVars
<1>2. CASE RaiseStop
  BY <1>2 DEF RaiseStop, Goto, KillSync, KillJoin, threadVars, control, fileVars, deviceVars,
         dataVars, bufferVars, sourceVars
<1>3. CASE SendSignal
  BY <1>3 DEF SendSignal, Goto, KillSync, KillJoin, threadVars, control, fileVars, deviceVars,
         dataVars, bufferVars, sourceVars
<1>4. CASE Kill
  BY <1>4 DEF Kill, Goto, KillSync, KillJoin, threadVars, control, fileVars, deviceVars,
         dataVars, bufferVars, sourceVars
<1>5. CASE Join
  BY <1>5 DEF Join, Goto, KillSync, KillJoin, threadVars, control, fileVars, deviceVars,
         dataVars, bufferVars, sourceVars
<1>6. CASE Destroy
  BY <1>6 DEF Destroy, Goto, KillSync, KillJoin, threadVars, control, fileVars, deviceVars,
         dataVars, bufferVars, sourceVars
<1>7. CASE DestroyJoin
  BY <1>7 DEF DestroyJoin, Goto, KillSync, KillJoin, threadVars, control, fileVars, deviceVars,
         dataVars, bufferVars, sourceVars
<1>8. CASE Delete
  BY <1>8 DEF Delete, Goto, KillSync, KillJoin, threadVars, control, fileVars, deviceVars,
         dataVars, bufferVars, sourceVars
<1>9. CASE PlayFails
  BY <1>9 DEF PlayFails, Goto, KillSync, KillJoin, threadVars, control, fileVars, deviceVars,
         dataVars, bufferVars, sourceVars
<1>10. CASE Rearm
  BY <1>10 DEF Rearm, Goto, KillSync, KillJoin, threadVars, control, fileVars, deviceVars,
         dataVars, bufferVars, sourceVars
<1>11. CASE RecvEvent
  BY <1>11 DEF RecvEvent, Goto, KillSync, KillJoin, threadVars, control, fileVars, deviceVars,
         dataVars, bufferVars, sourceVars
<1> QED
  BY <1>1, <1>2, <1>3, <1>4, <1>5, <1>6, <1>7, <1>8, <1>9, <1>10, <1>11 DEF Stopping

\* The buffer is emptied while no thread reads or writes.
LEMMA DataFlush == HandshakeInv /\ DataInv /\ (Flush \/ New) => DataInv'
<1> SUFFICES ASSUME HandshakeInv, DataInv, Flush \/ New PROVE DataInv'
  OBVIOUS
<1> USE DEF DataInv, DataOK, BufferInStep, SpanAfterFlush, Syscalls
<1>1. ~Active
  BY DEF HandshakeInv, ControlOK, AliveIsRight, Learnt, Settled, Flush, New
<1>2. CASE Flush
  BY <1>1, <1>2 DEF Active, Flush, FlushBuffer, Goto, deviceVars, sourceVars
<1>3. CASE New
  <2>1. m_current_position' = 0 /\ Whole(m_current_position')
    BY <1>3, NoBlocks DEF New
  <2>2. /\ m_buf_start' = 0 /\ m_buf_end' = 0 /\ next_out' = 0 /\ ~resync'
        /\ seek_request' = NoSeek
    BY <1>3 DEF New, FlushBuffer
  <2>3. UNCHANGED <<worker, buf_base, current_span_remaining, length>>
    BY <1>3 DEF New, deviceVars
  <2>4. seek_request' \in Targets \cup {NoSeek}
    BY <2>2
  <2>5. ~resync' /\ resync' \in BOOLEAN
    BY <1>3 DEF New
  <2>6. DataOK'
    BY <2>1, <2>2, <2>3, <2>4, <2>5
  <2>7. BufferInStep'
    BY <1>1, <2>1, <2>2, <2>3 DEF Active
  <2>8. SpanAfterFlush'
    BY <1>1, <2>2, <2>3, <2>5 DEF Active
  <2> QED
    BY <2>6, <2>7, <2>8
<1> QED
  BY <1>2, <1>3

\* A new span starts where the last one ended, unless a seek moved it.
LEMMA DataSpan ==
    ASSUME DataInv, NextSpan, m_buf_start = m_buf_end
    PROVE  /\ m_current_position' \in Nat /\ Whole(m_current_position')
           /\ current_span_remaining' \in Nat
           /\ next_out' = m_current_position'
           /\ seek_request' \in Targets \cup {NoSeek}
<1>1. CASE seek_request = NoSeek
  <2>1. Align(m_current_position) = m_current_position
    BY AlignWhole DEF DataInv, DataOK
  <2> QED
    BY <1>1, <2>1, FileAssumption DEF NextSpan, DataInv, DataOK, BufferInStep
<1>2. CASE seek_request # NoSeek
  <2>1. seek_request \in Nat
    BY <1>2, FileAssumption DEF DataInv, DataOK
  <2>2. Align(seek_request) \in Nat /\ Whole(Align(seek_request))
    BY <2>1, AlignDown
  <2> QED
    BY <1>2, <2>2, FileAssumption DEF NextSpan
<1> QED
  BY <1>1, <1>2

\* The read is set up for an empty buffer.
LEMMA DataBeginRead == DataInv /\ BeginRead => DataInv'
<1> SUFFICES ASSUME DataInv, BeginRead PROVE DataInv'
  OBVIOUS
<1> USE DEF DataInv, DataOK, BufferInStep, SpanAfterFlush, Syscalls
<1>1. m_buf_start = m_buf_end /\ worker = "loop" /\ worker' = "read"
  BY DEF BeginRead, Become
<1>2. /\ m_buf_start' = 0 /\ m_buf_end' = 0 /\ buf_base' = m_current_position'
      /\ length' = length
  BY DEF BeginRead, FlushBuffer, deviceVars
<1>3. CASE current_span_remaining = 0
  <2>1. NextSpan
    BY <1>3 DEF BeginRead
  <2>2. ~resync' /\ resync' \in BOOLEAN
    BY <2>1 DEF NextSpan
  <2>3. /\ m_current_position' \in Nat /\ Whole(m_current_position')
        /\ current_span_remaining' \in Nat
        /\ next_out' = m_current_position'
        /\ seek_request' \in Targets \cup {NoSeek}
    BY <1>1, <2>1, DataSpan
  <2>4. DataOK'
    <3>1. /\ m_buf_start' \in Nat /\ m_buf_end' \in Nat
          /\ m_buf_start' <= m_buf_end'
          /\ buf_base' \in Nat /\ next_out' \in Nat
          /\ length' \in Nat
      BY <1>2, <2>3
    <3> QED
      BY <2>2, <2>3, <3>1, Zenon
  <2>5. BufferInStep'
    <3>1. m_current_position' \in Nat /\ next_out' = m_current_position'
      BY <2>3
    <3>2. m_buf_end' - m_buf_start' = 0
      BY <1>2
    <3>3. next_out' + (m_buf_end' - m_buf_start') = m_current_position'
      BY <3>1, <3>2
    <3>4. worker' # "write"
      BY <1>1
    <3> QED
      BY <1>2, <3>3, <3>4, Zenon
  <2>6. SpanAfterFlush'
    BY <1>1, <1>2, <2>2
  <2> QED
    BY <2>4, <2>5, <2>6
<1>4. CASE current_span_remaining # 0
  BY <1>1, <1>2, <1>4 DEF BeginRead, sourceVars
<1> QED
  BY <1>3, <1>4

\* A read advances the position by the whole packets that are in the buffer.
LEMMA DataReadData == DataInv /\ ReadData => DataInv'
<1> SUFFICES ASSUME DataInv, ReadData PROVE DataInv'
  OBVIOUS
<1> DEFINE room_left == Least(BufSize, current_span_remaining)
           bytes == Least(Align(room_left), length - m_current_position)
<1>1. room_left \in Nat /\ room_left <= current_span_remaining
  BY FileAssumption DEF Least, DataInv, DataOK
<1>2. Align(room_left) \in Nat /\ Align(room_left) <= room_left
  BY <1>1, AlignDown
<1>3. bytes \in Nat /\ bytes <= Align(room_left)
  BY <1>2, FileAssumption DEF Least, ReadData, DataInv, DataOK
<1>4. /\ Align(bytes) \in Nat /\ Align(bytes) <= bytes
      /\ Whole(Align(bytes))
  BY <1>3, AlignDown
<1>5. Whole(m_current_position + Align(bytes))
  BY <1>4, AlignSum DEF DataInv, DataOK
<1>6. /\ worker = "read" /\ worker' = "loop"
      /\ m_buf_end' = Align(bytes)
      /\ m_current_position' = m_current_position + Align(bytes)
      /\ current_span_remaining' = current_span_remaining - Align(bytes)
      /\ UNCHANGED <<m_buf_start, buf_base, next_out, resync, length, seek_request>>
  BY DEF ReadData, Advance, Become, KeepRest, deviceVars
<1> HIDE DEF bytes, room_left
<1> QED
  BY <1>1, <1>2, <1>3, <1>4, <1>5, <1>6
  DEF DataInv, DataOK, BufferInStep, SpanAfterFlush, Syscalls

\* A write takes from the front of the buffer what the decoder gets.
LEMMA DataWritten == DataInv /\ Written => DataInv'
<1> SUFFICES ASSUME DataInv, Written PROVE DataInv'
  OBVIOUS
<1>1. PICK w \in 1..(m_buf_end - m_buf_start) :
        m_buf_start' = m_buf_start + w /\ next_out' = next_out + w
  BY DEF Written
<1> QED
  BY <1>1 DEF Written, Become, KeepRest, deviceVars, sourceVars, DataInv, DataOK,
              BufferInStep, SpanAfterFlush, Syscalls

\* The other steps of the loop move no data.
LEMMA DataBody == DataInv /\ Body => DataInv'
<1> SUFFICES ASSUME DataInv, Body PROVE DataInv'
  OBVIOUS
<1> USE DEF DataInv, DataOK, BufferInStep, SpanAfterFlush, Syscalls
<1>1. CASE Begin
  BY <1>1 DEF Begin, HasStarted, KeepRest, deviceVars, dataVars, bufferVars, sourceVars
<1>2. CASE Post("post", "loop") /\ UNCHANGED fileVars
  BY <1>2 DEF Post, fileVars, deviceVars, dataVars, bufferVars, sourceVars
<1>3. CASE BeginRead
  BY <1>3, DataBeginRead
<1>4. CASE ReadData
  BY <1>4, DataReadData
<1>5. CASE Written
  BY <1>5, DataWritten
<1>6. CASE LeaveLoop
  BY <1>6 DEF LeaveLoop, Become, KeepRest, fileVars, deviceVars,
         dataVars, bufferVars, sourceVars
<1>7. CASE BeginWrite
  BY <1>7 DEF BeginWrite, Become, KeepRest, fileVars, deviceVars,
         dataVars, bufferVars, sourceVars
<1>8. CASE Interrupted
  BY <1>8 DEF Interrupted, Become, KeepRest, fileVars, deviceVars,
         dataVars, bufferVars, sourceVars
<1>9. CASE WriteFails
  BY <1>9 DEF WriteFails, Become, KeepRest, fileVars, deviceVars,
         dataVars, bufferVars, sourceVars
<1>10. CASE ReadNothing
  BY <1>10 DEF ReadNothing, Become, KeepRest, fileVars, deviceVars,
         dataVars, bufferVars, sourceVars
<1>11. CASE ReadFails
  BY <1>11 DEF ReadFails, Become, KeepRest, fileVars, deviceVars,
         dataVars, bufferVars, sourceVars
<1>12. CASE PollTimeout
  BY <1>12 DEF PollTimeout, Become, KeepRest, fileVars, deviceVars,
         dataVars, bufferVars, sourceVars
<1>13. CASE PollReady
  BY <1>13 DEF PollReady, Become, KeepRest, fileVars, deviceVars,
         dataVars, bufferVars, sourceVars
<1> QED
  BY <1>1, <1>2, <1>3, <1>4, <1>5, <1>6, <1>7, <1>8, <1>9, <1>10, <1>11, <1>12, <1>13 DEF Body

\* The file grows, the decoder is paused.
LEMMA DataDevice == DataInv /\ (Grow \/ Freeze \/ Unfreeze) => DataInv'
<1> SUFFICES ASSUME DataInv, (Grow \/ Freeze \/ Unfreeze) PROVE DataInv'
  OBVIOUS
<1> USE DEF DataInv, DataOK, BufferInStep, SpanAfterFlush, Syscalls
<1>1. CASE Grow
  BY <1>1 DEF Grow, threadVars, control, dataVars, bufferVars, sourceVars
<1>2. CASE Freeze
  BY <1>2 DEF Freeze, threadVars, control, dataVars, bufferVars, sourceVars
<1>3. CASE Unfreeze
  BY <1>3 DEF Unfreeze, threadVars, control, dataVars, bufferVars, sourceVars
<1> QED
  BY <1>1, <1>2, <1>3 DEF Grow

\* Every step keeps the invariant.
LEMMA DataStep == HandshakeInv /\ DataInv /\ [Next]_vars => DataInv'
<1> SUFFICES ASSUME HandshakeInv, DataInv, [Next]_vars PROVE DataInv'
  OBVIOUS
<1>1. CASE User
  BY <1>1, DataUser
<1>2. CASE Main
  BY <1>2, DataHandshake, DataStop, DataFlush DEF Main, Stopping
<1>3. CASE Thread
  BY <1>3, DataBody, DataHandshake DEF Thread
<1>4. CASE Grow \/ Freeze \/ Unfreeze
  BY <1>4, DataDevice
<1>5. CASE UNCHANGED vars
  BY <1>5 DEF vars, threadVars, control, fileVars, dataVars, bufferVars, sourceVars,
              deviceVars, DataInv, DataOK, BufferInStep, SpanAfterFlush, Syscalls
<1> QED
  BY <1>1, <1>2, <1>3, <1>4, <1>5 DEF Next

\* Whatever partial writes, interrupted calls, growing files, flushes and
\* restarts come in between, the bytes the thread is about to write are the
\* ones the decoder expects.
THEOREM EveryByteInOrder == Spec => []WriteInOrder
<1>1. Init => DataInv
  BY DataInit
<1>2. HandshakeInv /\ DataInv /\ [Next]_vars => DataInv'
  BY DataStep
<1>3. DataInv => WriteInOrder
  BY DEF DataInv, DataOK, BufferInStep, SpanAfterFlush, Syscalls, WriteInOrder
<1> QED
  BY <1>1, <1>2, <1>3, HandshakeHolds, PTL DEF Spec
=============================================================================
