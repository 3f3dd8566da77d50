------------------------------ MODULE EThread ------------------------------
(***************************************************************************)
(* class eThread (thread.cpp) over eSemaphore (elock.cpp): how the main    *)
(* loop starts a thread, learns whether it lives, and joins it.            *)
(*                                                                         *)
(* The two sides share m_state, m_alive and m_started without a lock, so   *)
(* every access is a step of its own.  at is the next step of the main     *)
(* loop, call the function whose sync() it is in; worker is the next step  *)
(* of the thread.  FilePush adds the thread's body and the callers.        *)
(***************************************************************************)
EXTENDS Integers

CONSTANT Debug     \* built with --with-debug: ASSERT is eFatal

ASSUME DebugAssumption == Debug \in BOOLEAN

VARIABLES
    m_state,       \* the value of the semaphore
    m_alive, m_started,
    the_thread,    \* is the handle set?
    worker, at, call,
    res,           \* what sync() read
    fatal,         \* eFatal ended the program
    create_failed  \* pthread_create has failed once

handshake == <<m_state, m_alive, m_started, the_thread>>
control == <<worker, at, call, res>>
threadVars == <<handshake, control, fatal, create_failed>>

Assert(condition) == fatal' = (fatal \/ (Debug /\ ~condition))

InitThread ==
    /\ m_state = 1 /\ m_alive = FALSE /\ m_started = FALSE
    /\ the_thread = FALSE /\ worker = "none"
    /\ at = "idle" /\ call = "stop" /\ res = FALSE
    /\ fatal = FALSE /\ create_failed = FALSE

(***************************************************************************)
(* sync(), called by the main loop from stop, kill, run and the destructor.*)
(***************************************************************************)
SyncDown ==
    /\ at = "down" /\ m_state > 0
    /\ m_state' = m_state - 1
    /\ at' = "read"
    /\ UNCHANGED <<m_alive, m_started, the_thread, worker, call, res, fatal,
                   create_failed>>

SyncRead ==
    /\ at = "read"
    /\ res' = m_alive
    /\ at' = "check"
    /\ UNCHANGED <<handshake, worker, call, fatal, create_failed>>

\* The test of the value is in every build; what it finds is fatal.
SyncCheck ==
    /\ at = "check"
    /\ fatal' = (m_state # 0)
    /\ at' = "up"
    /\ UNCHANGED <<handshake, worker, call, res, create_failed>>

SyncUp ==
    /\ at = "up"
    /\ m_state' = m_state + 1
    /\ at' = "synced"
    /\ UNCHANGED <<m_alive, m_started, the_thread, worker, call, res, fatal,
                   create_failed>>

Sync == SyncDown \/ SyncRead \/ SyncCheck \/ SyncUp

(***************************************************************************)
(* runAsync() and run(), after their first sync().                         *)
(***************************************************************************)
RunDecide ==
    /\ at = "synced" /\ call = "run"
    /\ at' = IF res THEN "idle" ELSE "claim"
    /\ UNCHANGED <<handshake, worker, call, res, fatal, create_failed>>

Claim ==
    /\ at = "claim"
    /\ Assert(m_state = 1 /\ ~m_alive)
    /\ at' = "take"
    /\ UNCHANGED <<handshake, worker, call, res, create_failed>>

Take ==
    /\ at = "take" /\ m_state > 0
    /\ m_state' = m_state - 1
    /\ at' = "mark"
    /\ UNCHANGED <<m_alive, m_started, the_thread, worker, call, res, fatal,
                   create_failed>>

Mark ==
    /\ at = "mark"
    /\ Assert(m_state = 0)
    /\ m_alive' = TRUE /\ m_started' = FALSE
    /\ at' = "reap"
    /\ UNCHANGED <<m_state, the_thread, worker, call, res, create_failed>>

\* The join of the thread that ran before, if nobody joined it.
Reap ==
    /\ at = "reap"
    /\ the_thread => worker = "exited"
    /\ worker' = IF the_thread THEN "none" ELSE worker
    /\ the_thread' = FALSE
    /\ at' = "create"
    /\ UNCHANGED <<m_state, m_alive, m_started, call, res, fatal, create_failed>>

Create ==
    /\ at = "create"
    /\ the_thread' = TRUE /\ worker' = "init"
    /\ at' = "down" /\ call' = "started"
    /\ UNCHANGED <<m_state, m_alive, m_started, res, fatal, create_failed>>

\* A failing pthread_create leaves the handle undefined.
CreateFails ==
    /\ at = "create" /\ ~create_failed
    /\ the_thread' \in BOOLEAN
    /\ m_alive' = FALSE
    /\ at' = "idle" /\ create_failed' = TRUE
    /\ UNCHANGED <<m_state, m_started, worker, call, res, fatal>>

Started ==
    /\ at = "synced" /\ call = "started"
    /\ at' = "idle"
    /\ UNCHANGED <<handshake, worker, call, res, fatal, create_failed>>

Run ==
    RunDecide \/ Claim \/ Take \/ Mark \/ Reap \/ Create \/ CreateFails \/ Started

(***************************************************************************)
(* kill(): in stop(), and in the destructor.                               *)
(***************************************************************************)
KillSync(caller, joined) ==
    /\ at' = IF the_thread THEN "down" ELSE joined
    /\ call' = IF the_thread THEN caller ELSE call
    /\ UNCHANGED <<handshake, worker, res, fatal, create_failed>>

KillJoin(caller, joined) ==
    /\ at = "synced" /\ call = caller
    /\ worker = "exited"
    /\ worker' = "none" /\ the_thread' = FALSE
    /\ at' = joined
    /\ UNCHANGED <<m_state, m_alive, m_started, call, res, fatal, create_failed>>

(***************************************************************************)
(* The thread: hasStarted(), called by the body once it is ready, and      *)
(* thread_completed(), which runs after the body.                          *)
(***************************************************************************)
HasStarted(from, to) ==
    /\ worker = from
    /\ Assert(m_state = 0)
    /\ m_started' = TRUE
    /\ worker' = to
    /\ UNCHANGED <<m_state, m_alive, the_thread, at, call, res, create_failed>>

Post(from, to) ==
    /\ worker = from
    /\ m_state' = m_state + 1
    /\ worker' = to
    /\ UNCHANGED <<m_alive, m_started, the_thread, at, call, res, fatal,
                   create_failed>>

\* Mutant: thread_completed() forgets m_alive.
ClearAliveForgotten ==
    worker = "done" /\ worker' = "cleared"
    /\ UNCHANGED <<handshake, at, call, res, fatal, create_failed>>

ClearAlive ==
    /\ worker = "done"
    /\ m_alive' = FALSE
    /\ worker' = "cleared"
    /\ UNCHANGED <<m_state, m_started, the_thread, at, call, res, fatal,
                   create_failed>>

TestStarted ==
    /\ worker = "cleared"
    /\ worker' = IF m_started THEN "exited" ELSE "late"
    /\ UNCHANGED <<handshake, at, call, res, fatal, create_failed>>

Completed ==
    \/ ClearAlive
    \/ TestStarted
    \/ HasStarted("late", "repost")
    \/ Post("repost", "exited")
=============================================================================
