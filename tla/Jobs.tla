-------------------------------- MODULE Jobs --------------------------------
(***************************************************************************)
(* The job manager of Components/Task.py: jobs made of tasks, each task    *)
(* the run of an external program (eConsoleAppContainer), a download or a  *)
(* question.                                                               *)
(*                                                                         *)
(* Everything runs in the main loop, but the callbacks nest: the end of a  *)
(* task ends its job, which starts the next job, whose first task may fail *)
(* at once, and only then the first call goes on.  calls holds what is     *)
(* still to be done of the calls that nest, the innermost first; programs  *)
(* end and users answer when it is empty.                                  *)
(***************************************************************************)
EXTENDS Integers, SequencesExt, FiniteSets

CONSTANTS
    Jobs,
    Tasks,       \* the kinds of the tasks of each job, in order
    Faulty,      \* jobs whose tools may fail or be missing
    Cancelable,  \* jobs whose JobView offers to cancel
    MaxRetries,  \* bounds the retries
    MaxCancels,  \* bounds how often the user cancels
    None

Tools == {"tool", "burn", "resident"}
Kinds == Tools \cup {"check", "download", "ask", "wait"}

ASSUME JobAssumption ==
    /\ Tasks \in [Jobs -> Seq(Kinds)]
    /\ Faulty \subseteq Jobs /\ Cancelable \subseteq Jobs
    /\ MaxRetries \in Nat /\ MaxCancels \in Nat /\ None \notin Jobs

VARIABLES
    status,
    current_task,    \* the number of tasks done
    resident_tasks,
    linked,          \* the callback of the job is set
    open,            \* tasks that have been run and can still call back
    stopped,         \* downloads told to stop, questions whose countdown was
    active_jobs,
    active_job,
    failed_jobs,
    questions,       \* "Retry?" that the user has not answered
    calls,
    up,              \* FALSE after an exception in a callback
    added,
    retries, cancels

jobVars == <<status, current_task, resident_tasks, linked>>
taskVars == <<open, stopped>>
managerVars == <<active_jobs, active_job, failed_jobs, questions>>
vars == <<jobVars, taskVars, managerVars, calls, up, added, retries, cancels>>

Init ==
    /\ status = [j \in Jobs |-> "NOT_STARTED"]
    /\ current_task = [j \in Jobs |-> 0]
    /\ resident_tasks = [j \in Jobs |-> <<>>]
    /\ linked = [j \in Jobs |-> FALSE]
    /\ open = [j \in Jobs |-> {}] /\ stopped = [j \in Jobs |-> {}]
    /\ active_jobs = <<>> /\ active_job = None /\ failed_jobs = <<>>
    /\ questions = 0
    /\ calls = <<>> /\ up = TRUE /\ added = {}
    /\ retries = 0 /\ cancels = 0

Indexes(j) == 1..Len(Tasks[j])

(***************************************************************************)
(* The stack of calls.                                                     *)
(***************************************************************************)
Ops == {"kick", "runNext", "taskCallback", "goOn", "jobDone", "unlink", "abortNext"}

Call(op, j, t, res) == [op |-> op, job |-> j, task |-> t, res |-> res]

Kicks == Call("kick", None, 0, "ok")
RunsNext(j) == Call("runNext", j, 0, "ok")
Reports(j, t, res) == Call("taskCallback", j, t, res)

Idle == up /\ calls = <<>>

Calling(op) == up /\ calls # <<>> /\ Head(calls).op = op

\* The call at hand makes these calls, and then the one it was made from goes on.
Then(frames) == calls' = frames \o Tail(calls) /\ UNCHANGED up

\* Nobody catches the exception: ePython::call ends the program.
Raises == up' = FALSE /\ calls' = <<>>

(***************************************************************************)
(* The manager.                                                            *)
(***************************************************************************)
AddJob(j) ==
    /\ Idle /\ j \notin added
    /\ added' = added \cup {j}
    /\ active_jobs' = Append(active_jobs, j)
    /\ calls' = <<Kicks>>
    /\ UNCHANGED <<jobVars, taskVars, active_job, failed_jobs, questions, up, retries, cancels>>

\* Mutant: kick does not look whether a job is active.
MayStartAnother == active_jobs # <<>>

MayStart == active_job = None /\ active_jobs # <<>>

\* kick, and start of the job: the assertion there holds for a job that is
\* added once.
Kick ==
    /\ Calling("kick")
    /\ IF MayStart
       THEN LET j == Head(active_jobs) IN
            /\ active_job' = j
            /\ active_jobs' = Tail(active_jobs)
            /\ linked' = [linked EXCEPT ![j] = TRUE]
            /\ status' = [status EXCEPT ![j] = "IN_PROGRESS"]
            /\ Then(<<RunsNext(j)>>)
       ELSE Then(<<>>) /\ UNCHANGED <<active_job, active_jobs, linked, status>>
    /\ UNCHANGED <<current_task, resident_tasks, taskVars, failed_jobs, questions, added, retries, cancels>>

\* errorCB(False): whichever job is active is given up, and the next one starts.
GivenUp(rest) ==
    /\ failed_jobs' = Append(failed_jobs, active_job)
    /\ active_job' = None
    /\ calls' = <<Kicks>> \o rest

\* Mutant: the job is given up before the user has answered.
AsksTooLate ==
    /\ questions' = questions + 1
    /\ GivenUp(Tail(calls))

\* A problem that is RECOVERABLE: "Retry?", and the job stays the active one.
Asks ==
    /\ questions' = questions + 1
    /\ calls' = Tail(calls)
    /\ UNCHANGED <<active_job, failed_jobs>>

\* jobDone.  Which job it is called for, it does not look at.
JobDone(res) ==
    /\ Calling("jobDone") /\ Head(calls).res = res
    /\ \/ /\ res = "ok"
          /\ active_job' = None
          /\ calls' = <<Kicks>> \o Tail(calls)
          /\ UNCHANGED <<failed_jobs, questions>>
       \/ res = "soft" /\ Asks
       \/ res = "hard" /\ GivenUp(Tail(calls)) /\ UNCHANGED questions
    /\ UNCHANGED <<jobVars, taskVars, active_jobs, up, added, retries, cancels>>

\* errorCB(True): the user wants the active job to be run again.
Retry ==
    /\ Idle /\ questions > 0 /\ retries < MaxRetries
    /\ questions' = questions - 1
    /\ retries' = retries + 1
    /\ IF active_job # None /\ status[active_job] = "FAILED"
       THEN /\ status' = [status EXCEPT ![active_job] = "IN_PROGRESS"]
            /\ calls' = <<RunsNext(active_job)>> /\ UNCHANGED up
       ELSE Raises /\ UNCHANGED status
    /\ UNCHANGED <<current_task, resident_tasks, linked, taskVars, active_jobs, active_job,
                   failed_jobs, added, cancels>>

\* errorCB(False).
GiveUp ==
    /\ Idle /\ questions > 0
    /\ questions' = questions - 1
    /\ GivenUp(<<>>)
    /\ UNCHANGED <<jobVars, taskVars, active_jobs, up, added, retries, cancels>>

(***************************************************************************)
(* A job.                                                                  *)
(***************************************************************************)
\* The task is run: a tool unless a precondition fails; CheckDiskspaceTask is its
\* precondition and no more, and PreviewTask does not ask in standby.
RunTask(j, t) ==
    LET kind == Tasks[j][t] IN
    \/ /\ kind \in Tools \cup {"check"} /\ j \in Faulty
       /\ Then(<<Reports(j, t, "hard")>>)
       /\ UNCHANGED open
    \/ /\ kind \in {"check", "ask"}
       /\ Then(<<Reports(j, t, "ok")>>)
       /\ UNCHANGED open
    \/ /\ kind # "check"
       /\ open' = [open EXCEPT ![j] = @ \cup {t}]
       /\ Then(<<>>)

RunNext(j) ==
    /\ Calling("runNext") /\ Head(calls).job = j
    /\ \/ /\ current_task[j] = Len(Tasks[j]) /\ resident_tasks[j] = <<>>
          /\ status' = [status EXCEPT ![j] = "FINISHED"]
          /\ Then(<<Call("jobDone", j, 0, "ok"), Call("unlink", j, 0, "ok")>>)
          /\ UNCHANGED open
       \/ /\ current_task[j] = Len(Tasks[j]) /\ resident_tasks[j] # <<>>
          /\ Then(<<>>)
          /\ UNCHANGED <<status, open>>
       \/ /\ current_task[j] > Len(Tasks[j])  \* tasks[current_task]: IndexError
          /\ Raises
          /\ UNCHANGED <<status, open>>
       \/ /\ current_task[j] < Len(Tasks[j])
          /\ RunTask(j, current_task[j] + 1)
          /\ UNCHANGED status
    /\ UNCHANGED <<current_task, resident_tasks, linked, stopped, managerVars, added, retries, cancels>>

\* self.callback = None, after the callback.
Unlink(j) ==
    /\ Calling("unlink") /\ Head(calls).job = j
    /\ linked' = [linked EXCEPT ![j] = FALSE]
    /\ Then(<<>>)
    /\ UNCHANGED <<status, current_task, resident_tasks, taskVars, managerVars, added, retries, cancels>>

\* taskCallback up to the callback of the job.
TaskCallback(j) ==
    LET c == Head(calls) IN
    /\ Calling("taskCallback") /\ c.job = j
    /\ \/ /\ c.res = "ok"
          /\ Then(<<[c EXCEPT !.op = "goOn"]>>)
          /\ UNCHANGED status
       \/ /\ c.res # "ok"
          /\ status' = [status EXCEPT ![j] = "FAILED"]
          /\ IF linked[j]
             THEN Then(<<[c EXCEPT !.op = "jobDone"], [c EXCEPT !.op = "goOn"]>>)
             ELSE Raises  \* callback is None
    /\ UNCHANGED <<current_task, resident_tasks, linked, taskVars, managerVars, added, retries, cancels>>

\* Mutant: a resident task that is done does not advance the job.
AdvancesInTurn(j, c) == c.res = "ok" /\ c.task = current_task[j] + 1

\* The result of any task advances the job by one, the one of a resident task,
\* which has advanced it before, too.
Advances(j, c) == c.res = "ok"

\* The rest of it, with whatever the callback has changed.
GoOn(j) ==
    LET c == Head(calls) IN
    /\ Calling("goOn") /\ c.job = j
    /\ resident_tasks' = IF c.task # current_task[j] + 1 /\ c.task \in ToSet(resident_tasks[j])
                         THEN [resident_tasks EXCEPT ![j] = Remove(@, c.task)]
                         ELSE resident_tasks
    /\ IF Advances(j, c)
       THEN /\ current_task' = [current_task EXCEPT ![j] = @ + 1]
            /\ Then(<<RunsNext(j)>>)
       ELSE Then(<<>>) /\ UNCHANGED current_task
    /\ UNCHANGED <<status, linked, taskVars, managerVars, added, retries, cancels>>

(***************************************************************************)
(* The tasks.                                                              *)
(***************************************************************************)
\* What the end of a task may tell its job.  BurnTaskPostcondition is
\* RECOVERABLE; a PreviewTask goes on when its time is over, while the user who
\* has seen the DVD may say no; WaitForResidentTasks never calls back.  dvdauthor has told of itself before it ends well.
Results(j, t) ==
    LET kind == Tasks[j][t]
        well == IF kind = "resident" /\ j \notin Faulty /\ t \notin ToSet(resident_tasks[j])
                THEN {} ELSE {"ok"}
    IN  IF kind = "wait" THEN {}
        ELSE IF t \in stopped[j] THEN IF kind = "ask" THEN {"ok", "hard"} ELSE {"hard"}
        ELSE IF kind = "ask" THEN {"ok"}
        ELSE IF j \notin Faulty THEN well
        ELSE IF kind = "burn" THEN {"ok", "soft"}
        ELSE {"ok", "hard"}

\* appClosed of the container, the end of a download, the answer to a question.
TaskEnds(j, t, res) ==
    /\ Idle /\ t \in open[j] /\ res \in Results(j, t)
    /\ open' = [open EXCEPT ![j] = @ \ {t}]
    /\ calls' = <<Reports(j, t, res)>>
    /\ UNCHANGED <<jobVars, stopped, managerVars, up, added, retries, cancels>>

\* A question that waits for the user, with no time left to run out.
Held(j) == {t \in open[j] \cap stopped[j] : Tasks[j][t] = "ask"}

\* "Do you want to preview this DVD": the user has it played, after which "Do
\* you want to burn" has no timeout; moves the selection, which stops the
\* countdown; or stays in a screen above the infobar, which alone can ask.
HoldQuestion(j, t) ==
    /\ Idle /\ t \in open[j] \ Held(j) /\ Tasks[j][t] = "ask"
    /\ stopped' = [stopped EXCEPT ![j] = @ \cup {t}]
    /\ UNCHANGED <<jobVars, open, managerVars, calls, up, added, retries, cancels>>

\* Mutant: a task that goes on telling of itself becomes resident again.
TellsAgain(j, t) == TRUE

\* It tells of itself with every line; all but the first are passed over.
TellsFirst(j, t) == t \notin ToSet(resident_tasks[j])

\* DVDAuthorTask has read the line that lets the job go on beside it.
StaysResident(j, t) ==
    /\ Idle /\ t \in open[j] /\ Tasks[j][t] = "resident" /\ TellsFirst(j, t)
    /\ resident_tasks' = [resident_tasks EXCEPT ![j] = Append(@, current_task[j] + 1)]
    /\ current_task' = [current_task EXCEPT ![j] = @ + 1]
    /\ calls' = <<RunsNext(j)>>
    /\ UNCHANGED <<status, linked, taskVars, managerVars, up, added, retries, cancels>>

\* The abort of a task: programs are killed and do not call back any more, the
\* question stays on the screen, a download is told to stop and ends later.
AbortTask(j, t, rest) ==
    IF Tasks[j][t] = "download"
    THEN /\ stopped' = [stopped EXCEPT ![j] = @ \cup {t}]
         /\ calls' = rest
         /\ UNCHANGED open
    ELSE /\ open' = IF Tasks[j][t] = "ask" THEN open ELSE [open EXCEPT ![j] = @ \ {t}]
         /\ calls' = <<Reports(j, t, "hard")>> \o rest
         /\ UNCHANGED stopped

\* The user cancels a job that waits: JobView.abort.
CancelWaiting(j) ==
    /\ Idle /\ status[j] = "NOT_STARTED"
    /\ \E i \in DOMAIN active_jobs : active_jobs[i] = j /\ active_jobs' = RemoveAt(active_jobs, i)
    /\ UNCHANGED <<jobVars, taskVars, active_job, failed_jobs, questions, calls, up, added, retries, cancels>>

\* The user cancels a job that runs: the current task, then the resident ones.
Cancel(j) ==
    /\ Idle /\ status[j] = "IN_PROGRESS" /\ j \in Cancelable
    /\ cancels < MaxCancels /\ cancels' = cancels + 1
    /\ IF current_task[j] < Len(Tasks[j])
       THEN AbortTask(j, current_task[j] + 1, <<Call("abortNext", j, 1, "ok")>>)
       ELSE /\ calls' = <<Call("abortNext", j, 1, "ok")>>
            /\ UNCHANGED taskVars
    /\ UNCHANGED <<jobVars, managerVars, up, added, retries>>

\* The loop over resident_tasks, which the callbacks shorten meanwhile.
AbortNext(j) ==
    LET i == Head(calls).task IN
    /\ Calling("abortNext") /\ Head(calls).job = j
    /\ IF i <= Len(resident_tasks[j])
       THEN AbortTask(j, resident_tasks[j][i], <<Call("abortNext", j, i + 1, "ok")>> \o Tail(calls))
       ELSE calls' = Tail(calls) /\ UNCHANGED taskVars
    /\ UNCHANGED <<jobVars, managerVars, up, added, retries, cancels>>

(***************************************************************************)
(* The specification.  Calls return, programs and downloads end, and the   *)
(* question of a PreviewTask has a timeout.  Everything else is up to the  *)
(* user, who need not do anything: "Retry?" and "Do you want to burn" wait *)
(* for an answer without a limit (MessageBox.py:16).                       *)
(***************************************************************************)
Step ==
    \/ Kick
    \/ \E res \in {"ok", "soft", "hard"} : JobDone(res)
    \/ \E j \in Jobs : RunNext(j) \/ Unlink(j) \/ TaskCallback(j) \/ GoOn(j) \/ AbortNext(j)

EndsSomehow(j, t) == \E res \in {"ok", "soft", "hard"} : TaskEnds(j, t, res)

Answer ==
    \/ Retry
    \/ GiveUp
    \/ \E j \in Jobs : \E t \in Indexes(j) :
           HoldQuestion(j, t) \/ (t \in Held(j) /\ EndsSomehow(j, t))

Proceed(j) ==
    \E t \in Indexes(j) \ Held(j) : StaysResident(j, t) \/ EndsSomehow(j, t)

User == \E j \in Jobs : AddJob(j) \/ CancelWaiting(j) \/ Cancel(j)

Next == Step \/ Answer \/ User \/ \E j \in Jobs : Proceed(j)

Spec == Init /\ [][Next]_vars

FairSpec ==
    /\ Spec /\ WF_vars(Step)
    /\ \A j \in Jobs : WF_vars(Proceed(j))

(***************************************************************************)
(* Properties.                                                             *)
(***************************************************************************)
Works(j) == \E t \in open[j] : Tasks[j][t] # "wait"

\* At most one job has a task that runs, and it is the active one ("The
\* jobmanager will execute multiple jobs, each after another", Task.py:250).
OneAfterAnother == Idle => \A j \in Jobs : Works(j) => j = active_job

\* No call trips over an assertion, an index or a callback that is not set: it
\* would end the program with all jobs in it.
NeverRaises == up

\* A job that says it has finished has run every task to its end, the ones that
\* stayed resident too.
FinishedMeansDone ==
    \A j \in Jobs : status[j] = "FINISHED" =>
        ~Works(j) /\ resident_tasks[j] = <<>> /\ current_task[j] = Len(Tasks[j])

Unanswered == questions > 0 \/ \E j \in Jobs : Held(j) # {}

\* A job that was added ends, and the queue never stands still, but where a
\* question is left unanswered: nothing else holds up the jobs for ever, no
\* failure, no cancel, no answer and no program that stays.
JobsEnd ==
    \/ <>[]Unanswered
    \/ \A j \in Jobs : j \in added ~>
           \/ status[j] \in {"FINISHED", "FAILED"} /\ j # active_job
           \/ status[j] = "NOT_STARTED" /\ j \notin ToSet(active_jobs)
=============================================================================
