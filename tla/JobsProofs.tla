----------------------------- MODULE JobsProofs -----------------------------
(***************************************************************************)
(* For any number of jobs and tasks that no plugin lets stay resident:     *)
(* whatever fails, is cancelled or retried, one job is worked on after the *)
(* other, and no callback raises an exception.                             *)
(*                                                                         *)
(* A call is live when it may start a task or end a job.  The invariant is *)
(* that only the innermost call is ever live, that it speaks of the active *)
(* job, and that no task runs meanwhile: what is left to do in the calls   *)
(* around it changes nothing that matters.                                 *)
(***************************************************************************)
EXTENDS Jobs, TLAPS

\* Jobs whose tasks stay in line.  The question of a PreviewTask outlives its
\* task when the job is cancelled.
InLine ==
    \A j \in Jobs : \A t \in Indexes(j) :
        Tasks[j][t] # "resident" /\ (Tasks[j][t] = "ask" => j \notin Cancelable)

Results3 == {"ok", "soft", "hard"}

Calls == [op : Ops, job : Jobs \cup {None}, task : Nat, res : Results3]

Typed ==
    /\ status \in [Jobs -> {"NOT_STARTED", "IN_PROGRESS", "FINISHED", "FAILED"}]
    /\ current_task \in [Jobs -> Nat]
    /\ resident_tasks \in [Jobs -> {<<>>}]
    /\ linked \in [Jobs -> BOOLEAN]
    /\ open \in [Jobs -> SUBSET Nat]
    /\ active_jobs \in Seq(Jobs)
    /\ active_job \in Jobs \cup {None}
    /\ calls \in Seq(Calls)
    /\ questions \in Nat
    /\ up \in BOOLEAN

\* What is left of a call that has made its callback.
Inert(c) ==
    \/ c.op = "abortNext" /\ c.task > 0
    \/ c.op = "goOn" /\ c.res # "ok"
    \/ c.op = "unlink" /\ c.job \in Jobs /\ status[c.job] = "FINISHED"

\* A call that is live.
Live(c) ==
    LET j == c.job IN
    /\ j \in Jobs /\ j = active_job /\ questions = 0
    /\ \A k \in Jobs : open[k] = {}
    /\ linked[j]
    /\ c.op = "jobDone" => status[j] = IF c.res = "ok" THEN "FINISHED" ELSE "FAILED"
    /\ c.op # "jobDone" => status[j] = "IN_PROGRESS"
    /\ c.op \in {"taskCallback", "goOn"} =>
          c.task = current_task[j] + 1 /\ current_task[j] < Len(Tasks[j])

HeadOk(c) ==
    \/ Inert(c)
    \/ c.op = "kick"
    \/ c.op \in {"runNext", "taskCallback", "goOn", "jobDone"} /\ Live(c)

CallsInOrder ==
    /\ \A i \in DOMAIN calls : i > 1 => Inert(calls[i])
    /\ calls # <<>> => HeadOk(calls[1])

OneOpen ==
    \A j \in Jobs : open[j] # {} =>
        /\ status[j] = "IN_PROGRESS"
        /\ open[j] = {current_task[j] + 1} /\ current_task[j] < Len(Tasks[j])

OneInProgress == \A j \in Jobs : status[j] = "IN_PROGRESS" => j = active_job /\ linked[j]

Asked == questions > 0 => questions = 1 /\ active_job \in Jobs /\ status[active_job] = "FAILED"
         /\ linked[active_job]

\* No job gets past its last task.
Reached == \A j \in Jobs : current_task[j] <= Len(Tasks[j])

Queued ==
    /\ \A i \in DOMAIN active_jobs :
         status[active_jobs[i]] = "NOT_STARTED" /\ active_jobs[i] \in added
         /\ current_task[active_jobs[i]] = 0
    /\ \A i, k \in DOMAIN active_jobs : active_jobs[i] = active_jobs[k] => i = k
    /\ \A j \in Jobs : j \notin added => status[j] = "NOT_STARTED" /\ current_task[j] = 0

Inv == Typed /\ CallsInOrder /\ OneOpen /\ OneInProgress /\ Asked /\ Reached /\ Queued /\ up

-----------------------------------------------------------------------------
(***************************************************************************)
(* The stack of calls.                                                     *)
(***************************************************************************)
LEMMA CallTyped ==
    ASSUME NEW op \in Ops, NEW j \in Jobs \cup {None}, NEW t \in Nat, NEW res \in Results3
    PROVE  /\ Call(op, j, t, res) \in Calls
           /\ Call(op, j, t, res).op = op /\ Call(op, j, t, res).job = j
           /\ Call(op, j, t, res).task = t /\ Call(op, j, t, res).res = res
BY DEF Call, Calls

LEMMA Popped ==
    ASSUME NEW S, NEW s \in Seq(S), s # <<>>
    PROVE  /\ <<>> \o Tail(s) = Tail(s) /\ Tail(s) \in Seq(S)
           /\ \A i \in DOMAIN Tail(s) : i + 1 \in DOMAIN s /\ i + 1 > 1 /\ Tail(s)[i] = s[i + 1]
OBVIOUS

LEMMA Pair ==
    ASSUME NEW S, NEW a \in S, NEW b \in S
    PROVE  /\ <<a>> \o <<b>> \in Seq(S) /\ DOMAIN (<<a>> \o <<b>>) = 1..2
           /\ (<<a>> \o <<b>>)[1] = a /\ (<<a>> \o <<b>>)[2] = b
<1>1. /\ <<a>> \in Seq(S) /\ <<b>> \in Seq(S) /\ Len(<<a>>) = 1 /\ Len(<<b>>) = 1
      /\ <<a>>[1] = a /\ <<b>>[1] = b
  OBVIOUS
<1>2. <<a>> \o <<b>> \in Seq(S) /\ Len(<<a>> \o <<b>>) = 2
  BY <1>1
<1>3. (<<a>> \o <<b>>)[1] = a /\ (<<a>> \o <<b>>)[2] = b
  BY <1>1
<1> QED
  BY <1>2, <1>3

LEMMA PushedOne ==
    ASSUME NEW S, NEW s \in Seq(S), s # <<>>, NEW c \in S
    PROVE  /\ <<c>> \o Tail(s) \in Seq(S)
           /\ (<<c>> \o Tail(s))[1] = c
           /\ \A i \in DOMAIN (<<c>> \o Tail(s)) :
                i > 1 => i \in DOMAIN s /\ (<<c>> \o Tail(s))[i] = s[i]
OBVIOUS

LEMMA PushedTwo ==
    ASSUME NEW S, NEW s \in Seq(S), s # <<>>, NEW c \in S, NEW d \in S
    PROVE  /\ <<c, d>> \o Tail(s) \in Seq(S)
           /\ (<<c, d>> \o Tail(s))[1] = c
           /\ \A i \in DOMAIN (<<c, d>> \o Tail(s)) :
                i > 1 => \/ (<<c, d>> \o Tail(s))[i] = d
                         \/ /\ i - 1 \in DOMAIN s /\ i - 1 > 1
                            /\ (<<c, d>> \o Tail(s))[i] = s[i - 1]
OBVIOUS

\* The call at hand returns.
LEMMA OrderPopped ==
    ASSUME Typed, CallsInOrder, calls # <<>>, calls' = Tail(calls),
           \A c \in Calls : Inert(c) => Inert(c)'
    PROVE  calls' \in Seq(Calls) /\ CallsInOrder'
<1>1. calls \in Seq(Calls) /\ \A i \in DOMAIN calls : i > 1 => Inert(calls[i])
  BY DEF Typed, CallsInOrder
<1>2. /\ calls' \in Seq(Calls)
      /\ \A i \in DOMAIN calls' : i + 1 \in DOMAIN calls /\ i + 1 > 1 /\ calls'[i] = calls[i + 1]
  BY <1>1, Popped
<1>3. \A i \in DOMAIN calls' : Inert(calls[i])'
  BY <1>1, <1>2 DEF Inert
<1>4. calls' # <<>> => 1 \in DOMAIN calls'
  BY <1>2
<1> QED
  BY <1>2, <1>3, <1>4 DEF CallsInOrder, HeadOk

\* It makes one call.
LEMMA OrderPushed ==
    ASSUME Typed, CallsInOrder, calls # <<>>, NEW c \in Calls, calls' = <<c>> \o Tail(calls),
           \A d \in Calls : Inert(d) => Inert(d)', HeadOk(c)'
    PROVE  calls' \in Seq(Calls) /\ CallsInOrder'
<1>1. calls \in Seq(Calls) /\ \A i \in DOMAIN calls : i > 1 => Inert(calls[i])
  BY DEF Typed, CallsInOrder
<1>2. /\ calls' \in Seq(Calls) /\ calls'[1] = c
      /\ \A i \in DOMAIN calls' : i > 1 => i \in DOMAIN calls /\ calls'[i] = calls[i]
  BY <1>1, PushedOne
<1>3. \A i \in DOMAIN calls' : i > 1 => Inert(calls[i])'
  BY <1>1, <1>2 DEF Inert
<1> QED
  BY <1>2, <1>3 DEF CallsInOrder

\* It makes a call and goes on afterwards.
LEMMA OrderPushedTwo ==
    ASSUME Typed, CallsInOrder, calls # <<>>, NEW c \in Calls, NEW d \in Calls,
           calls' = <<c, d>> \o Tail(calls),
           \A e \in Calls : Inert(e) => Inert(e)', HeadOk(c)', Inert(d)'
    PROVE  calls' \in Seq(Calls) /\ CallsInOrder'
<1>1. calls \in Seq(Calls) /\ \A i \in DOMAIN calls : i > 1 => Inert(calls[i])
  BY DEF Typed, CallsInOrder
<1>2. /\ calls' \in Seq(Calls) /\ calls'[1] = c
      /\ \A i \in DOMAIN calls' :
           i > 1 => \/ calls'[i] = d
                    \/ i - 1 \in DOMAIN calls /\ i - 1 > 1 /\ calls'[i] = calls[i - 1]
  BY <1>1, PushedTwo
<1>3. \A i \in DOMAIN calls' : i > 1 => Inert(calls[i])'
  BY <1>1, <1>2 DEF Inert
<1> QED
  BY <1>2, <1>3 DEF CallsInOrder

\* The main loop makes a call.
LEMMA OrderBegun ==
    ASSUME NEW c \in Calls, calls' = <<c>>, HeadOk(c)'
    PROVE  calls' \in Seq(Calls) /\ CallsInOrder'
BY DEF CallsInOrder

\* What is left of a call stays so as long as finished jobs do.
LEMMA InertStays ==
    ASSUME \A j \in Jobs : status[j] = "FINISHED" => status'[j] = "FINISHED"
    PROVE  \A c \in Calls : Inert(c) => Inert(c)'
BY DEF Inert

-----------------------------------------------------------------------------
(***************************************************************************)
(* Init, and one lemma for each action.                                    *)
(***************************************************************************)
LEMMA InitInv ==
    ASSUME Init
    PROVE  Inv
<1>1. Typed
  BY DEF Init, Typed
<1>2. Reached
  BY JobAssumption DEF Init, Reached
<1>3. CallsInOrder /\ OneOpen /\ OneInProgress /\ Asked /\ Queued /\ up
  BY DEF Init, CallsInOrder, OneOpen, OneInProgress, Asked, Queued
<1> QED
  BY <1>1, <1>2, <1>3 DEF Inv

LEMMA AddJobKeeps ==
    ASSUME Inv, NEW j \in Jobs, AddJob(j)
    PROVE  Inv'
<1> USE DEF Inv
<1>1. Kicks \in Calls /\ Kicks.op = "kick"
  BY CallTyped DEF Kicks, Ops, Results3
<1>2. calls' \in Seq(Calls) /\ CallsInOrder'
  BY <1>1, OrderBegun DEF AddJob, HeadOk
<1>3. Typed'
  BY <1>2 DEF AddJob, Typed, jobVars, taskVars
<1>4. Queued'
  BY DEF AddJob, Queued, Typed, jobVars
<1> QED
  BY <1>2, <1>3, <1>4 DEF AddJob, OneOpen, OneInProgress, Asked, Reached, jobVars, taskVars

LEMMA CancelWaitingKeeps ==
    ASSUME Inv, NEW j \in Jobs, CancelWaiting(j)
    PROVE  Inv'
<1> USE DEF Inv
<1>1. PICK i \in DOMAIN active_jobs : active_jobs' = RemoveAt(active_jobs, i)
  BY DEF CancelWaiting
<1>2. /\ active_jobs' \in Seq(Jobs)
      /\ \A k \in DOMAIN active_jobs' :
           \/ k < i /\ k \in DOMAIN active_jobs /\ active_jobs'[k] = active_jobs[k]
           \/ k >= i /\ k + 1 \in DOMAIN active_jobs /\ active_jobs'[k] = active_jobs[k + 1]
  <2>1. active_jobs' = SubSeq(active_jobs, 1, i - 1) \o SubSeq(active_jobs, i + 1, Len(active_jobs))
    BY <1>1 DEF RemoveAt
  <2>2. active_jobs \in Seq(Jobs) /\ i \in 1..Len(active_jobs)
    BY DEF Typed
  <2>3. /\ SubSeq(active_jobs, 1, i - 1) \in Seq(Jobs) /\ Len(SubSeq(active_jobs, 1, i - 1)) = i - 1
        /\ \A k \in 1..(i - 1) : SubSeq(active_jobs, 1, i - 1)[k] = active_jobs[k]
    BY <2>2
  <2>4. /\ SubSeq(active_jobs, i + 1, Len(active_jobs)) \in Seq(Jobs)
        /\ Len(SubSeq(active_jobs, i + 1, Len(active_jobs))) = Len(active_jobs) - i
        /\ \A k \in 1..(Len(active_jobs) - i) :
             SubSeq(active_jobs, i + 1, Len(active_jobs))[k] = active_jobs[i + k]
    BY <2>2
  <2> DEFINE p == SubSeq(active_jobs, 1, i - 1)
             q == SubSeq(active_jobs, i + 1, Len(active_jobs))
  <2>5. active_jobs' = p \o q /\ p \in Seq(Jobs) /\ q \in Seq(Jobs)
    BY <2>1, <2>3, <2>4
  <2>6. /\ Len(p) = i - 1 /\ \A k \in 1..(i - 1) : p[k] = active_jobs[k]
        /\ Len(q) = Len(active_jobs) - i
        /\ \A k \in 1..(Len(active_jobs) - i) : q[k] = active_jobs[i + k]
    BY <2>3, <2>4
  <2> HIDE DEF p, q
  <2>7. active_jobs' \in Seq(Jobs) /\ Len(active_jobs') = Len(active_jobs) - 1
    BY <2>2, <2>5, <2>6
  <2>8. \A k \in 1..(Len(active_jobs) - 1) :
          active_jobs'[k] = IF k < i THEN active_jobs[k] ELSE active_jobs[k + 1]
    BY <2>2, <2>5, <2>6
  <2> QED
    BY <2>2, <2>7, <2>8
<1>3. \A k, l \in DOMAIN active_jobs' : active_jobs'[k] = active_jobs'[l] => k = l
  <2>1. \A k, l \in DOMAIN active_jobs : active_jobs[k] = active_jobs[l] => k = l
    BY DEF Queued
  <2>2. i \in Int /\ DOMAIN active_jobs' \subseteq Int
    BY <1>2 DEF Typed
  <2> SUFFICES ASSUME NEW k \in DOMAIN active_jobs', NEW l \in DOMAIN active_jobs',
                      active_jobs'[k] = active_jobs'[l]
               PROVE  k = l
    OBVIOUS
  <2>3. k \in Int /\ l \in Int
    BY <2>2
  <2>4. CASE k < i /\ l < i
    BY <1>2, <2>1, <2>2, <2>3, <2>4
  <2>5. CASE k >= i /\ l >= i
    BY <1>2, <2>1, <2>2, <2>3, <2>5
  <2>6. CASE k < i /\ l >= i
    BY <1>2, <2>1, <2>2, <2>3, <2>6
  <2>7. CASE k >= i /\ l < i
    BY <1>2, <2>1, <2>2, <2>3, <2>7
  <2> QED
    BY <2>2, <2>3, <2>4, <2>5, <2>6, <2>7
<1>4. Queued'
  BY <1>2, <1>3 DEF CancelWaiting, Queued, jobVars
<1>5. Typed'
  BY <1>2 DEF CancelWaiting, Typed, jobVars, taskVars
<1>6. CallsInOrder'
  BY DEF CancelWaiting, CallsInOrder, Idle
<1> QED
  BY <1>4, <1>5, <1>6 DEF CancelWaiting, OneOpen, OneInProgress, Asked, Reached, jobVars, taskVars

LEMMA KickKeeps ==
    ASSUME Inv, Kick
    PROVE  Inv'
<1> USE DEF Inv
<1>1. calls # <<>> /\ up
  BY DEF Kick, Calling
<1>2. CASE ~MayStart
  <2>1. calls' = <<>> \o Tail(calls) /\ UNCHANGED <<active_job, active_jobs, linked, status, current_task, resident_tasks, taskVars, questions, up, added>>
    BY <1>2 DEF Kick, Then
  <2>2. calls' \in Seq(Calls) /\ CallsInOrder'
    <3>1. calls' = Tail(calls)
      BY <2>1, <1>1, Popped DEF Typed
    <3> QED
      BY <2>1, <3>1, <1>1, OrderPopped, InertStays DEF Typed
  <2> QED
    BY <2>1, <2>2 DEF Typed, OneOpen, OneInProgress, Asked, Reached, Queued, taskVars
<1>3. CASE MayStart
  <2>0. active_jobs # <<>> /\ Head(active_jobs) \in Jobs
    BY <1>3 DEF MayStart, Typed
  <2> PICK j \in Jobs : j = Head(active_jobs)
    BY <2>0
  <2>1. /\ active_job = None /\ active_jobs # <<>>
        /\ active_job' = j /\ active_jobs' = Tail(active_jobs)
        /\ linked' = [linked EXCEPT ![j] = TRUE]
        /\ status' = [status EXCEPT ![j] = "IN_PROGRESS"]
        /\ calls' = <<RunsNext(j)>> \o Tail(calls)
        /\ UNCHANGED <<current_task, resident_tasks, taskVars, questions, up, added>>
    BY <1>3 DEF Kick, Then, MayStart
  <2>2. /\ j \in Jobs /\ status[j] = "NOT_STARTED" /\ j \in added /\ current_task[j] = 0
        /\ \A i \in DOMAIN active_jobs : active_jobs[i] = j => i = 1
    BY <2>0 DEF Typed, Queued
  <2>3. /\ active_jobs' \in Seq(Jobs)
        /\ \A i \in DOMAIN active_jobs' :
             /\ i + 1 \in DOMAIN active_jobs /\ active_jobs'[i] = active_jobs[i + 1]
             /\ active_jobs'[i] # j
    BY <2>1, <2>2 DEF Typed
  <2>4. /\ \A k \in Jobs : k # j => status'[k] = status[k] /\ linked'[k] = linked[k]
        /\ status'[j] = "IN_PROGRESS" /\ linked'[j]
    BY <2>1, <2>2 DEF Typed
  <2>5. questions = 0
    BY <2>1, JobAssumption DEF Asked, Typed
  <2>6. \A k \in Jobs : status[k] # "IN_PROGRESS" /\ open[k] = {}
    BY <2>1, JobAssumption DEF OneInProgress, OneOpen
  <2>7. RunsNext(j) \in Calls /\ RunsNext(j).op = "runNext" /\ RunsNext(j).job = j
    BY <2>2, CallTyped DEF RunsNext, Ops, Results3
  <2>8. HeadOk(RunsNext(j))'
    <3>2. /\ j \in Jobs /\ j = active_job' /\ questions' = 0 /\ linked'[j] /\ status'[j] = "IN_PROGRESS"
      BY <2>1, <2>2, <2>4, <2>5
    <3>3. \A k \in Jobs : open'[k] = {}
      BY <2>1, <2>6 DEF taskVars
    <3>4. HeadOk([op |-> "runNext", job |-> j, task |-> 0, res |-> "ok"])'
      BY <3>2, <3>3 DEF HeadOk, Live
    <3> QED
      BY <3>4 DEF RunsNext, Call
  <2>9. calls' \in Seq(Calls) /\ CallsInOrder'
    BY <1>1, <2>1, <2>2, <2>4, <2>7, <2>8, OrderPushed, InertStays
  <2>10. Typed'
    BY <2>1, <2>2, <2>3, <2>9 DEF Typed, taskVars
  <2>11. Queued'
    BY <2>1, <2>2, <2>3, <2>4 DEF Queued, Typed
  <2>12. OneOpen' /\ OneInProgress' /\ Asked'
    BY <2>1, <2>2, <2>4, <2>5, <2>6 DEF OneOpen, OneInProgress, Asked, taskVars
  <2> QED
    BY <2>1, <2>9, <2>10, <2>11, <2>12 DEF Reached
<1> QED
  BY <1>2, <1>3

\* The call at hand, and what Inv says of it.
LEMMA HeadCall ==
    ASSUME Inv, NEW op, Calling(op)
    PROVE  /\ calls # <<>> /\ up
           /\ \E c \in Calls : c = Head(calls) /\ c.op = op /\ HeadOk(c)
BY DEF Inv, Typed, CallsInOrder, Calling

LEMMA JobDoneKeeps ==
    ASSUME Inv, NEW res \in Results3, JobDone(res)
    PROVE  Inv'
<1> USE DEF Inv
<1>1. calls # <<>> /\ up /\ \E d \in Calls : d = Head(calls) /\ d.op = "jobDone" /\ HeadOk(d)
  BY HeadCall DEF JobDone
<1> PICK c \in Calls : c = Head(calls) /\ c.op = "jobDone" /\ HeadOk(c)
  BY <1>1
<1> DEFINE j == c.job
<1>2. /\ j \in Jobs /\ j = active_job /\ questions = 0 /\ linked[j]
      /\ \A k \in Jobs : open[k] = {}
      /\ status[j] = IF res = "ok" THEN "FINISHED" ELSE "FAILED"
  BY DEF HeadOk, Live, Inert, JobDone
<1>3. UNCHANGED <<status, current_task, resident_tasks, linked, open, active_jobs, up, added>>
  BY DEF JobDone, jobVars, taskVars
<1>4. \A d \in Calls : Inert(d) => Inert(d)'
  BY <1>3, InertStays
<1>5. Kicks \in Calls /\ HeadOk(Kicks)'
  BY CallTyped DEF Kicks, Ops, Results3, HeadOk, Call
<1>6. \A k \in Jobs : status[k] # "IN_PROGRESS"
  BY <1>2 DEF OneInProgress
<1>7. Queued' /\ OneOpen' /\ OneInProgress'
  BY <1>2, <1>3, <1>6 DEF Queued, OneOpen, OneInProgress
<1>8. CASE res = "ok"
  <2>1. active_job' = None /\ calls' = <<Kicks>> \o Tail(calls) /\ questions' = questions
    BY <1>8 DEF JobDone
  <2>2. calls' \in Seq(Calls) /\ CallsInOrder'
    BY <1>1, <1>4, <1>5, <2>1, OrderPushed
  <2> QED
    BY <1>2, <1>3, <1>7, <2>1, <2>2 DEF Typed, Asked, Reached
<1>9. CASE res = "soft"
  <2>1. active_job' = active_job /\ calls' = Tail(calls) /\ questions' = 1
    BY <1>2, <1>9 DEF JobDone, Asks
  <2>2. calls' \in Seq(Calls) /\ CallsInOrder'
    BY <1>1, <1>4, <2>1, OrderPopped
  <2>4. Asked'
    BY <1>2, <1>3, <1>9, <2>1 DEF Asked
  <2> QED
    BY <1>3, <1>7, <2>1, <2>2, <2>4 DEF Typed, Reached
<1>10. CASE res = "hard"
  <2>1. active_job' = None /\ calls' = <<Kicks>> \o Tail(calls) /\ questions' = questions
    BY <1>10 DEF JobDone, GivenUp
  <2>2. calls' \in Seq(Calls) /\ CallsInOrder'
    BY <1>1, <1>4, <1>5, <2>1, OrderPushed
  <2> QED
    BY <1>2, <1>3, <1>7, <2>1, <2>2 DEF Typed, Asked, Reached
<1> QED
  BY <1>8, <1>9, <1>10 DEF Results3

LEMMA RetryKeeps ==
    ASSUME Inv, Retry
    PROVE  Inv'
<1> USE DEF Inv
<1> PICK j \in Jobs : j = active_job
  BY DEF Retry, Asked, Typed
<1>1. /\ questions = 1 /\ status[j] = "FAILED" /\ linked[j]
      /\ calls = <<>> /\ up
  BY DEF Retry, Asked, Idle, Typed
<1>2. j # None
  BY JobAssumption
<1>3. /\ questions' = 0 /\ calls' = <<RunsNext(j)>> /\ up'
      /\ status' = [status EXCEPT ![j] = "IN_PROGRESS"]
      /\ UNCHANGED <<current_task, resident_tasks, linked, open, active_jobs, active_job, added>>
  BY <1>1, <1>2 DEF Retry, taskVars
<1>4. \A k \in Jobs : status[k] # "IN_PROGRESS" /\ open[k] = {}
  BY <1>1 DEF OneInProgress, OneOpen
<1>5. status'[j] = "IN_PROGRESS" /\ \A k \in Jobs : k # j => status'[k] = status[k]
  BY <1>3 DEF Typed
<1>6. RunsNext(j) \in Calls /\ HeadOk([op |-> "runNext", job |-> j, task |-> 0, res |-> "ok"])'
  BY <1>1, <1>3, <1>4, <1>5, CallTyped DEF RunsNext, Ops, Results3, HeadOk, Live
<1>7. calls' \in Seq(Calls) /\ CallsInOrder'
  BY <1>3, <1>6, OrderBegun DEF RunsNext, Call
<1>8. Queued'
  BY <1>1, <1>3, <1>5 DEF Queued, Typed
<1>9. Typed'
  BY <1>3, <1>7 DEF Typed
<1> QED
  BY <1>1, <1>3, <1>4, <1>5, <1>7, <1>8, <1>9 DEF OneOpen, OneInProgress, Asked, Reached

LEMMA GiveUpKeeps ==
    ASSUME Inv, GiveUp
    PROVE  Inv'
<1> USE DEF Inv
<1>1. questions = 1 /\ active_job \in Jobs /\ status[active_job] = "FAILED" /\ up
  BY DEF GiveUp, Asked, Idle, Typed
<1>2. /\ questions' = 0 /\ active_job' = None /\ up' /\ calls' = <<Kicks>>
      /\ UNCHANGED <<status, current_task, resident_tasks, linked, open, active_jobs, added>>
  BY <1>1 DEF GiveUp, GivenUp, jobVars, taskVars
<1>3. Kicks \in Calls /\ HeadOk(Kicks)'
  BY CallTyped DEF Kicks, Ops, Results3, HeadOk, Call
<1>4. calls' \in Seq(Calls) /\ CallsInOrder'
  BY <1>2, <1>3, OrderBegun
<1>5. \A k \in Jobs : status[k] # "IN_PROGRESS" /\ open[k] = {}
  BY <1>1 DEF OneInProgress, OneOpen
<1> QED
  BY <1>2, <1>4, <1>5 DEF Typed, Queued, OneOpen, OneInProgress, Asked, Reached

LEMMA RunNextKeeps ==
    ASSUME Inv, InLine, NEW j \in Jobs, RunNext(j)
    PROVE  Inv'
<1> USE DEF Inv
<1>1. calls # <<>> /\ up /\ \E d \in Calls : d = Head(calls) /\ d.op = "runNext" /\ HeadOk(d)
  BY HeadCall DEF RunNext
<1> PICK c \in Calls : c = Head(calls) /\ c.op = "runNext" /\ HeadOk(c)
  BY <1>1
<1>2. /\ c.job = j /\ j = active_job /\ questions = 0 /\ linked[j] /\ status[j] = "IN_PROGRESS"
      /\ \A k \in Jobs : open[k] = {}
  BY DEF HeadOk, Live, Inert, RunNext
<1>3. UNCHANGED <<current_task, resident_tasks, linked, active_jobs, active_job, questions, added>>
  BY DEF RunNext, managerVars
<1>4. current_task[j] \in Nat /\ Len(Tasks[j]) \in Nat /\ current_task[j] <= Len(Tasks[j])
  BY JobAssumption DEF Typed, Reached
<1>5. CASE current_task[j] = Len(Tasks[j])
  <2> DEFINE e == [op |-> "jobDone", job |-> j, task |-> 0, res |-> "ok"]
             f == [op |-> "unlink", job |-> j, task |-> 0, res |-> "ok"]
  <2>1. resident_tasks[j] = <<>>
    BY DEF Typed
  <2>2. /\ status' = [status EXCEPT ![j] = "FINISHED"] /\ up' /\ open' = open
        /\ calls' = <<e, f>> \o Tail(calls)
    <3>1. ~(current_task[j] > Len(Tasks[j])) /\ ~(current_task[j] < Len(Tasks[j]))
      BY <1>4, <1>5
    <3>2. e = Call("jobDone", j, 0, "ok") /\ f = Call("unlink", j, 0, "ok")
      BY DEF Call
    <3> HIDE DEF e, f
    <3> QED
      BY <1>1, <1>5, <2>1, <3>1, <3>2 DEF RunNext, Then
  <2>3. status'[j] = "FINISHED" /\ \A k \in Jobs : k # j => status'[k] = status[k]
    BY <2>2 DEF Typed
  <2>4. e \in Calls /\ f \in Calls
    BY DEF Calls, Ops, Results3
  <2>5. HeadOk(e)' /\ Inert(f)'
    BY <1>2, <1>3, <2>2, <2>3 DEF HeadOk, Live, Inert
  <2>6. \A d \in Calls : Inert(d) => Inert(d)'
    BY <2>3, InertStays
  <2> HIDE DEF e, f
  <2>7. calls' \in Seq(Calls) /\ CallsInOrder'
    BY <1>1, <2>2, <2>4, <2>5, <2>6, OrderPushedTwo
  <2>8. Typed'
    BY <1>3, <2>2, <2>7 DEF Typed
  <2>9. Queued'
    BY <1>2, <1>3, <2>3 DEF Queued, Typed
  <2> QED
    BY <1>2, <1>3, <2>2, <2>3, <2>7, <2>8, <2>9 DEF OneOpen, OneInProgress, Asked, Reached
<1>6. CASE current_task[j] < Len(Tasks[j])
  <2> DEFINE t == current_task[j] + 1
  <2>1. status' = status /\ RunTask(j, t)
    BY <1>4, <1>6 DEF RunNext
  <2>2. t \in Nat /\ t \in Indexes(j)
    BY <1>4, <1>6 DEF Indexes
  <2>3. \A d \in Calls : Inert(d) => Inert(d)'
    BY <2>1, InertStays
  <2>4. CASE open' = [open EXCEPT ![j] = @ \cup {t}] /\ Then(<<>>)
    <3>1. up' /\ calls' = Tail(calls)
      BY <1>1, <2>4, Popped DEF Then, Typed
    <3>2. calls' \in Seq(Calls) /\ CallsInOrder'
      BY <1>1, <2>3, <3>1, OrderPopped
    <3>3. open'[j] = {t} /\ open' \in [Jobs -> SUBSET Nat] /\ \A k \in Jobs : k # j => open'[k] = {}
      BY <1>2, <2>2, <2>4 DEF Typed
    <3>4. OneOpen'
      BY <1>2, <1>3, <1>6, <2>1, <3>3 DEF OneOpen
    <3> QED
      BY <1>3, <2>1, <3>1, <3>2, <3>3, <3>4 DEF Typed, OneInProgress, Asked, Reached, Queued
  <2>5. ASSUME NEW res \in Results3, open' = open, Then(<<Reports(j, t, res)>>)
        PROVE  Inv'
    <3> PICK u \in Nat : u = t
      BY <2>2
    <3> DEFINE e == [op |-> "taskCallback", job |-> j, task |-> u, res |-> res]
    <3>1. up' /\ calls' = <<e>> \o Tail(calls)
      BY <1>1, <2>5 DEF Then, Reports, Call
    <3>2. e \in Calls
      BY DEF Calls, Ops
    <3>3. HeadOk(e)'
      BY <1>2, <1>3, <1>6, <2>1, <2>5 DEF HeadOk, Live
    <3> HIDE DEF e
    <3>4. calls' \in Seq(Calls) /\ CallsInOrder'
      BY <1>1, <2>3, <3>1, <3>2, <3>3, OrderPushed
    <3> QED
      BY <1>3, <2>1, <2>5, <3>1, <3>4 DEF Typed, OneOpen, OneInProgress, Asked, Reached, Queued
  <2> QED
    BY <2>1, <2>4, <2>5 DEF RunTask, Results3
<1> QED
  BY <1>4, <1>5, <1>6

LEMMA UnlinkKeeps ==
    ASSUME Inv, NEW j \in Jobs, Unlink(j)
    PROVE  Inv'
<1> USE DEF Inv
<1>1. calls # <<>> /\ up /\ \E d \in Calls : d = Head(calls) /\ d.op = "unlink" /\ HeadOk(d)
  BY HeadCall DEF Unlink
<1>2. status[j] = "FINISHED"
  BY <1>1 DEF HeadOk, Inert, Unlink
<1>3. /\ linked' = [linked EXCEPT ![j] = FALSE] /\ up' /\ calls' = Tail(calls)
      /\ UNCHANGED <<status, current_task, resident_tasks, open, active_jobs, active_job, questions, added>>
  BY <1>1, Popped DEF Unlink, Then, taskVars, managerVars, Typed
<1>4. calls' \in Seq(Calls) /\ CallsInOrder'
  BY <1>1, <1>3, OrderPopped, InertStays
<1>5. \A k \in Jobs : k # j => linked'[k] = linked[k]
  BY <1>3 DEF Typed
<1> QED
  BY <1>2, <1>3, <1>4, <1>5 DEF Typed, OneOpen, OneInProgress, Asked, Reached, Queued

LEMMA TaskCallbackKeeps ==
    ASSUME Inv, NEW j \in Jobs, TaskCallback(j)
    PROVE  Inv'
<1> USE DEF Inv
<1>1. calls # <<>> /\ up /\ \E d \in Calls : d = Head(calls) /\ d.op = "taskCallback" /\ HeadOk(d)
  BY HeadCall DEF TaskCallback
<1> PICK c \in Calls : c = Head(calls) /\ c.op = "taskCallback" /\ HeadOk(c)
  BY <1>1
<1>2. /\ c.job = j /\ j = active_job /\ questions = 0 /\ linked[j] /\ status[j] = "IN_PROGRESS"
      /\ \A k \in Jobs : open[k] = {}
      /\ c.task = current_task[j] + 1 /\ current_task[j] < Len(Tasks[j])
  BY DEF HeadOk, Live, Inert, TaskCallback
<1>3. UNCHANGED <<current_task, resident_tasks, linked, open, active_jobs, active_job, questions, added>>
  BY DEF TaskCallback, managerVars, taskVars
<1> DEFINE e == [c EXCEPT !.op = "goOn"]
           f == [c EXCEPT !.op = "jobDone"]
<1>4. /\ e \in Calls /\ e.op = "goOn" /\ e.job = j /\ e.task = c.task /\ e.res = c.res
      /\ f \in Calls /\ f.op = "jobDone" /\ f.job = j /\ f.task = c.task /\ f.res = c.res
  BY <1>2 DEF Calls, Ops
<1>5. CASE c.res = "ok"
  <2>1. up' /\ calls' = <<e>> \o Tail(calls) /\ status' = status
    BY <1>1, <1>5 DEF TaskCallback, Then
  <2> HIDE DEF e, f
  <2>2. HeadOk(e)'
    BY <1>2, <1>3, <1>4, <2>1 DEF HeadOk, Live
  <2>3. calls' \in Seq(Calls) /\ CallsInOrder'
    BY <1>1, <1>4, <2>1, <2>2, OrderPushed, InertStays
  <2> QED
    BY <1>3, <2>1, <2>3 DEF Typed, OneOpen, OneInProgress, Asked, Reached, Queued
<1>6. CASE c.res # "ok"
  <2>1. up' /\ calls' = <<f, e>> \o Tail(calls) /\ status' = [status EXCEPT ![j] = "FAILED"]
    BY <1>1, <1>2, <1>6 DEF TaskCallback, Then
  <2> HIDE DEF e, f
  <2>2. status'[j] = "FAILED" /\ \A k \in Jobs : k # j => status'[k] = status[k]
    BY <2>1 DEF Typed
  <2>3. HeadOk(f)' /\ Inert(e)'
    BY <1>2, <1>3, <1>4, <1>6, <2>2 DEF HeadOk, Live, Inert
  <2>4. \A d \in Calls : Inert(d) => Inert(d)'
    BY <1>2, <2>2, InertStays
  <2>5. calls' \in Seq(Calls) /\ CallsInOrder'
    BY <1>1, <1>4, <2>1, <2>3, <2>4, OrderPushedTwo
  <2>6. Queued'
    BY <1>2, <1>3, <2>2 DEF Queued, Typed
  <2> QED
    BY <1>2, <1>3, <2>1, <2>2, <2>5, <2>6 DEF Typed, OneOpen, OneInProgress, Asked, Reached
<1> QED
  BY <1>5, <1>6

LEMMA GoOnKeeps ==
    ASSUME Inv, NEW j \in Jobs, GoOn(j)
    PROVE  Inv'
<1> USE DEF Inv
<1>1. calls # <<>> /\ up /\ \E d \in Calls : d = Head(calls) /\ d.op = "goOn" /\ HeadOk(d)
  BY HeadCall DEF GoOn
<1> PICK c \in Calls : c = Head(calls) /\ c.op = "goOn" /\ HeadOk(c)
  BY <1>1
<1>2. /\ UNCHANGED <<status, linked, open, active_jobs, active_job, questions, added>>
      /\ c.job = j
  BY DEF GoOn, managerVars, taskVars
<1>3. UNCHANGED resident_tasks
  BY DEF GoOn, Typed, ToSet
<1>4. \A d \in Calls : Inert(d) => Inert(d)'
  BY <1>2, InertStays
<1>5. CASE c.res # "ok"
  <2>1. up' /\ calls' = Tail(calls) /\ current_task' = current_task
    BY <1>1, <1>5, Popped DEF GoOn, Advances, Then, Typed
  <2>2. calls' \in Seq(Calls) /\ CallsInOrder'
    BY <1>1, <1>4, <2>1, OrderPopped
  <2> QED
    BY <1>2, <1>3, <2>1, <2>2 DEF Typed, OneOpen, OneInProgress, Asked, Reached, Queued
<1>6. CASE c.res = "ok"
  <2>1. /\ j = active_job /\ questions = 0 /\ linked[j] /\ status[j] = "IN_PROGRESS"
        /\ \A k \in Jobs : open[k] = {}
        /\ current_task[j] < Len(Tasks[j])
    BY <1>2, <1>6 DEF HeadOk, Live, Inert
  <2> DEFINE e == [op |-> "runNext", job |-> j, task |-> 0, res |-> "ok"]
  <2>2. /\ up' /\ calls' = <<e>> \o Tail(calls)
        /\ current_task' = [current_task EXCEPT ![j] = @ + 1]
    BY <1>1, <1>6 DEF GoOn, Advances, Then, RunsNext, Call
  <2>3. /\ current_task'[j] = current_task[j] + 1 /\ current_task' \in [Jobs -> Nat]
        /\ \A k \in Jobs : k # j => current_task'[k] = current_task[k]
    BY <2>2 DEF Typed
  <2>4. e \in Calls /\ HeadOk(e)'
    BY <1>2, <2>1 DEF Calls, Ops, Results3, HeadOk, Live
  <2> HIDE DEF e
  <2>5. calls' \in Seq(Calls) /\ CallsInOrder'
    BY <1>1, <1>4, <2>2, <2>4, OrderPushed
  <2>6. Queued'
    BY <1>2, <2>1, <2>3 DEF Queued, Typed
  <2>7. Reached'
    <3>1. current_task[j] \in Nat /\ Len(Tasks[j]) \in Nat
      BY JobAssumption DEF Typed
    <3> QED
      BY <2>1, <2>3, <3>1 DEF Reached
  <2> QED
    BY <1>2, <1>3, <2>1, <2>2, <2>3, <2>5, <2>6, <2>7 DEF Typed, OneOpen, OneInProgress, Asked
<1> QED
  BY <1>5, <1>6

LEMMA AbortNextKeeps ==
    ASSUME Inv, NEW j \in Jobs, AbortNext(j)
    PROVE  Inv'
<1> USE DEF Inv
<1>1. calls # <<>> /\ up /\ \E d \in Calls : d = Head(calls) /\ d.op = "abortNext" /\ HeadOk(d)
  BY HeadCall DEF AbortNext
<1>2. Head(calls).task \in Nat
  BY <1>1 DEF Calls
<1>3. /\ calls' = Tail(calls)
      /\ UNCHANGED <<status, current_task, resident_tasks, linked, open, active_jobs, active_job, questions, up, added>>
  <2>1. UNCHANGED <<status, current_task, resident_tasks, linked, active_jobs, active_job, questions, up, added>>
    BY DEF AbortNext, jobVars, managerVars
  <2>2. resident_tasks[j] = <<>> /\ Len(resident_tasks[j]) = 0
    BY DEF Typed
  <2>3. Head(calls).task \in Nat /\ Head(calls).task > 0
    BY <1>1, <1>2 DEF HeadOk, Inert
  <2>4. ~(Head(calls).task <= Len(resident_tasks[j]))
    BY <2>2, <2>3
  <2> QED
    BY <2>1, <2>4 DEF AbortNext, taskVars
<1>4. calls' \in Seq(Calls) /\ CallsInOrder'
  BY <1>1, <1>3, OrderPopped, InertStays
<1> QED
  BY <1>3, <1>4 DEF Typed, OneOpen, OneInProgress, Asked, Reached, Queued

LEMMA TaskEndsKeeps ==
    ASSUME Inv, NEW j \in Jobs, NEW t \in Indexes(j), NEW res \in Results3, TaskEnds(j, t, res)
    PROVE  Inv'
<1> USE DEF Inv
<1>1. calls = <<>> /\ up /\ t \in open[j] /\ t \in Nat
  BY JobAssumption DEF TaskEnds, Idle, Indexes
<1>2. /\ status[j] = "IN_PROGRESS" /\ open[j] = {t} /\ t = current_task[j] + 1
      /\ current_task[j] < Len(Tasks[j])
  BY <1>1 DEF OneOpen
<1>3. j = active_job /\ linked[j] /\ \A k \in Jobs : k # j => open[k] = {}
  BY <1>2 DEF OneInProgress, OneOpen
<1>4. questions = 0
  BY <1>2, <1>3 DEF Asked, Typed
<1> DEFINE e == [op |-> "taskCallback", job |-> j, task |-> t, res |-> res]
<1>5. /\ calls' = <<e>> /\ open' = [open EXCEPT ![j] = @ \ {t}]
      /\ UNCHANGED <<status, current_task, resident_tasks, linked, active_jobs, active_job, questions, up, added>>
  BY DEF TaskEnds, Reports, Call, jobVars, managerVars
<1>6. open' \in [Jobs -> SUBSET Nat] /\ \A k \in Jobs : open'[k] = {}
  BY <1>2, <1>3, <1>5 DEF Typed
<1>7. e \in Calls /\ HeadOk(e)'
  BY <1>1, <1>2, <1>3, <1>4, <1>5, <1>6 DEF Calls, Ops, HeadOk, Live
<1> HIDE DEF e
<1>8. calls' \in Seq(Calls) /\ CallsInOrder'
  BY <1>5, <1>7, OrderBegun
<1> QED
  BY <1>5, <1>6, <1>8 DEF Typed, OneOpen, OneInProgress, Asked, Reached, Queued

LEMMA CancelKeeps ==
    ASSUME Inv, InLine, NEW j \in Jobs, Cancel(j)
    PROVE  Inv'
<1> USE DEF Inv
<1>1. /\ calls = <<>> /\ up /\ status[j] = "IN_PROGRESS" /\ j \in Cancelable
      /\ UNCHANGED <<status, current_task, resident_tasks, linked, active_jobs, active_job, questions, up, added>>
  BY DEF Cancel, Idle, jobVars, managerVars
<1>2. j = active_job /\ linked[j] /\ \A k \in Jobs : k # j => open[k] = {}
  BY <1>1 DEF OneInProgress, OneOpen
<1>3. questions = 0
  BY <1>1, <1>2 DEF Asked, Typed
<1>4. current_task[j] \in Nat /\ Len(Tasks[j]) \in Nat
  BY JobAssumption DEF Typed
<1> PICK t \in Nat : t = current_task[j] + 1
  BY <1>4
<1>5. open[j] = {} \/ open[j] = {t}
  BY DEF OneOpen
<1> DEFINE e == [op |-> "taskCallback", job |-> j, task |-> t, res |-> "hard"]
           f == [op |-> "abortNext", job |-> j, task |-> 1, res |-> "ok"]
<1>6. e \in Calls /\ f \in Calls /\ Inert(f) /\ Inert(f)' /\ HeadOk(f)'
  BY DEF Calls, Ops, Results3, Inert, HeadOk
<1>7. CASE calls' = <<f>> /\ open' = open
  <2>1. calls' \in Seq(Calls) /\ CallsInOrder'
    BY <1>6, <1>7 DEF CallsInOrder
  <2> QED
    BY <1>1, <1>7, <2>1 DEF Typed, OneOpen, OneInProgress, Asked, Reached, Queued
<1>8. CASE /\ current_task[j] < Len(Tasks[j]) /\ calls' = <<e>> \o <<f>>
           /\ open' = [open EXCEPT ![j] = @ \ {t}]
  <2>1. open' \in [Jobs -> SUBSET Nat] /\ \A k \in Jobs : open'[k] = {}
    BY <1>2, <1>5, <1>8 DEF Typed
  <2>2. HeadOk(e)'
    BY <1>1, <1>2, <1>3, <1>8, <2>1 DEF HeadOk, Live
  <2> HIDE DEF e, f
  <2>3. calls' \in Seq(Calls) /\ DOMAIN calls' = 1..2 /\ calls'[1] = e /\ calls'[2] = f
    BY <1>6, <1>8, Pair
  <2>4. \A i \in DOMAIN calls' : i > 1 => i = 2
    BY <2>3
  <2>5. CallsInOrder'
    BY <1>6, <2>2, <2>3, <2>4 DEF CallsInOrder
  <2> QED
    BY <1>1, <2>1, <2>3, <2>5 DEF Typed, OneOpen, OneInProgress, Asked, Reached, Queued
<1>9. CASE current_task[j] < Len(Tasks[j])
  <2>1. t \in Indexes(j) /\ Tasks[j][t] # "ask"
    BY <1>1, <1>4, <1>9 DEF Indexes, InLine
  <2>2. AbortTask(j, t, <<f>>)
    BY <1>9 DEF Cancel, Call
  <2>3. Tasks[j][t] = "download" => calls' = <<f>> /\ open' = open
    BY <2>2 DEF AbortTask
  <2>4. Tasks[j][t] # "download" => calls' = <<e>> \o <<f>> /\ open' = [open EXCEPT ![j] = @ \ {t}]
    <3> SUFFICES ASSUME Tasks[j][t] # "download"
                 PROVE  calls' = <<e>> \o <<f>> /\ open' = [open EXCEPT ![j] = @ \ {t}]
      OBVIOUS
    <3>1. calls' = <<Reports(j, t, "hard")>> \o <<f>> /\ open' = [open EXCEPT ![j] = @ \ {t}]
      BY <2>1, <2>2 DEF AbortTask
    <3>2. Reports(j, t, "hard") = e
      BY DEF Reports, Call
    <3> HIDE DEF e, f
    <3>3. calls' = <<e>> \o <<f>>
      BY <3>1, <3>2
    <3> QED
      BY <3>1, <3>3
  <2> QED
    BY <1>7, <1>8, <1>9, <2>3, <2>4
<1>10. CASE ~(current_task[j] < Len(Tasks[j]))
  BY <1>7, <1>10 DEF Cancel, Call, taskVars
<1> QED
  BY <1>9, <1>10

-----------------------------------------------------------------------------
(***************************************************************************)
(* The invariant, and the theorems.                                        *)
(***************************************************************************)
LEMMA SameKeeps ==
    ASSUME Inv, UNCHANGED <<jobVars, open, managerVars, calls, up, added>>
    PROVE  Inv'
<1>1. UNCHANGED <<status, current_task, resident_tasks, linked, open, active_jobs, active_job,
                  questions, calls, up, added>>
  BY DEF jobVars, managerVars
<1>2. Typed' /\ CallsInOrder'
  BY <1>1 DEF Inv, Typed, CallsInOrder, HeadOk, Inert, Live
<1> QED
  BY <1>1, <1>2 DEF Inv, OneOpen, OneInProgress, Asked, Reached, Queued

LEMMA EndsSomehowKeeps ==
    ASSUME Inv, InLine, NEW j \in Jobs, NEW t \in Indexes(j), EndsSomehow(j, t)
    PROVE  Inv'
BY TaskEndsKeeps DEF EndsSomehow, Results3

LEMMA AnswerKeeps ==
    ASSUME Inv, InLine, Answer
    PROVE  Inv'
<1>1. CASE Retry \/ GiveUp
  BY <1>1, RetryKeeps, GiveUpKeeps
<1>2. ASSUME NEW j \in Jobs, NEW t \in Indexes(j), HoldQuestion(j, t)
      PROVE  Inv'
  BY <1>2, SameKeeps DEF HoldQuestion
<1> QED
  BY <1>1, <1>2, EndsSomehowKeeps DEF Answer

LEMMA NextKeeps ==
    ASSUME InLine, Inv, [Next]_vars
    PROVE  Inv'
<1>1. CASE Step
  BY <1>1, KickKeeps, JobDoneKeeps, RunNextKeeps, UnlinkKeeps, TaskCallbackKeeps, GoOnKeeps,
     AbortNextKeeps DEF Step, Results3
<1>2. CASE Answer
  BY <1>2, AnswerKeeps
<1>3. CASE User
  BY <1>3, AddJobKeeps, CancelWaitingKeeps, CancelKeeps DEF User
<1>4. ASSUME NEW j \in Jobs, Proceed(j)
      PROVE  Inv'
  <2>1. \A t \in Indexes(j) : ~StaysResident(j, t)
    BY DEF InLine, StaysResident
  <2> QED
    BY <1>4, <2>1, EndsSomehowKeeps DEF Proceed
<1>5. CASE UNCHANGED vars
  BY <1>5, SameKeeps DEF vars, taskVars
<1> QED
  BY <1>1, <1>2, <1>3, <1>4, <1>5 DEF Next

-----------------------------------------------------------------------------
(***************************************************************************)
(* A job that has finished.  It says so where no task is left, and only a  *)
(* live call gets a job on, which is in progress then.                     *)
(***************************************************************************)
Finished == \A j \in Jobs : status[j] = "FINISHED" => current_task[j] = Len(Tasks[j])

LEMMA FinishedKept ==
    ASSUME Inv, InLine, Finished, [Next]_vars
    PROVE  Finished'
<1> SUFFICES ASSUME NEW k \in Jobs, status'[k] = "FINISHED"
             PROVE  current_task'[k] = Len(Tasks[k])
  BY DEF Finished
<1>1. status[k] = "FINISHED" => current_task[k] = Len(Tasks[k])
  BY DEF Finished
<1>2. status \in [Jobs -> {"NOT_STARTED", "IN_PROGRESS", "FINISHED", "FAILED"}]
  BY DEF Inv, Typed
<1>3. CASE UNCHANGED vars
  BY <1>1, <1>3 DEF vars, jobVars
<1>4. CASE User
  BY <1>1, <1>4 DEF User, AddJob, CancelWaiting, Cancel, jobVars
<1>5. CASE Answer
  <2>1. status'[k] = "FINISHED" => status[k] = "FINISHED"
    BY <1>2, <1>5 DEF Answer, Retry, GiveUp, HoldQuestion, EndsSomehow, TaskEnds, Raises, jobVars
  <2>2. UNCHANGED current_task
    BY <1>5 DEF Answer, Retry, GiveUp, HoldQuestion, EndsSomehow, TaskEnds, jobVars
  <2> QED
    BY <1>1, <2>1, <2>2
<1>6. ASSUME NEW j \in Jobs, Proceed(j)
      PROVE  current_task'[k] = Len(Tasks[k])
  <2>1. \A t \in Indexes(j) : ~StaysResident(j, t)
    BY DEF InLine, StaysResident
  <2>2. UNCHANGED <<status, current_task>>
    BY <1>6, <2>1 DEF Proceed, EndsSomehow, TaskEnds, jobVars
  <2> QED
    BY <1>1, <2>2
<1>7. CASE Kick
  <2>1. status'[k] = "FINISHED" => status[k] = "FINISHED"
    BY <1>2, <1>7 DEF Kick
  <2>2. UNCHANGED current_task
    BY <1>7 DEF Kick
  <2> QED
    BY <1>1, <2>1, <2>2
<1>8. ASSUME NEW res \in Results3, JobDone(res)
      PROVE  current_task'[k] = Len(Tasks[k])
  BY <1>1, <1>8 DEF JobDone, jobVars
<1>9. ASSUME NEW j \in Jobs, RunNext(j)
      PROVE  current_task'[k] = Len(Tasks[k])
  <2>1. UNCHANGED current_task
    BY <1>9 DEF RunNext
  <2>2. \/ status' = status
        \/ current_task[j] = Len(Tasks[j]) /\ status' = [status EXCEPT ![j] = "FINISHED"]
    BY <1>9 DEF RunNext
  <2> QED
    BY <1>1, <1>2, <2>1, <2>2
<1>10. ASSUME NEW j \in Jobs, Unlink(j) \/ AbortNext(j)
       PROVE  current_task'[k] = Len(Tasks[k])
  <2>1. UNCHANGED <<status, current_task>>
    BY <1>10 DEF Unlink, AbortNext, jobVars
  <2> QED
    BY <1>1, <2>1
<1>11. ASSUME NEW j \in Jobs, TaskCallback(j)
       PROVE  current_task'[k] = Len(Tasks[k])
  <2>1. UNCHANGED current_task
    BY <1>11 DEF TaskCallback
  <2>2. status' = status \/ status' = [status EXCEPT ![j] = "FAILED"]
    BY <1>11 DEF TaskCallback
  <2> QED
    BY <1>1, <1>2, <2>1, <2>2
<1>12. ASSUME NEW j \in Jobs, GoOn(j)
       PROVE  current_task'[k] = Len(Tasks[k])
  <2>1. PICK c \in Calls : c = Head(calls) /\ c.op = "goOn" /\ HeadOk(c)
    BY <1>12, HeadCall DEF GoOn, Inv
  <2>2. UNCHANGED status /\ c.job = j
    BY <1>12, <2>1 DEF GoOn
  <2>3. CASE c.res # "ok"
    <3>1. UNCHANGED current_task
      BY <1>12, <2>1, <2>3 DEF GoOn, Advances
    <3> QED
      BY <1>1, <2>2, <3>1
  <2>4. CASE c.res = "ok"
    <3>1. status[j] = "IN_PROGRESS"
      BY <2>1, <2>2, <2>4 DEF HeadOk, Live, Inert
    <3>2. current_task' = [current_task EXCEPT ![j] = @ + 1]
      BY <1>12, <2>1, <2>4 DEF GoOn, Advances
    <3>3. k # j /\ current_task'[k] = current_task[k]
      BY <2>2, <3>1, <3>2 DEF Inv, Typed
    <3> QED
      BY <1>1, <2>2, <3>3
  <2> QED
    BY <2>3, <2>4
<1> QED
  BY <1>3, <1>4, <1>5, <1>6, <1>7, <1>8, <1>9, <1>10, <1>11, <1>12 DEF Next, Step, Results3

-----------------------------------------------------------------------------
\* Jobs whose tasks stay in line are worked on one after the other, whatever
\* fails, is cancelled, retried or given up.
THEOREM JobsOneAfterAnother ==
    ASSUME InLine
    PROVE  Spec => []OneAfterAnother
<1>1. Inv => OneAfterAnother
  BY DEF Inv, OneOpen, OneInProgress, OneAfterAnother, Works
<1> QED
  BY <1>1, InitInv, NextKeeps, PTL DEF Spec

\* No callback of theirs raises an exception: no answer comes for a job that is
\* not there, nothing is called that is not set, no task beyond the last is run.
THEOREM JobsNeverRaise ==
    ASSUME InLine
    PROVE  Spec => []NeverRaises
<1>1. Inv => NeverRaises
  BY DEF Inv, NeverRaises
<1> QED
  BY <1>1, InitInv, NextKeeps, PTL DEF Spec

\* A job that says it has finished has: every one of its tasks has been run to
\* its end and none runs on, whatever failed and was retried on the way.
THEOREM FinishedJobsAreDone ==
    ASSUME InLine
    PROVE  Spec => []FinishedMeansDone
<1>1. Init => Inv /\ Finished
  BY InitInv DEF Init, Finished
<1>2. (Inv /\ Finished) /\ [Next]_vars => (Inv /\ Finished)'
  BY NextKeeps, FinishedKept
<1>3. Inv /\ Finished => FinishedMeansDone
  BY DEF Inv, Typed, OneOpen, Finished, FinishedMeansDone, Works
<1> QED
  BY <1>1, <1>2, <1>3, PTL DEF Spec
=============================================================================
