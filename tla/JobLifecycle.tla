--------------------------- MODULE JobLifecycle ---------------------------
(***************************************************************************)
(* The life of a job in dani: a webhook or an operator enqueues it, the    *)
(* repository's worker thread runs agent sessions for it until GitHub      *)
(* shows the comment or pull request the job stands for, and its row in    *)
(* jobs.json ends in a terminal status.  Missing issue comments get a      *)
(* recovery job, capacity errors are retried, and a process that crashed   *)
(* rehydrates the rows it finds when it starts again.                      *)
(*                                                                         *)
(* One repository and one issue.  Jobs and sessions are numbered in the    *)
(* order their rows are created; 0 stands for "none".  Every write of a    *)
(* JSON file is a step of its own, so a crash or another thread can come   *)
(* between any two of them.                                                *)
(***************************************************************************)
EXTENDS Integers, Sequences, FiniteSets

CONSTANTS
  Arrivals,       \* stages the webhook handlers enqueue from outside
  MaxArrivals,    \* bound: jobs enqueued from outside
  MaxJobs,        \* bound: rows of jobs.json
  MaxSessions,    \* bound: rows of sessions.json
  MaxAttempts,    \* attempts per run of a job (4 in the code)
  MaxPosts,       \* bound: copies of one signed comment or pull request
  MaxCrashes,     \* bound: process crashes
  MaxRestarts,    \* bound: restart_issue calls
  MaxTroubles,    \* bound: crashes and restarts together
  RecoveryCrashes \* bound: whether a crash may come once there is a recovery job

IssueCommentStages == {"issue_request", "issue_followup"}
RecoveryStage == "issue_comment_recovery"
PullRequestCommentStages == {"review_round", "merge_conflict_resolution", "final_verdict"}
Stages == IssueCommentStages \cup PullRequestCommentStages
            \cup {RecoveryStage, "implementation"}

ASSUME ConstantsAssumption ==
  /\ Arrivals \subseteq Stages \ {RecoveryStage}
  /\ MaxJobs \in Nat \ {0} /\ MaxSessions \in Nat \ {0} /\ MaxAttempts \in Nat \ {0}
  /\ MaxPosts \in Nat \ {0}
  /\ MaxArrivals \in Nat /\ MaxCrashes \in Nat /\ MaxRestarts \in Nat

ASSUME TroublesAssumption == MaxTroubles \in Nat /\ RecoveryCrashes \in BOOLEAN

\* service.py: MAX_COMMENT_RECOVERY_ATTEMPTS
MaxRecoveryAttempts == 1

Jobs == 1..MaxJobs
Sessions == 1..MaxSessions

Active == {"queued", "launched", "retrying"}      \* what a recovery or a boot takes as pending
Terminal == {"completed", "failed", "superseded"}
Statuses == Active \cup Terminal \cup {"recovering", "absent"}

VARIABLES
  \* jobs.json
  njobs, stage, source, status, sessionOf, prNumber, recoveryAttempts,
  \* sessions.json
  nsess, sessJob, sessStatus,
  \* the process: RepoQueueManager and its worker thread
  queue, pc, cur, attempt, sess, outcome, resumed, memPr,
  \* the process: DaniService.__init__ rehydrating the rows
  boot, bootSubmit, bootVerify, bootJob, sweepSeen, sweepTodo,
  \* the process: restart_issue, and the pull_request_opened handler
  restart, restartTodo, restartJob, opened,
  \* GitHub and the agents a crash leaves behind
  comments, prs, prEvents, orphans,
  \* history and bounds
  epoch, submitted, arrivals, crashes, restarts

jobVars == <<njobs, stage, source, status, sessionOf, prNumber, recoveryAttempts>>
sessVars == <<nsess, sessJob, sessStatus>>
workVars == <<pc, cur, attempt, sess, outcome, resumed>>
bootVars == <<boot, bootSubmit, bootVerify, bootJob, sweepSeen, sweepTodo>>
restartVars == <<restart, restartTodo, restartJob>>
worldVars == <<comments, prs, prEvents, orphans>>
boundVars == <<epoch, arrivals, crashes, restarts>>
queueVars == <<queue, memPr, submitted>>
vars == <<jobVars, sessVars, workVars, queueVars, bootVars, restartVars, opened, worldVars,
          boundVars>>

Up == boot # "down"
Serving == boot = "done"          \* the server starts once the service is built

(***************************************************************************)
(* What a job must leave on GitHub: a comment or a pull request that       *)
(* carries the signature of job e[1].  A recovery job posts the comment of *)
(* its source job; an implementation opens a pull request unless its       *)
(* record already knows one, then it comments on it.                       *)
(***************************************************************************)
EffectOf(j, knowsPr) ==
  IF stage[j] = RecoveryStage THEN <<source[j], "comment">>
  ELSE <<j, IF stage[j] = "implementation" /\ ~knowsPr THEN "pr" ELSE "comment">>

Seen(e) == IF e[2] = "pr" THEN prs[e[1]] > 0 ELSE comments[e[1]] > 0

\* Copies of an issue comment are deleted down to the oldest; each delete may fail.
PruneDuplicates(j) ==
  IF stage[j] \in IssueCommentStages \cup {RecoveryStage}
  THEN LET t == EffectOf(j, FALSE)[1] IN
       \E left \in 1..comments[t] : comments' = [comments EXCEPT ![t] = left]
  ELSE UNCHANGED comments

\* An agent posts what its prompt asks for, once or more.
Post(e) ==
  \/ /\ e[2] = "comment" /\ comments[e[1]] < MaxPosts
     /\ comments' = [comments EXCEPT ![e[1]] = @ + 1]
     /\ UNCHANGED <<prs, prEvents>>
  \/ /\ e[2] = "pr" /\ prs[e[1]] < MaxPosts
     /\ prs' = [prs EXCEPT ![e[1]] = @ + 1]
     /\ prEvents' = prEvents \cup {e[1]}
     /\ UNCHANGED comments

(***************************************************************************)
(* Writes to the rows.                                                     *)
(***************************************************************************)
SetStatus(j, s) == status' = [status EXCEPT ![j] = s]

\* A new row, and the job at the end of the worker's queue.
CreateJob(st, src) ==
  /\ njobs < MaxJobs
  /\ njobs' = njobs + 1
  /\ stage' = [stage EXCEPT ![njobs + 1] = st]
  /\ source' = [source EXCEPT ![njobs + 1] = src]
  /\ status' = [status EXCEPT ![njobs + 1] = "queued"]
  /\ queue' = Append(queue, njobs + 1) /\ submitted' = submitted \cup {njobs + 1}
  /\ UNCHANGED <<sessionOf, prNumber, recoveryAttempts, memPr>>

\* _reconcile_orphan_session: whatever the row says now is overwritten.
ReconcileSession(s, st) ==
  sessStatus' = IF s = 0 THEN sessStatus ELSE [sessStatus EXCEPT ![s] = st]

(***************************************************************************)
(* The worker thread: RepoQueueManager._worker around DaniService._run_job.*)
(***************************************************************************)
Goto(p) == pc' = p

\* _run_job returned: the thread waits for the next job.
Done ==
  /\ pc' = "idle" /\ cur' = 0 /\ attempt' = 0
  /\ sess' = 0 /\ outcome' = "none" /\ resumed' = FALSE

\* Mutant of Dequeue: the status is not read again.
DequeueUnchecked ==
  /\ Up /\ pc = "idle" /\ queue # <<>>
  /\ queue' = Tail(queue)
  /\ pc' = "attempt" /\ cur' = Head(queue) /\ attempt' = 1
  /\ UNCHANGED <<sess, outcome, resumed, jobVars, sessVars, memPr, submitted, bootVars,
                 restartVars, opened, worldVars, boundVars>>

\* A superseded job is dropped; the status is read once, here.
Dequeue ==
  /\ Up /\ pc = "idle" /\ queue # <<>>
  /\ queue' = Tail(queue)
  /\ IF status[Head(queue)] = "superseded"
     THEN UNCHANGED workVars
     ELSE /\ pc' = "attempt" /\ cur' = Head(queue) /\ attempt' = 1
          /\ UNCHANGED <<sess, outcome, resumed>>
  /\ UNCHANGED <<jobVars, sessVars, memPr, submitted, bootVars, restartVars, opened, worldVars,
                 boundVars>>

WorkerFrame == Up /\ UNCHANGED <<cur, queueVars, bootVars, restartVars, opened, boundVars>>

\* The runner starts an agent; a recovery job first tries to resume the
\* source job's session, when the runner can.
Launch ==
  /\ WorkerFrame /\ pc \in {"attempt", "relaunch"}
  /\ \E resume \in (IF pc = "attempt" /\ stage[cur] = RecoveryStage THEN BOOLEAN ELSE {FALSE}) :
       /\ resumed' = resume
       /\ \/ Goto("create") /\ UNCHANGED outcome
          \/ Goto(IF resume THEN "recheck" ELSE "failed") /\ outcome' = "error"
  /\ UNCHANGED <<jobVars, sessVars, attempt, sess, worldVars>>

CreateSession ==
  /\ WorkerFrame /\ pc = "create" /\ nsess < MaxSessions
  /\ nsess' = nsess + 1 /\ sess' = nsess + 1
  /\ sessJob' = [sessJob EXCEPT ![nsess + 1] = cur]
  /\ sessStatus' = [sessStatus EXCEPT ![nsess + 1] = "launched"]
  /\ Goto("link")
  /\ UNCHANGED <<jobVars, attempt, outcome, resumed, worldVars>>

LinkSession ==
  /\ WorkerFrame /\ pc = "link"
  /\ SetStatus(cur, "launched")
  /\ sessionOf' = [sessionOf EXCEPT ![cur] = sess]
  /\ Goto("wait")
  /\ UNCHANGED <<njobs, stage, source, prNumber, recoveryAttempts, sessVars,
                 attempt, sess, outcome, resumed, worldVars>>

\* The agent runs from its launch until the runner's wait returns.
AgentRuns == pc \in {"create", "link", "wait"}

AgentPost ==
  /\ Up /\ AgentRuns /\ Post(EffectOf(cur, memPr[cur]))
  /\ UNCHANGED <<jobVars, sessVars, workVars, queueVars, bootVars, restartVars, opened,
                 orphans, boundVars>>

\* The agent ended, hit a capacity error, or failed or timed out and was killed.
WaitEnds ==
  /\ WorkerFrame /\ pc = "wait"
  /\ \/ Goto("verify") /\ UNCHANGED outcome
     \/ Goto("finalize") /\ outcome' \in {"transient", "error"}
  /\ UNCHANGED <<jobVars, sessVars, attempt, sess, resumed, worldVars>>

\* Mutant of VerifySideEffect: GitHub's silence is taken for the effect.
VerifySilence ==
  /\ WorkerFrame /\ pc = "verify"
  /\ outcome' \in {"ok", "missing"} /\ Goto("finalize")
  /\ UNCHANGED <<jobVars, sessVars, attempt, sess, resumed, worldVars>>

VerifySideEffect ==
  /\ WorkerFrame /\ pc = "verify"
  /\ LET e == EffectOf(cur, memPr[cur]) IN
     \/ Seen(e) /\ PruneDuplicates(cur) /\ outcome' = "ok"
     \/ ~Seen(e) /\ outcome' = "missing" /\ UNCHANGED comments
     \/ outcome' = "error" /\ UNCHANGED comments            \* GitHub did not answer
  /\ Goto("finalize")
  /\ UNCHANGED <<jobVars, sessVars, attempt, sess, resumed, prs, prEvents, orphans>>

\* Where a session's outcome leads once its row is closed.
AfterSession(o) ==
  IF o = "ok" THEN (IF stage[cur] = RecoveryStage THEN "succeed" ELSE "relink")
  ELSE IF resumed THEN "recheck"
  ELSE IF o = "transient" THEN "capacity" ELSE "failed"

\* Mutant of FinalizeSession: only a session that went well is closed.
FinalizeCompleted ==
  /\ WorkerFrame /\ pc = "finalize"
  /\ sessStatus' = IF outcome = "ok" THEN [sessStatus EXCEPT ![sess] = "completed"] ELSE sessStatus
  /\ Goto(AfterSession(outcome))
  /\ UNCHANGED <<jobVars, nsess, sessJob, attempt, sess, outcome, resumed, worldVars>>

\* close_session may raise: the row is written all the same, and its error takes
\* the place of the outcome, so an attempt fails although its effect was seen, and
\* a capacity error or a missing comment becomes an error like any other.
FinalizeSession ==
  /\ WorkerFrame /\ pc = "finalize"
  /\ sessStatus' = [sessStatus EXCEPT ![sess] = IF outcome = "ok" THEN "completed" ELSE "failed"]
  /\ \/ Goto(AfterSession(outcome)) /\ UNCHANGED outcome
     \/ outcome' = "error" /\ Goto(AfterSession("error"))
  /\ UNCHANGED <<jobVars, nsess, sessJob, attempt, sess, resumed, worldVars>>

\* A recovery job whose resumed session failed: done if the comment is there
\* after all, else one fresh launch in the same attempt.
RecheckRecovery ==
  /\ WorkerFrame /\ pc = "recheck"
  /\ \/ Seen(EffectOf(cur, FALSE)) /\ PruneDuplicates(cur) /\ Goto("succeed")
     \/ Goto("relaunch") /\ UNCHANGED comments              \* not there, or GitHub did not answer
  /\ UNCHANGED <<jobVars, sessVars, attempt, sess, outcome, resumed, prs, prEvents, orphans>>

\* The job's row is written as launched once more after a normal attempt.
RelinkSession ==
  /\ WorkerFrame /\ pc = "relink"
  /\ SetStatus(cur, "launched")
  /\ sessionOf' = [sessionOf EXCEPT ![cur] = sess]
  /\ Goto("succeed")
  /\ UNCHANGED <<njobs, stage, source, prNumber, recoveryAttempts, sessVars,
                 attempt, sess, outcome, resumed, worldVars>>

\* _complete_comment_recovery: the source job's row first, then the job's own.
CompleteSource ==
  /\ WorkerFrame /\ pc = "succeed" /\ stage[cur] = RecoveryStage
  /\ status' = [status EXCEPT ![source[cur]] = "completed"]
  /\ recoveryAttempts' = [recoveryAttempts EXCEPT ![source[cur]] = 1]
  /\ Goto("complete")
  /\ UNCHANGED <<njobs, stage, source, sessionOf, prNumber, sessVars,
                 attempt, sess, outcome, resumed, worldVars>>

WorkerReturns == Up /\ Done /\ UNCHANGED <<queueVars, bootVars, restartVars, opened, boundVars>>

CompleteJob ==
  /\ WorkerReturns
  /\ \/ pc = "complete"
     \/ pc = "succeed" /\ stage[cur] # RecoveryStage
  /\ SetStatus(cur, "completed")
  /\ UNCHANGED <<njobs, stage, source, sessionOf, prNumber, recoveryAttempts, sessVars,
                 worldVars>>

\* _handle_transient_failure looks at GitHub first: the effect may be there.
CapacityButPosted ==
  /\ WorkerFrame /\ pc = "capacity"
  /\ Seen(EffectOf(cur, memPr[cur])) /\ PruneDuplicates(cur)
  /\ Goto("succeed")
  /\ UNCHANGED <<jobVars, sessVars, attempt, sess, outcome, resumed, prs, prEvents, orphans>>

CapacityRetry ==
  /\ WorkerFrame /\ pc = "capacity" /\ attempt < MaxAttempts
  /\ SetStatus(cur, "retrying")
  /\ attempt' = attempt + 1 /\ outcome' = "none" /\ sess' = 0
  /\ Goto("attempt")
  /\ UNCHANGED <<njobs, stage, source, sessionOf, prNumber, recoveryAttempts, sessVars,
                 resumed, worldVars>>

CapacityExhausted ==
  /\ Up /\ pc = "capacity" /\ attempt >= MaxAttempts
  /\ SetStatus(cur, "failed")
  /\ IF stage[cur] = RecoveryStage
     THEN Goto("failed") /\ UNCHANGED <<cur, attempt, sess, outcome, resumed>>
     ELSE Done
  /\ UNCHANGED <<njobs, stage, source, sessionOf, prNumber, recoveryAttempts, sessVars, queueVars,
                 bootVars, restartVars, opened, worldVars, boundVars>>

RecoveriesOf(j) == {r \in 1..njobs : stage[r] = RecoveryStage /\ source[r] = j}

\* Mutant of HasActiveRecovery: only a recovery job already running is seen.
HasLaunchedRecovery(j) == \E r \in RecoveriesOf(j) : status[r] = "launched"

\* Only the latest recovery job of j is looked at.
HasActiveRecovery(j) ==
  \E r \in RecoveriesOf(j) :
    (\A q \in RecoveriesOf(j) : q <= r) /\ status[r] \in Active

CanRecover(j) ==
  /\ stage[j] \in IssueCommentStages /\ outcome = "missing"
  /\ HasActiveRecovery(j) \/ recoveryAttempts[j] < MaxRecoveryAttempts

\* The attempt raised: the job fails, unless only the issue comment is missing.
FailJob ==
  /\ WorkerReturns
  /\ pc = "failed" /\ stage[cur] # RecoveryStage /\ ~CanRecover(cur)
  /\ SetStatus(cur, "failed")
  /\ UNCHANGED <<njobs, stage, source, sessionOf, prNumber, recoveryAttempts, sessVars,
                 worldVars>>

JoinRecovery ==
  /\ WorkerReturns
  /\ pc = "failed" /\ CanRecover(cur) /\ HasActiveRecovery(cur)
  /\ SetStatus(cur, "recovering")
  /\ UNCHANGED <<njobs, stage, source, sessionOf, prNumber, recoveryAttempts, sessVars,
                 worldVars>>

EnqueueRecovery ==
  /\ Up /\ pc = "failed" /\ CanRecover(cur) /\ ~HasActiveRecovery(cur)
  /\ CreateJob(RecoveryStage, cur)
  /\ Goto("markRecovering")
  /\ UNCHANGED <<sessVars, cur, attempt, sess, outcome, resumed, bootVars, restartVars, opened,
                 worldVars, boundVars>>

MarkRecovering ==
  /\ WorkerReturns /\ pc = "markRecovering"
  /\ SetStatus(cur, "recovering")
  /\ recoveryAttempts' = [recoveryAttempts EXCEPT ![cur] = 1]
  /\ UNCHANGED <<njobs, stage, source, sessionOf, prNumber, sessVars, worldVars>>

\* Mutant of FailRecovery: the source job keeps waiting.
FailRecoveryOnly ==
  /\ WorkerReturns /\ pc = "failed" /\ stage[cur] = RecoveryStage
  /\ SetStatus(cur, "failed")
  /\ UNCHANGED <<njobs, stage, source, sessionOf, prNumber, recoveryAttempts, sessVars, worldVars>>

\* _fail_comment_recovery: the recovery job's row first, then the source's.
FailRecovery ==
  /\ WorkerFrame /\ pc = "failed" /\ stage[cur] = RecoveryStage
  /\ SetStatus(cur, "failed")
  /\ Goto("failSource")
  /\ UNCHANGED <<njobs, stage, source, sessionOf, prNumber, recoveryAttempts, sessVars,
                 attempt, sess, outcome, resumed, worldVars>>

FailSource ==
  /\ WorkerReturns /\ pc = "failSource"
  /\ status' = [status EXCEPT ![source[cur]] = "failed"]
  /\ recoveryAttempts' = [recoveryAttempts EXCEPT ![source[cur]] = 1]
  /\ UNCHANGED <<njobs, stage, source, sessionOf, prNumber, sessVars, worldVars>>

WorkerStep ==
  \/ Dequeue \/ Launch \/ CreateSession \/ LinkSession \/ WaitEnds \/ VerifySideEffect
  \/ FinalizeSession \/ RecheckRecovery \/ RelinkSession \/ CompleteSource \/ CompleteJob
  \/ CapacityButPosted \/ CapacityRetry \/ CapacityExhausted
  \/ FailJob \/ JoinRecovery \/ EnqueueRecovery \/ MarkRecovering \/ FailRecovery \/ FailSource

(***************************************************************************)
(* A crash, and the rehydration of the rows when a process starts.  The    *)
(* worker runs what is submitted while the loop is still going on.         *)
(***************************************************************************)
Crash ==
  /\ Up /\ crashes < MaxCrashes /\ crashes + restarts < MaxTroubles
  /\ RecoveryCrashes \/ \A j \in Jobs : stage[j] # RecoveryStage
  /\ crashes' = crashes + 1 /\ epoch' = nsess
  /\ orphans' = IF AgentRuns THEN orphans \cup {EffectOf(cur, memPr[cur])} ELSE orphans
  /\ queue' = <<>> /\ memPr' = [j \in Jobs |-> FALSE] /\ submitted' = {}
  /\ Done
  /\ boot' = "down" /\ bootSubmit' = {} /\ bootVerify' = {} /\ bootJob' = 0
  /\ sweepSeen' = {} /\ sweepTodo' = {}
  /\ restart' = "idle" /\ restartTodo' = {} /\ restartJob' = 0 /\ opened' = 0
  /\ UNCHANGED <<jobVars, sessVars, comments, prs, prEvents, arrivals, restarts>>

BootFrame == UNCHANGED <<nsess, sessJob, workVars, restartVars, opened, boundVars>>

\* list_jobs: the statuses the loop goes by are the ones read here.
BootStart ==
  /\ BootFrame /\ boot = "down"
  /\ bootSubmit' = {j \in 1..njobs : status[j] \in {"queued", "retrying"}}
  /\ bootVerify' = {j \in 1..njobs : status[j] = "launched"}
  /\ boot' = "scan"
  /\ UNCHANGED <<jobVars, sessStatus, queueVars, bootJob, sweepSeen, sweepTodo, worldVars>>

\* Mutant of Submit: the worker's queue never hears of the job.
SubmitLost(j) == UNCHANGED queueVars

Submit(j) ==
  /\ queue' = Append(queue, j) /\ submitted' = submitted \cup {j}
  /\ memPr' = [memPr EXCEPT ![j] = prNumber[j]]

\* The loop goes through the rows in their order.
BootNext(j) == boot = "scan" /\ \A k \in bootSubmit \cup bootVerify : j <= k

BootSubmit ==
  /\ BootFrame
  /\ \E j \in bootSubmit :
       /\ BootNext(j) /\ Submit(j)
       /\ bootSubmit' = bootSubmit \ {j}
  /\ UNCHANGED <<jobVars, sessStatus, boot, bootVerify, bootJob, sweepSeen, sweepTodo, worldVars>>

\* The effect is on GitHub: the row is completed, a recovery's source row before it.
BootVerifySeen ==
  /\ BootFrame
  /\ \E j \in bootVerify :
       /\ BootNext(j) /\ bootJob' = j
       /\ Seen(EffectOf(j, prNumber[j])) /\ PruneDuplicates(j)
       /\ IF stage[j] = RecoveryStage
          THEN /\ status' = [status EXCEPT ![source[j]] = "completed"]
               /\ recoveryAttempts' = [recoveryAttempts EXCEPT ![source[j]] = 1]
          ELSE UNCHANGED <<status, recoveryAttempts>>
  /\ boot' = "complete"
  /\ UNCHANGED <<njobs, stage, source, sessionOf, prNumber, sessStatus, queueVars, bootSubmit,
                 bootVerify, sweepSeen, sweepTodo, prs, prEvents, orphans>>

BootComplete ==
  /\ BootFrame /\ boot = "complete"
  /\ SetStatus(bootJob, "completed")
  /\ boot' = "closeCompleted"
  /\ UNCHANGED <<njobs, stage, source, sessionOf, prNumber, recoveryAttempts, sessStatus, queueVars,
                 bootSubmit, bootVerify, bootJob, sweepSeen, sweepTodo, worldVars>>

\* Mutant of BootRequeue: the job is submitted here and after its session is closed.
BootRequeueSubmits ==
  /\ BootFrame
  /\ \E j \in bootVerify :
       BootNext(j) /\ SetStatus(j, "queued") /\ bootJob' = j /\ Submit(j)
  /\ boot' = "closeRequeued"
  /\ UNCHANGED <<njobs, stage, source, sessionOf, prNumber, recoveryAttempts, sessStatus,
                 bootSubmit, bootVerify, sweepSeen, sweepTodo, worldVars>>

\* Not there, or GitHub did not answer: the job is queued again.
BootRequeue ==
  /\ BootFrame
  /\ \E j \in bootVerify :
       BootNext(j) /\ SetStatus(j, "queued") /\ bootJob' = j
  /\ boot' = "closeRequeued"
  /\ UNCHANGED <<njobs, stage, source, sessionOf, prNumber, recoveryAttempts, sessStatus, queueVars,
                 bootSubmit, bootVerify, sweepSeen, sweepTodo, worldVars>>

BootCloseSession ==
  /\ BootFrame /\ boot \in {"closeCompleted", "closeRequeued"}
  /\ ReconcileSession(sessionOf[bootJob], IF boot = "closeCompleted" THEN "completed" ELSE "failed")
  /\ IF boot = "closeRequeued" THEN Submit(bootJob) ELSE UNCHANGED queueVars
  /\ boot' = "scan" /\ bootVerify' = bootVerify \ {bootJob} /\ bootJob' = 0
  /\ UNCHANGED <<jobVars, bootSubmit, sweepSeen, sweepTodo, worldVars>>

\* _reconcile_drift_sessions_on_startup reads the sessions, then the jobs.
SweepReadSessions ==
  /\ BootFrame /\ boot = "scan" /\ bootSubmit \cup bootVerify = {}
  /\ sweepSeen' = {s \in 1..nsess : sessStatus[s] = "launched"}
  /\ boot' = "sweep"
  /\ UNCHANGED <<jobVars, sessStatus, queueVars, bootSubmit, bootVerify, bootJob, sweepTodo, worldVars>>

\* Mutant of SessionStatusFor: a session takes its job's status as it is.
SessionStatusOf(st) == st

SessionStatusFor(st) == IF st = "completed" THEN "completed" ELSE "failed"

\* Mutant of SweepReadJobs: failed and superseded jobs are not looked at.
SweepReadCompleted ==
  /\ BootFrame /\ boot = "sweep"
  /\ sweepTodo' = {<<s, "completed">> : s \in {t \in sweepSeen : status[sessJob[t]] = "completed"}}
  /\ sweepSeen' = {} /\ boot' = "sweeping"
  /\ UNCHANGED <<jobVars, sessStatus, queueVars, bootSubmit, bootVerify, bootJob, worldVars>>

SweepReadJobs ==
  /\ BootFrame /\ boot = "sweep"
  /\ sweepTodo' = {<<s, SessionStatusFor(status[sessJob[s]])>> :
                      s \in {t \in sweepSeen : status[sessJob[t]] \in Terminal}}
  /\ sweepSeen' = {}
  /\ boot' = "sweeping"
  /\ UNCHANGED <<jobVars, sessStatus, queueVars, bootSubmit, bootVerify, bootJob, worldVars>>

SweepSession ==
  /\ BootFrame /\ boot = "sweeping"
  /\ \E e \in sweepTodo :
       /\ \A f \in sweepTodo : e[1] <= f[1]
       /\ ReconcileSession(e[1], e[2])
       /\ sweepTodo' = sweepTodo \ {e}
  /\ UNCHANGED <<jobVars, queueVars, boot, bootSubmit, bootVerify, bootJob, sweepSeen, worldVars>>

BootDone ==
  /\ BootFrame /\ boot = "sweeping" /\ sweepTodo = {}
  /\ boot' = "done"
  /\ UNCHANGED <<jobVars, sessStatus, queueVars, bootSubmit, bootVerify, bootJob, sweepSeen,
                 sweepTodo, worldVars>>

BootStep ==
  \/ BootStart \/ BootSubmit \/ BootVerifySeen \/ BootComplete \/ BootRequeue \/ BootCloseSession
  \/ SweepReadSessions \/ SweepReadJobs \/ SweepSession \/ BootDone

(***************************************************************************)
(* restart_issue, on the operator's thread beside the worker.              *)
(***************************************************************************)
RestartFrame == Serving /\ UNCHANGED <<nsess, sessJob, workVars, bootVars, opened, worldVars>>

RestartBegin ==
  /\ RestartFrame /\ restart = "idle" /\ restarts < MaxRestarts /\ njobs > 0
  /\ crashes + restarts < MaxTroubles
  /\ restarts' = restarts + 1
  /\ restartTodo' = {<<j, sessionOf[j]>> : j \in 1..njobs}
  /\ restart' = "supersede"
  /\ UNCHANGED <<jobVars, sessStatus, queueVars, restartJob, epoch, arrivals, crashes>>

RestartSupersede ==
  /\ RestartFrame /\ restart = "supersede"
  /\ \E e \in restartTodo :
       /\ \A f \in restartTodo : e[1] <= f[1]
       /\ SetStatus(e[1], "superseded")
       /\ restartJob' = e[1]
  /\ restart' = "close"
  /\ UNCHANGED <<njobs, stage, source, sessionOf, prNumber, recoveryAttempts, sessStatus, queueVars,
                 restartTodo, boundVars>>

RestartCloseSession ==
  /\ RestartFrame /\ restart = "close"
  /\ \E e \in restartTodo :
       /\ e[1] = restartJob
       /\ ReconcileSession(e[2], "failed")
       /\ restartTodo' = restartTodo \ {e}
       /\ restart' = IF restartTodo = {e} THEN "enqueue" ELSE "supersede"
  /\ restartJob' = 0
  /\ UNCHANGED <<jobVars, queueVars, boundVars>>

\* The issue's title comes from its stored rows, so nothing stands in the way of the new job.
RestartEnqueue ==
  /\ RestartFrame /\ restart = "enqueue"
  /\ restart' = "idle"
  /\ CreateJob("issue_request", 0)
  /\ UNCHANGED <<sessStatus, restartTodo, restartJob, boundVars>>

RestartStep == RestartSupersede \/ RestartCloseSession \/ RestartEnqueue

(***************************************************************************)
(* Webhook handlers, one at a time on the server's event loop.             *)
(***************************************************************************)
HandlerFrame ==
  Serving /\ UNCHANGED <<sessVars, workVars, bootVars, restartVars, comments, prs, orphans,
                         epoch, crashes, restarts>>

Arrive(st) ==
  /\ HandlerFrame /\ opened = 0 /\ arrivals < MaxArrivals
  /\ arrivals' = arrivals + 1
  /\ CreateJob(st, 0)
  /\ UNCHANGED <<opened, prEvents>>

\* The signed pull request of job j was opened: its row is completed from here
\* too, whatever the worker is doing with it, then its first review is enqueued.
PullRequestOpened(j) ==
  /\ HandlerFrame /\ opened = 0 /\ j \in prEvents
  /\ SetStatus(j, "completed")
  /\ prNumber' = [prNumber EXCEPT ![j] = TRUE]
  /\ prEvents' = prEvents \ {j}
  /\ opened' = j
  /\ UNCHANGED <<njobs, stage, source, sessionOf, recoveryAttempts, queueVars, arrivals>>

EnqueueReview ==
  /\ HandlerFrame /\ opened # 0
  /\ CreateJob("review_round", 0)
  /\ opened' = 0
  /\ UNCHANGED <<prEvents, arrivals>>

(***************************************************************************)
(* Outside the process: webhooks that find no server are not redelivered,  *)
(* and agents run in sessions of their own, so they survive a crash.       *)
(***************************************************************************)
WorldFrame ==
  UNCHANGED <<jobVars, sessVars, workVars, queueVars, bootVars, restartVars, opened, boundVars>>

LoseEvent(j) ==
  /\ WorldFrame /\ ~Serving /\ j \in prEvents
  /\ prEvents' = prEvents \ {j}
  /\ UNCHANGED <<comments, prs, orphans>>

OrphanPosts(e) == WorldFrame /\ e \in orphans /\ Post(e) /\ UNCHANGED orphans

OrphanExits(e) ==
  /\ WorldFrame /\ e \in orphans
  /\ orphans' = orphans \ {e}
  /\ UNCHANGED <<comments, prs, prEvents>>

---------------------------------------------------------------------------
Init ==
  /\ njobs = 0
  /\ stage = [j \in Jobs |-> "none"] /\ source = [j \in Jobs |-> 0]
  /\ status = [j \in Jobs |-> "absent"] /\ sessionOf = [j \in Jobs |-> 0]
  /\ prNumber = [j \in Jobs |-> FALSE] /\ recoveryAttempts = [j \in Jobs |-> 0]
  /\ nsess = 0
  /\ sessJob = [s \in Sessions |-> 0] /\ sessStatus = [s \in Sessions |-> "absent"]
  /\ queue = <<>> /\ memPr = [j \in Jobs |-> FALSE] /\ submitted = {}
  /\ pc = "idle" /\ cur = 0 /\ attempt = 0 /\ sess = 0 /\ outcome = "none" /\ resumed = FALSE
  /\ boot = "down" /\ bootSubmit = {} /\ bootVerify = {} /\ bootJob = 0
  /\ sweepSeen = {} /\ sweepTodo = {}
  /\ restart = "idle" /\ restartTodo = {} /\ restartJob = 0 /\ opened = 0
  /\ comments = [j \in Jobs |-> 0] /\ prs = [j \in Jobs |-> 0] /\ prEvents = {} /\ orphans = {}
  /\ epoch = 0 /\ arrivals = 0 /\ crashes = 0 /\ restarts = 0

Next ==
  \/ WorkerStep \/ AgentPost
  \/ BootStep \/ Crash
  \/ RestartBegin \/ RestartStep
  \/ \E st \in Arrivals : Arrive(st)
  \/ \E j \in Jobs : PullRequestOpened(j) \/ LoseEvent(j)
  \/ EnqueueReview
  \/ \E e \in orphans : OrphanPosts(e) \/ OrphanExits(e)

Spec == Init /\ [][Next]_vars

\* The worker and the handlers are running threads, every wait for an agent has
\* a timeout, and a process that went down is started again.
Fairness == WF_vars(WorkerStep) /\ WF_vars(BootStep) /\ WF_vars(RestartStep) /\ WF_vars(EnqueueReview)
FairSpec == Spec /\ Fairness

---------------------------------------------------------------------------
JobRows ==
  /\ njobs \in 0..MaxJobs
  /\ stage \in [Jobs -> Stages \cup {"none"}]
  /\ source \in [Jobs -> 0..MaxJobs]
  /\ status \in [Jobs -> Statuses]
  /\ sessionOf \in [Jobs -> 0..MaxSessions]
  /\ prNumber \in [Jobs -> BOOLEAN]
  /\ recoveryAttempts \in [Jobs -> 0..MaxRecoveryAttempts]

SessionRows ==
  /\ nsess \in 0..MaxSessions
  /\ sessJob \in [Sessions -> 0..MaxJobs]
  /\ sessStatus \in [Sessions -> {"absent", "launched", "completed", "failed"}]

QueueType ==
  /\ queue \in Seq(1..njobs) /\ submitted \subseteq 1..njobs
  /\ memPr \in [Jobs -> BOOLEAN]

WorkerType ==
  /\ pc \in {"idle", "attempt", "relaunch", "create", "link", "wait", "verify", "finalize",
             "recheck", "relink", "succeed", "complete", "capacity", "failed",
             "markRecovering", "failSource"}
  /\ cur \in 0..njobs /\ attempt \in 0..MaxAttempts /\ sess \in 0..MaxSessions
  /\ outcome \in {"none", "ok", "missing", "error", "transient"} /\ resumed \in BOOLEAN

BootType ==
  /\ boot \in {"down", "scan", "complete", "closeCompleted", "closeRequeued", "sweep",
               "sweeping", "done"}
  /\ bootSubmit \subseteq 1..njobs /\ bootVerify \subseteq 1..njobs /\ bootJob \in 0..njobs
  /\ sweepSeen \subseteq Sessions /\ sweepTodo \subseteq Sessions \X {"completed", "failed"}

HandlerType ==
  /\ restart \in {"idle", "supersede", "close", "enqueue"}
  /\ restartTodo \subseteq Jobs \X (0..MaxSessions) /\ restartJob \in 0..MaxJobs
  /\ opened \in 0..MaxJobs

WorldType ==
  /\ comments \in [Jobs -> 0..MaxPosts] /\ prs \in [Jobs -> 0..MaxPosts]
  /\ prEvents \subseteq Jobs
  /\ orphans \subseteq ((0..MaxJobs) \X {"comment"}) \cup (Jobs \X {"pr"})

BoundType ==
  /\ epoch \in 0..nsess /\ arrivals \in 0..MaxArrivals
  /\ crashes \in 0..MaxCrashes /\ restarts \in 0..MaxRestarts

\* Every variable holds a value of its kind, and nothing names a row that does
\* not exist yet.
TypeOK ==
  /\ JobRows /\ SessionRows /\ QueueType /\ WorkerType
  /\ BootType /\ HandlerType /\ WorldType /\ BoundType

InQueue(j) == \E i \in DOMAIN queue : queue[i] = j

\* A pending row is never forgotten: in a running process the worker holds the
\* job, or it waits in the worker's queue, or the boot loop still has to reach
\* it (RepoQueueManager and _rehydrate_pending_jobs together).
PendingIsServed ==
  Up => \A j \in Jobs : status[j] \in Active =>
    j = cur \/ InQueue(j) \/ j \in bootSubmit \cup bootVerify

\* No job is handed to the worker twice by one process: queued rows are distinct,
\* and none is in the worker's hands or still ahead of the boot loop.
NoDoubleRun ==
  /\ \A i, k \in DOMAIN queue : queue[i] = queue[k] => i = k
  /\ \A i \in DOMAIN queue : queue[i] # cur
  /\ (bootSubmit \cup bootVerify) \cap submitted = {}
  /\ cur # 0 => cur \in submitted

\* A completed row has its comment or pull request on GitHub, whichever of the
\* worker, the rehydration, a recovery job or the webhook completed it.
CompletedMeansPosted ==
  \A j \in Jobs : status[j] = "completed" =>
    \E knowsPr \in BOOLEAN : Seen(EffectOf(j, knowsPr))

\* A session this process launched and did not close is the one the worker is
\* busy with: no path of the attempt leaves a row launched.
LaunchedIsHeld ==
  \A s \in Sessions : sessStatus[s] = "launched" /\ s > epoch =>
    s = sess /\ pc \in {"link", "wait", "verify", "finalize"}

\* When nothing crashes or supersedes, a source job waits for recovery only while
\* its recovery job is pending or the worker is about to write the source's own
\* outcome: recovering is a row no one else would ever pick up.
RecoveringIsServed ==
  crashes = 0 /\ restarts = 0 =>
    \A j \in Jobs : status[j] = "recovering" =>
      \E r \in RecoveriesOf(j) : status[r] \in Active \/ (r = cur /\ pc \in {"failed", "failSource"})

\* One missing comment gets one recovery job, crashes included (the check for an
\* existing recovery job against the row written after the enqueue).
OneRecoveryPerSource ==
  restarts = 0 => \A j \in Jobs : Cardinality(RecoveriesOf(j)) <= MaxRecoveryAttempts

\* Once rehydration is over, and no job was superseded, a session of an earlier process is still launched
\* only beside a job this process runs itself or that waits for its recovery:
\* beside a settled job the boot loop or the sweep has closed it.
SweepClosesDrift ==
  Serving /\ restarts = 0 => \A s \in 1..epoch : sessStatus[s] = "launched" =>
    \/ sessJob[s] \in submitted \/ status[sessJob[s]] = "recovering"
    \/ \E r \in submitted : source[r] = sessJob[s]

\* A superseded job is never picked up again, and its row changes only through
\* the run that was already holding it, a recovery of it (by the worker or the
\* boot loop), or its own pull request event.
SupersededLeavesQueue ==
  [][\A j \in Jobs : status[j] = "superseded" =>
       /\ cur' = j => cur = j
       /\ status'[j] # "superseded" =>
            \/ Up /\ cur # 0 /\ (j = cur \/ j = source[cur])
            \/ j \in prEvents
            \/ bootJob' # 0 /\ (j = bootJob' \/ j = source[bootJob'])]_vars

(***************************************************************************)
(* What the repository says and the code does not do.                      *)
(***************************************************************************)
\* README.md:143 counts recovering among the active statuses, and
\* service.py:94 says durable pending jobs survive a restart.
RecoveringJobsResume ==
  \A j \in Jobs : (status[j] = "recovering") ~> (status[j] \in Terminal)
===========================================================================
