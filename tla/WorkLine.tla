------------------------------ MODULE WorkLine ------------------------------
(***************************************************************************)
(* The work line of one issue: the worktree and branch its agents share,   *)
(* from the approval to the merge, and the record work-lines.json keeps of *)
(* it.  The implementation, the fixes, the reviews, the verdicts and the   *)
(* resolutions of conflicts all run in that worktree; the verdict's        *)
(* webhook merges the pull request and removes the worktree, while the     *)
(* worker may still wait for the agent that asked for it.                  *)
(*                                                                         *)
(* The jobs and the webhooks are those of JobLifecycle and ReviewLoop,     *)
(* reduced to one pull request of dani's own, with one review round, whose *)
(* verdicts approve.                                                       *)
(***************************************************************************)
EXTENDS Integers, Sequences, FiniteSets

CONSTANTS
  MaxJobs,   \* bound: rows of jobs.json
  MaxRuns,   \* bound: agents started
  MaxEvents  \* bound: how many of Events, each once, come in one behaviour

ASSUME ConstantsAssumption == MaxJobs \in Nat /\ MaxRuns \in Nat /\ MaxEvents \in Nat

Jobs == 1..MaxJobs
Runs == 1..MaxRuns
Stages == {"implementation", "fix", "review_round", "final_verdict", "merge_conflict_resolution"}
Events == {"approval", "openedAgain", "request", "conflict", "error", "retry", "failure",
           "gitFailure", "redeliver", "crash"}

VARIABLES
  \* jobs.json: stage, status, the latest session, and of the metadata whether it names
  \* the line and which agent runs it lists
  njobs, stage, status, session, hasLine, runIds,
  \* work-lines.json: the record, and the record as the worker read it
  record, read,
  \* the repository
  tree, branch,
  \* the worker: its queue, where it is, its job, the job's metadata as it holds it and
  \* the agent it started
  queue, pc, cur, held, run,
  \* agents: of which job each is, which are alive, which jobs have their side effect
  jobOf, alive, posted,
  \* the handler: where it is, whose message it handles, the runs in the metadata of that
  \* job as it was read; processed-events.json
  hstep, hjob, source, processed,
  \* GitHub: the pull request, whose verdict merged it, webhooks on the way
  pr, mergedBy, mail,
  \* history: a handler was cut short; the events so far
  cut, happened

rowVars == <<njobs, stage, status, session, hasLine, runIds>>
recordVars == <<record, read>>
gitVars == <<tree, branch>>
workVars == <<pc, cur, held, run>>
agentVars == <<jobOf, alive, posted>>
stepVars == <<hstep, hjob, source>>
handlerVars == <<stepVars, processed>>
githubVars == <<pr, mergedBy>>
historyVars == <<cut, happened>>
vars == <<rowVars, recordVars, gitVars, queue, workVars, agentVars, handlerVars, githubVars,
          mail, historyVars>>

Up == pc # "down"
NoRecord == [status |-> "absent", ids |-> {}, retryable |-> TRUE, cleanup |-> "preserved"]
NoHeld == [line |-> FALSE, ids |-> {}]

\* Something that need not happen; Calm is a step without it.  A conflict comes on top of
\* the bound.
Bounded(e) == e \notin happened /\ (e = "conflict" \/ Cardinality(happened \ {"conflict"}) < MaxEvents)

Happens(e) ==
  /\ Bounded(e)
  /\ happened' = happened \cup {e} /\ UNCHANGED cut
Calm == UNCHANGED historyVars

(***************************************************************************)
(* The stores.                                                             *)
(***************************************************************************)
\* storage.update_work_line and upsert_work_line: only the second makes a record.
UpdateRecord(new) == record' = IF record.status # "absent" THEN new ELSE record
UpsertRecord(new) == record' = new

\* A job without a line has nothing to update.
UpdateLine(line, new) == IF line THEN UpdateRecord(new) ELSE UNCHANGED record

Enqueue(s, line, ids) ==
  /\ njobs < MaxJobs /\ njobs' = njobs + 1
  /\ stage' = [stage EXCEPT ![njobs + 1] = s]
  /\ status' = [status EXCEPT ![njobs + 1] = "queued"]
  /\ hasLine' = [hasLine EXCEPT ![njobs + 1] = line]
  /\ runIds' = [runIds EXCEPT ![njobs + 1] = ids]
  /\ queue' = Append(queue, njobs + 1)
  /\ UNCHANGED session

(***************************************************************************)
(* The worker: a job of the line from the queue to its last write.  At(p)  *)
(* is a step from p that leaves the handlers and GitHub alone.             *)
(***************************************************************************)
At(p) == pc = p /\ UNCHANGED <<njobs, stage, posted, handlerVars, githubVars, mail>>

Take ==
  /\ At("idle") /\ queue # <<>>
  /\ cur' = Head(queue) /\ queue' = Tail(queue)
  /\ held' = [line |-> hasLine[Head(queue)], ids |-> runIds[Head(queue)]]
  /\ pc' = "start"
  /\ UNCHANGED <<status, session, hasLine, runIds, recordVars, gitVars, run, jobOf, alive, historyVars>>

\* An attempt: only an implementation, first or fix, prepares the worktree.
Prepares(j) == stage[j] \in {"implementation", "fix"}

Skip ==
  /\ At("start") /\ ~Prepares(cur) /\ pc' = "launch" /\ Calm
  /\ UNCHANGED <<status, session, hasLine, runIds, recordVars, gitVars, queue, cur, held, run, jobOf, alive>>

\* GitWorkLineManager.prepare: a worktree that exists is taken as it is.  A git command
\* that fails may leave the branch without the worktree.
Prepare ==
  /\ At("start") /\ Prepares(cur)
  /\ \/ pc' = "read" /\ tree' = TRUE /\ branch' = TRUE /\ Calm
     \/ pc' = "failed" /\ ~tree /\ branch' \in {branch, TRUE} /\ UNCHANGED tree /\ Happens("gitFailure")
  /\ UNCHANGED <<status, session, hasLine, runIds, recordVars, queue, cur, held, run, jobOf, alive>>

\* _ensure_work_line, as far as the row: what the record says wins over the metadata.
ReadLine ==
  /\ At("read") /\ pc' = "write" /\ Calm
  /\ read' = record
  /\ held' = [line |-> TRUE, ids |-> held.ids \cup record.ids]
  /\ hasLine' = [hasLine EXCEPT ![cur] = TRUE]
  /\ runIds' = [runIds EXCEPT ![cur] = held'.ids]
  /\ UNCHANGED <<status, session, record, gitVars, queue, cur, run, jobOf, alive>>

\* The upsert: the whole record, from what was read.
WriteLine ==
  /\ At("write") /\ pc' = "launch" /\ Calm
  /\ UpsertRecord([read EXCEPT !.status = "worktree_ready", !.ids = held.ids])
  /\ read' = NoRecord
  /\ UNCHANGED <<status, session, hasLine, runIds, gitVars, queue, cur, held, run, jobOf, alive>>

\* The agent starts in the line's worktree, a job without a line in the main checkout.
Launch ==
  /\ At("launch") /\ Calm
  /\ \/ /\ held.line => tree
        /\ Len(jobOf) < MaxRuns /\ jobOf' = Append(jobOf, cur)
        /\ run' = Len(jobOf') /\ alive' = alive \cup {run'} /\ pc' = "record"
     \/ held.line /\ ~tree /\ pc' = "failed" /\ UNCHANGED <<jobOf, run, alive>>
  /\ UNCHANGED <<status, session, hasLine, runIds, recordVars, gitVars, queue, cur, held>>

RecordRun ==
  /\ At("record") /\ pc' = "link" /\ Calm
  /\ UpdateLine(held.line, [record EXCEPT !.status = "agent_running", !.retryable = TRUE,
                                          !.ids = @ \cup {run}])
  /\ UNCHANGED <<status, session, hasLine, runIds, read, gitVars, queue, cur, held, run, jobOf, alive>>

LinkRow ==
  /\ At("link") /\ pc' = "wait" /\ Calm
  /\ held' = [held EXCEPT !.ids = @ \cup {run}]
  /\ status' = [status EXCEPT ![cur] = "launched"]
  /\ session' = [session EXCEPT ![cur] = run]
  /\ hasLine' = [hasLine EXCEPT ![cur] = held.line]
  /\ runIds' = [runIds EXCEPT ![cur] = held'.ids]
  /\ UNCHANGED <<recordVars, gitVars, queue, cur, run, jobOf, alive>>

\* The wait ends and the agent with it: with its side effect seen, for another attempt
\* after a capacity error, or with a failure.
WaitEnds ==
  /\ At("wait") /\ alive' = alive \ {run} /\ run' = 0
  /\ \/ cur \in posted /\ pc' = "completed" /\ status' = [status EXCEPT ![cur] = "launched"] /\ Calm
     \/ pc' = "start" /\ status' = [status EXCEPT ![cur] = "retrying"] /\ Happens("retry")
     \/ pc' = "failed" /\ UNCHANGED status /\ Happens("failure")
  /\ UNCHANGED <<session, hasLine, runIds, recordVars, gitVars, queue, cur, held, jobOf>>

\* First the line, then the row.
EndLine ==
  /\ \/ At("completed") /\ pc' = "completedRow"
        /\ UpdateLine(held.line, [record EXCEPT !.status = "agent_completed"])
     \/ At("failed") /\ pc' = "failedRow"
        /\ UpdateLine(held.line, [record EXCEPT !.status = "failed", !.retryable = TRUE])
  /\ Calm
  /\ UNCHANGED <<status, session, hasLine, runIds, read, gitVars, queue, cur, held, run, jobOf, alive>>

\* Mutant of EndRow: the row is given the status of the line.
EndRowLikeLine ==
  /\ \/ At("completedRow") /\ status' = [status EXCEPT ![cur] = "agent_completed"]
     \/ At("failedRow") /\ status' = [status EXCEPT ![cur] = "failed"]
  /\ runIds' = [runIds EXCEPT ![cur] = held.ids] /\ hasLine' = [hasLine EXCEPT ![cur] = held.line]
  /\ pc' = "idle" /\ cur' = 0 /\ held' = NoHeld /\ Calm
  /\ UNCHANGED <<session, recordVars, gitVars, queue, run, jobOf, alive>>

EndRow ==
  /\ \/ At("completedRow") /\ status' = [status EXCEPT ![cur] = "completed"]
     \/ At("failedRow") /\ status' = [status EXCEPT ![cur] = "failed"]
  /\ runIds' = [runIds EXCEPT ![cur] = held.ids] /\ hasLine' = [hasLine EXCEPT ![cur] = held.line]
  /\ pc' = "idle" /\ cur' = 0 /\ held' = NoHeld /\ Calm
  /\ UNCHANGED <<session, recordVars, gitVars, queue, run, jobOf, alive>>

(***************************************************************************)
(* Agents and GitHub.                                                      *)
(***************************************************************************)
\* The side effect a job is for: the pull request, or a signed comment on it.  Agents that
\* a crash left without a process to wait for them may still post; one that has ended is
\* one that posts nothing more.
Post ==
  /\ \E s \in alive : LET j == jobOf[s] IN
       /\ j \notin posted /\ posted' = posted \cup {j} /\ mail' = mail \cup {j}
       /\ IF stage[j] = "implementation" THEN pr = "none" /\ pr' = "open" ELSE UNCHANGED pr
  /\ UNCHANGED <<rowVars, recordVars, gitVars, queue, workVars, jobOf, alive, handlerVars, mergedBy, historyVars>>

Redeliver ==
  /\ \E j \in posted \ mail :
       /\ mail' = mail \cup {j}
       /\ Happens(IF stage[j] = "implementation" THEN "openedAgain" ELSE "redeliver")
  /\ UNCHANGED <<rowVars, recordVars, gitVars, queue, workVars, agentVars, handlerVars, githubVars>>

(***************************************************************************)
(* The handlers, one at a time on the event loop.  Handles(s) is a step    *)
(* that leaves the worker alone, Idle the end of a handler.                *)
(***************************************************************************)
Handles(s) == Up /\ hstep = s /\ UNCHANGED <<workVars, agentVars, read>>
Onward(s) == hstep' = s /\ UNCHANGED <<hjob, source>>
Idle == hstep' = "idle" /\ hjob' = 0 /\ source' = {}
Receive(j) == j \in mail /\ mail' = mail \ {j}

HasExistingImplementationJob ==
  \E j \in 1..njobs : Prepares(j) /\ status[j] \in {"queued", "launched", "completed"}

\* The approval's comment; again for somebody who approves once more.
Approve ==
  /\ Handles("idle") /\ ~HasExistingImplementationJob
  /\ IF njobs = 0 THEN Calm ELSE Happens("approval")
  /\ Enqueue("implementation", FALSE, {})
  /\ UNCHANGED <<record, gitVars, handlerVars, githubVars, mail>>

\* The pull request opened: the job of its signature is completed, whoever runs it and
\* whatever has become of the pull request since.
CompleteImplementation ==
  /\ Handles("idle") /\ Calm
  /\ \E j \in mail :
       /\ stage[j] = "implementation" /\ Receive(j)
       /\ hstep' = "opened" /\ hjob' = j /\ UNCHANGED source
       /\ status' = [status EXCEPT ![j] = "completed"]
  /\ UNCHANGED <<njobs, stage, session, hasLine, runIds, record, gitVars, queue, processed, githubVars>>

\* _automation_lineage_metadata: the runs, but for the latest of a job that is no
\* implementation.
LineageIds(j) == IF Prepares(j) THEN runIds[j] ELSE runIds[j] \ {session[j]}

QueueReview ==
  /\ Handles("opened") /\ Idle /\ Calm
  /\ Enqueue("review_round", hasLine[hjob], LineageIds(hjob))
  /\ UNCHANGED <<record, gitVars, processed, githubVars, mail>>

\* A comment counts once; on an error nothing comes of it.
CommentStages == {"fix", "review_round", "merge_conflict_resolution"}

\* A fix comes after the only review round.
FollowUp(j) == IF stage[j] = "review_round" THEN "fix" ELSE "final_verdict"

HandleComment ==
  /\ Handles("idle")
  /\ \E j \in mail :
       /\ stage[j] \in CommentStages /\ Receive(j)
       /\ processed' = processed \cup {j}
       /\ \/ j \notin processed /\ pr = "open" /\ Calm
             /\ Enqueue(FollowUp(j), hasLine[j], LineageIds(j))
          \/ (j \in processed \/ pr # "open") /\ Calm /\ UNCHANGED <<rowVars, queue>>
          \/ j \notin processed /\ Happens("error") /\ UNCHANGED <<rowVars, queue>>
  /\ UNCHANGED <<record, gitVars, stepVars, githubVars>>

\* Somebody asks for a conflict to be resolved: a job without a line.
HandleConflictRequest ==
  /\ Handles("idle") /\ pr = "open" /\ Happens("request")
  /\ ~\E j \in 1..njobs : /\ stage[j] = "merge_conflict_resolution"
                          /\ status[j] \in {"queued", "launched", "retrying"}
  /\ Enqueue("merge_conflict_resolution", FALSE, {})
  /\ UNCHANGED <<record, gitVars, handlerVars, githubVars, mail>>

\* Mutant of NewVerdict: a verdict counts as often as it is delivered.
EveryVerdict(j) == pr = "open"

NewVerdict(j) == j \notin processed /\ pr = "open"

ReceiveVerdict ==
  /\ Handles("idle") /\ Calm
  /\ \E j \in mail :
       /\ stage[j] = "final_verdict" /\ Receive(j)
       /\ IF NewVerdict(j) THEN hstep' = "merge" /\ hjob' = j /\ source' = runIds[j]
          ELSE UNCHANGED stepVars
  /\ UNCHANGED <<rowVars, record, gitVars, queue, processed, githubVars>>

\* It merges, finds a conflict, or raises, before the merge or after it; then the handler
\* is over, and a verdict delivered again finds the pull request merged.
Merge ==
  /\ Handles("merge")
  /\ \/ /\ pr = "open" /\ pr' = "merged" /\ mergedBy' = hjob
        /\ (Onward("merged") /\ Calm) \/ (Idle /\ Happens("error"))
     \/ UNCHANGED githubVars /\ Onward("conflict") /\ Happens("conflict")
     \/ UNCHANGED githubVars /\ Idle /\ Happens("error")
  /\ UNCHANGED <<rowVars, record, gitVars, queue, processed, mail>>

RecordConflict ==
  /\ Handles("conflict") /\ Onward("resolve") /\ Calm
  /\ UpdateLine(hasLine[hjob], [record EXCEPT !.retryable = TRUE])
  /\ UNCHANGED <<rowVars, gitVars, queue, processed, githubVars, mail>>

QueueResolution ==
  /\ Handles("resolve") /\ Onward("resolving") /\ Calm
  /\ Enqueue("merge_conflict_resolution", hasLine[hjob], source)
  /\ UNCHANGED <<record, gitVars, processed, githubVars, mail>>

RecordProcessed ==
  /\ \/ Handles("resolving") /\ Idle
     \/ Handles("merged") /\ Onward("recordMerged")
  /\ Calm /\ processed' = processed \cup {hjob}
  /\ UNCHANGED <<rowVars, record, gitVars, queue, githubVars, mail>>

RecordMerged ==
  /\ Handles("recordMerged") /\ Calm
  /\ IF hasLine[hjob] THEN Onward("remove") ELSE Idle
  /\ UpdateLine(hasLine[hjob], [record EXCEPT !.status = "merged", !.retryable = FALSE])
  /\ UNCHANGED <<rowVars, gitVars, queue, processed, githubVars, mail>>

\* _cleanup_work_line_after_merge: the worktree, then the branch, then the metadata, as
\* the handler read it, and the record.  Where git knows no repository nothing is removed
\* and nothing recorded.
RemoveWorktree ==
  /\ Handles("remove")
  /\ \/ Onward("branch") /\ tree' = FALSE /\ Calm
     \/ Idle /\ UNCHANGED tree /\ Happens("gitFailure")
     \/ tree /\ Onward("cleanup_failed") /\ UNCHANGED tree /\ Happens("gitFailure")
  /\ UNCHANGED <<rowVars, record, branch, queue, processed, githubVars, mail>>

\* Mutant of DeleteBranch: a branch that stays is no error.
DeleteBranchUnchecked ==
  /\ Handles("branch") /\ Onward("cleaned")
  /\ \/ ~tree /\ branch' = FALSE /\ Calm
     \/ branch /\ UNCHANGED branch /\ Happens("gitFailure")
  /\ UNCHANGED <<rowVars, record, tree, queue, processed, githubVars, mail>>

\* git does not delete a branch that a worktree has checked out.
DeleteBranch ==
  /\ Handles("branch")
  /\ \/ ~tree /\ Onward("cleaned") /\ branch' = FALSE /\ Calm
     \/ tree /\ Onward("cleanup_failed") /\ UNCHANGED branch /\ Calm
     \/ branch /\ Onward("cleanup_failed") /\ UNCHANGED branch /\ Happens("gitFailure")
  /\ UNCHANGED <<rowVars, record, tree, queue, processed, githubVars, mail>>

RecordCleanup ==
  /\ Up /\ hstep \in {"cleaned", "cleanup_failed"} /\ Handles(hstep) /\ Idle /\ Calm
  /\ UpdateLine(hasLine[hjob], [record EXCEPT !.cleanup = hstep])
  /\ runIds' = [runIds EXCEPT ![hjob] = source]
  /\ UNCHANGED <<njobs, stage, status, session, hasLine, gitVars, queue, processed, githubVars, mail>>

(***************************************************************************)
(* The process dies, its agents do not; then it starts again.              *)
(***************************************************************************)
Crash ==
  /\ Up /\ Bounded("crash")
  /\ happened' = happened \cup {"crash"}
  /\ pc' = "down" /\ cur' = 0 /\ run' = 0 /\ held' = NoHeld /\ read' = NoRecord
  /\ queue' = <<>> /\ Idle /\ cut' = (cut \/ hstep # "idle")
  /\ UNCHANGED <<rowVars, record, gitVars, agentVars, processed, githubVars, mail>>

\* A launched row whose side effect is there, and is seen, is completed; its line is
\* left as it is.
Restart ==
  /\ pc = "down" /\ pc' = "idle" /\ Calm
  /\ \E done \in SUBSET {j \in posted : status[j] = "launched"} :
       status' = [j \in Jobs |-> IF j \in done THEN "completed"
                                 ELSE IF status[j] = "launched" THEN "queued" ELSE status[j]]
  /\ LET pending == {j \in 1..njobs : status'[j] \in {"queued", "retrying"}}
     IN \E q \in [1..Cardinality(pending) -> pending] :
          (\A i, k \in DOMAIN q : i < k => q[i] < q[k]) /\ queue' = q
  /\ UNCHANGED <<njobs, stage, session, hasLine, runIds, recordVars, gitVars, cur, held, run,
                 agentVars, handlerVars, githubVars, mail>>

(***************************************************************************)
(* The specification.                                                      *)
(***************************************************************************)
Init ==
  /\ njobs = 0
  /\ stage = [j \in Jobs |-> "none"] /\ status = [j \in Jobs |-> "none"]
  /\ session = [j \in Jobs |-> 0] /\ hasLine = [j \in Jobs |-> FALSE]
  /\ runIds = [j \in Jobs |-> {}]
  /\ record = NoRecord /\ read = NoRecord /\ tree = FALSE /\ branch = FALSE
  /\ queue = <<>> /\ pc = "idle" /\ cur = 0 /\ held = NoHeld /\ run = 0
  /\ jobOf = <<>> /\ alive = {} /\ posted = {}
  /\ hstep = "idle" /\ hjob = 0 /\ source = {} /\ processed = {}
  /\ pr = "none" /\ mergedBy = 0 /\ mail = {} /\ cut = FALSE /\ happened = {}

Next ==
  \/ Take \/ Skip \/ Prepare \/ ReadLine \/ WriteLine \/ Launch \/ RecordRun \/ LinkRow
  \/ WaitEnds \/ EndLine \/ EndRow
  \/ Post \/ Redeliver
  \/ Approve \/ CompleteImplementation \/ QueueReview \/ HandleComment
  \/ HandleConflictRequest \/ ReceiveVerdict \/ Merge \/ RecordConflict
  \/ QueueResolution \/ RecordProcessed \/ RecordMerged \/ RemoveWorktree
  \/ DeleteBranch \/ RecordCleanup
  \/ Crash \/ Restart

Spec == Init /\ [][Next]_vars

(***************************************************************************)
(* Properties.                                                             *)
(***************************************************************************)
Records == [status : {"absent", "worktree_ready", "agent_running", "agent_completed", "failed", "merged"},
            ids : SUBSET Runs, retryable : BOOLEAN,
            cleanup : {"preserved", "cleaned", "cleanup_failed"}]

RowType ==
  /\ njobs \in 0..MaxJobs
  /\ stage \in [Jobs -> Stages \cup {"none"}]
  /\ status \in [Jobs -> {"none", "queued", "launched", "retrying", "completed", "failed"}]
  /\ session \in [Jobs -> 0..MaxRuns] /\ hasLine \in [Jobs -> BOOLEAN]
  /\ runIds \in [Jobs -> SUBSET Runs]

LineType == record \in Records /\ read \in Records /\ tree \in BOOLEAN /\ branch \in BOOLEAN

WorkerType ==
  /\ queue \in Seq(Jobs) /\ cur \in 0..MaxJobs /\ run \in 0..MaxRuns
  /\ pc \in {"down", "idle", "start", "read", "write", "launch", "record", "link", "wait",
             "completed", "completedRow", "failed", "failedRow"}
  /\ held \in [line : BOOLEAN, ids : SUBSET Runs]
  /\ cur = 0 <=> pc \in {"idle", "down"}

AgentType ==
  /\ jobOf \in Seq(Jobs) /\ alive \subseteq 1..Len(jobOf) /\ posted \subseteq Jobs
  /\ mail \subseteq Jobs /\ processed \subseteq Jobs

HandlerType ==
  /\ hstep \in {"idle", "opened", "merge", "conflict", "resolve", "resolving", "merged", "recordMerged",
                "remove", "branch", "cleaned", "cleanup_failed"}
  /\ hjob \in 0..MaxJobs /\ source \subseteq Runs
  /\ pr \in {"none", "open", "merged"} /\ mergedBy \in 0..MaxJobs
  /\ cut \in BOOLEAN /\ happened \subseteq Events
  /\ hjob = 0 <=> hstep = "idle"

\* Types, and what the fields say of each other: the worker has a job exactly while it is
\* at one (_run_job), a handler a message exactly while it runs.
TypeOK == RowType /\ LineType /\ WorkerType /\ AgentType /\ HandlerType

\* While an agent of the line works, its worktree is there, unless its own verdict has
\* been carried out.  What can take it away: a second approval while a fix is retried, an
\* opening delivered again, whose reviews go their own way, a verdict cut short by a crash.
AgentsKeepTheirTree ==
  pc = "wait" /\ held.line /\ happened \cap {"approval", "openedAgain"} = {} /\ ~cut
    => tree \/ cur = mergedBy

\* What the record says of the cleanup after a merge by a verdict of the line is so, once
\* the handler is through: cleaned, and neither worktree nor branch is left; failed, and the
\* branch is; or nothing, and then both are there as the agents left them, because GitHub's
\* answer or git's was lost (merge_pull_request, _cleanup_work_line_after_merge).
MergedIsCleaned ==
  pr = "merged" /\ hasLine[mergedBy] /\ hstep = "idle" /\ ~cut /\ happened \cap {"approval", "openedAgain"} = {}
    => \/ record.cleanup = "cleaned" /\ ~tree /\ ~branch
       \/ record.cleanup = "cleanup_failed" /\ branch
       \/ record.cleanup = "preserved" /\ tree /\ branch /\ happened \cap {"error", "gitFailure"} # {}

=============================================================================
