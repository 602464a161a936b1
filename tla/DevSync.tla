------------------------------ MODULE DevSync ------------------------------
(***************************************************************************)
(* Every push to main is merged into the dev branch.  A webhook enqueues a *)
(* dev_sync job for the pushed commit; the repository's worker fetches,    *)
(* merges in a worktree of the job's own and pushes, and leaves a conflict *)
(* to an agent that works in the same worktree.  Other people push to both *)
(* branches meanwhile, any git command may fail, and the process may die.  *)
(*                                                                         *)
(* A commit is a number and hist[c] is the set of commits reachable from   *)
(* c, so "a is an ancestor of b" is a \in hist[b].  The rows, the queue    *)
(* and the rehydration are those of JobLifecycle, reduced to what a        *)
(* dev_sync job meets of them: no attempts, no retries, no recovery.       *)
(***************************************************************************)
EXTENDS Integers, Sequences, FiniteSets

CONSTANTS
  MaxCommits,   \* bound: commits, everybody's together
  MaxJobs,      \* bound: rows of jobs.json
  MaxEvents     \* bound: pushes of others, webhooks delivered again and crashes, together

ASSUME ConstantsAssumption == MaxCommits \in Nat \ {0} /\ MaxJobs \in Nat /\ MaxEvents \in Nat

Commits == 1..MaxCommits
Jobs == 1..MaxJobs
Pending == {"queued", "launched"}
Settled == {"completed", "failed"}

VARIABLES
  \* the remote: commits, the two branches, the webhooks of the pushes to main
  top, hist, main, dev, mail, sent,
  \* jobs.json, and in sessions.json the latest session of each job
  njobs, sha, status, session,
  \* the worker thread: where it is, its job, the outcome so far, origin/dev as it
  \* was fetched and the commit made on top of it
  queue, pc, cur, result, base, head,
  \* the jobs that have a worktree, the agents nobody waits for, a starting process
  tree, orphans, boot, todo,
  \* history: jobs whose worktree a failing git command left, jobs whose conflict
  \* handler raised in this process
  kept, escaped, crashed,
  events

remoteVars == <<top, hist, main, dev>>
mailVars == <<mail, sent>>
rowVars == <<njobs, sha, status>>
workVars == <<pc, cur, result, base, head>>
bootVars == <<boot, todo>>
noteVars == <<kept, escaped, crashed>>
vars == <<remoteVars, mailVars, rowVars, session, queue, workVars, tree, orphans, bootVars,
          noteVars, events>>

Up == boot # "down"
Serving == boot = "done"

Synced(c) == c \in hist[dev]

\* A new commit on top of others.
NewCommit(parents) ==
  /\ top < MaxCommits
  /\ top' = top + 1
  /\ hist' = [hist EXCEPT ![top + 1] = {top + 1} \cup UNION {hist[p] : p \in parents}]

Event == events < MaxEvents /\ events' = events + 1

(***************************************************************************)
(* The webhook of a push to main.                                          *)
(***************************************************************************)
\* Mutant of HasExistingJob: a sync under way is not looked at.
HasFinishedJob(c) == \E j \in 1..njobs : sha[j] = c /\ status[j] \in {"queued", "completed"}

HasExistingJob(c) == \E j \in 1..njobs : sha[j] = c /\ status[j] \in Pending \cup {"completed"}

QueueDevSync(c) ==
  /\ Serving /\ c \in mail /\ mail' = mail \ {c}
  /\ \/ HasExistingJob(c) /\ UNCHANGED <<rowVars, queue>>
     \/ /\ ~HasExistingJob(c) /\ njobs < MaxJobs
        /\ njobs' = njobs + 1
        /\ sha' = [sha EXCEPT ![njobs + 1] = c]
        /\ status' = [status EXCEPT ![njobs + 1] = "queued"]
        /\ queue' = Append(queue, njobs + 1)
  /\ UNCHANGED <<remoteVars, sent, session, workVars, tree, orphans, bootVars, noteVars, events>>

(***************************************************************************)
(* The worker.  At(p) is a step that leaves the rows alone.                *)
(***************************************************************************)
WorkerFrame == Up /\ UNCHANGED <<main, mailVars, njobs, sha, bootVars, crashed, events>>

At(p) == WorkerFrame /\ pc = p /\ UNCHANGED <<status, session, queue, cur>>

Go(p) == pc' = p /\ UNCHANGED result
End(p, r) == pc' = p /\ result' = r

\* The thread waits for the next job.
Done == pc' = "idle" /\ cur' = 0 /\ result' = "none" /\ base' = 0 /\ head' = 0

Take ==
  /\ WorkerFrame /\ pc = "idle" /\ queue # <<>> /\ Go("fetch")
  /\ cur' = Head(queue) /\ queue' = Tail(queue)
  /\ UNCHANGED <<top, hist, dev, status, session, base, head, tree, orphans, kept, escaped>>

(***************************************************************************)
(* GitDevSyncer.sync, one step per git command that can fail.              *)
(***************************************************************************)
\* Up to date already: done, without a worktree.
Fetch ==
  /\ At("fetch")
  /\ \/ Synced(sha[cur]) /\ End("row", "completed") /\ UNCHANGED base
     \/ ~Synced(sha[cur]) /\ Go("prepare") /\ base' = dev
     \/ End("row", "failed") /\ UNCHANGED base
  /\ UNCHANGED <<top, hist, dev, head, tree, orphans, kept, escaped>>

\* A worktree of an earlier run is removed, a new one added at origin/dev and a
\* branch checked out in it.  No handler cleans up after a failure here: the checkout
\* fails in the new worktree, or the old one stays and none can be added.
Prepare ==
  /\ At("prepare")
  /\ \/ Go("merge") /\ tree' = tree \cup {cur} /\ UNCHANGED kept
     \/ End("row", "failed") /\ tree' = tree \ {cur} /\ UNCHANGED kept
     \/ End("row", "failed") /\ tree' = tree \cup {cur} /\ kept' = kept \cup {cur}
  /\ UNCHANGED <<top, hist, dev, base, head, orphans, escaped>>

\* Mutant of Abort: the worktree stays.
AbortAsIs == End("row", "failed")

\* What raises from here on removes the worktree before the job fails.
Abort == End("remove", "failed")

\* Nothing is left to merge when an agent of an earlier process has committed the
\* merge in this worktree.
Merge ==
  /\ At("merge")
  /\ Go("commit") \/ Go("launch") \/ (cur \in orphans /\ Go("verifyPush")) \/ Abort
  /\ UNCHANGED <<top, hist, dev, base, head, tree, orphans, kept, escaped>>

Commit ==
  /\ At("commit")
  /\ \/ NewCommit({base, sha[cur]}) /\ head' = top + 1 /\ Go("push")
     \/ Abort /\ UNCHANGED <<top, hist, head>>
  /\ UNCHANGED <<dev, base, tree, orphans, kept, escaped>>

\* Mutant of Push: whatever others pushed meanwhile is overwritten.
PushForced ==
  /\ At("push") /\ dev' = head /\ Go("verifyPush")
  /\ UNCHANGED <<top, hist, base, head, tree, orphans, kept, escaped>>

\* The remote takes only what contains its branch; its answer may be lost.
Push ==
  /\ At("push")
  /\ \/ dev \in hist[head] /\ dev' = head /\ (Go("verifyPush") \/ Abort)
     \/ Abort /\ UNCHANGED dev
  /\ UNCHANGED <<top, hist, base, head, tree, orphans, kept, escaped>>

\* Mutant of VerifyRemoteSync: it looks for conflicts left in the worktree only.
VerifyWorktree(p) == End(p, "completed")

\* Fetch, then the commit has to be reachable from origin/dev; raises otherwise.
VerifyRemoteSync(p) == Synced(sha[cur]) /\ End(p, "completed")

VerifyPush ==
  /\ At("verifyPush") /\ (VerifyRemoteSync("remove") \/ Abort)
  /\ UNCHANGED <<top, hist, dev, base, head, tree, orphans, kept, escaped>>

\* Both commands run unchecked: one that fails leaves the worktree and nobody knows.
RemoveTree ==
  \/ tree' = tree \ {cur} /\ UNCHANGED kept
  \/ UNCHANGED tree /\ kept' = kept \cup {cur}

Cleanup ==
  /\ At("remove") /\ Go("row") /\ RemoveTree
  /\ UNCHANGED <<top, hist, dev, base, head, orphans, escaped>>

(***************************************************************************)
(* _run_dev_sync_job: the row, and the agent that resolves a conflict.     *)
(***************************************************************************)
\* What raises in the handler of a conflict is not caught beside it: the worktree is
\* removed, nothing is closed and nothing written, and the queue's worker goes on with
\* the next job.
Escape == End("removeLast", "none") /\ escaped' = escaped \cup {cur}

Launch ==
  /\ At("launch")
  /\ (Go("create") /\ UNCHANGED escaped) \/ Escape
  /\ UNCHANGED <<top, hist, dev, base, head, tree, orphans, kept>>

CreateSession ==
  /\ WorkerFrame /\ pc = "create" /\ Go("link")
  /\ session' = [session EXCEPT ![cur] = "launched"]
  /\ UNCHANGED <<top, hist, dev, status, queue, cur, base, head, tree, orphans, kept, escaped>>

LinkSession ==
  /\ WorkerFrame /\ pc = "link" /\ Go("wait")
  /\ status' = [status EXCEPT ![cur] = "launched"]
  /\ UNCHANGED <<top, hist, dev, session, queue, cur, base, head, tree, orphans, kept, escaped>>

\* The agent ended, or it failed or ran out of time and nobody closes it.
WaitEnds ==
  /\ At("wait")
  /\ \/ Go("verifyAgent") /\ UNCHANGED <<orphans, escaped>>
     \/ Escape /\ orphans' = orphans \cup {cur}
  /\ UNCHANGED <<top, hist, dev, base, head, tree, kept>>

VerifyAgent ==
  /\ At("verifyAgent")
  /\ (VerifyRemoteSync("close") /\ UNCHANGED escaped) \/ Escape
  /\ UNCHANGED <<top, hist, dev, base, head, tree, orphans, kept>>

\* Closing the session raises when its agent does not die; the session's row is written
\* all the same.
FinalizeSession ==
  /\ WorkerFrame /\ pc = "close"
  /\ session' = [session EXCEPT ![cur] = "completed"]
  /\ \/ Go("conflictRow") /\ UNCHANGED <<orphans, escaped>>
     \/ Escape /\ orphans' = orphans \cup {cur}
  /\ UNCHANGED <<top, hist, dev, status, queue, cur, base, head, tree, kept>>

\* Mutant of WriteRow: the outcome of the sync takes the place of the status.
WriteOutcome ==
  /\ WorkerFrame /\ pc \in {"row", "conflictRow"}
  /\ status' = [status EXCEPT ![cur] = IF result = "completed" THEN "merged" ELSE "failed"]
  /\ IF pc = "row" THEN Done ELSE Go("removeLast") /\ UNCHANGED <<cur, base, head>>
  /\ UNCHANGED <<top, hist, dev, session, queue, tree, orphans, kept, escaped>>

WriteRow ==
  /\ WorkerFrame /\ pc \in {"row", "conflictRow"}
  /\ status' = [status EXCEPT ![cur] = result]
  /\ IF pc = "row" THEN Done ELSE Go("removeLast") /\ UNCHANGED <<cur, base, head>>
  /\ UNCHANGED <<top, hist, dev, session, queue, tree, orphans, kept, escaped>>

\* After a conflict the worktree is removed last, whatever came before.
CleanupLast ==
  /\ WorkerFrame /\ pc = "removeLast" /\ Done /\ RemoveTree
  /\ UNCHANGED <<top, hist, dev, status, session, queue, orphans, escaped>>

WorkerStep ==
  \/ Take \/ Fetch \/ Prepare \/ Merge \/ Commit \/ Push \/ VerifyPush \/ Cleanup
  \/ Launch \/ CreateSession \/ LinkSession \/ WaitEnds \/ VerifyAgent \/ FinalizeSession
  \/ WriteRow \/ CleanupLast

(***************************************************************************)
(* Agents, and everybody else.  An agent resolves the conflict on top of   *)
(* what dev is then; it pushes as git lets it, without force.              *)
(***************************************************************************)
OutsideFrame ==
  UNCHANGED <<rowVars, session, queue, workVars, tree, bootVars, noteVars>>

AgentRuns(j) == j \in orphans \/ (j = cur /\ pc \in {"create", "link", "wait"})

AgentPushes(j) ==
  /\ OutsideFrame /\ AgentRuns(j) /\ j \in tree /\ ~Synced(sha[j])
  /\ NewCommit({dev, sha[j]}) /\ dev' = top + 1
  /\ UNCHANGED <<main, mailVars, orphans, events>>

OrphanExits(j) ==
  /\ OutsideFrame /\ j \in orphans /\ orphans' = orphans \ {j}
  /\ UNCHANGED <<remoteVars, mailVars, events>>

\* A release merges dev into main; a hotfix does not.
MainMoves ==
  /\ OutsideFrame /\ Event
  /\ NewCommit({main}) \/ NewCommit({main, dev})
  /\ main' = top + 1 /\ mail' = mail \cup {top + 1} /\ sent' = sent \cup {top + 1}
  /\ UNCHANGED <<dev, orphans>>

DevMoves ==
  /\ OutsideFrame /\ Event
  /\ NewCommit({dev}) /\ dev' = top + 1
  /\ UNCHANGED <<main, mailVars, orphans>>

LoseEvent(c) ==
  /\ OutsideFrame /\ ~Serving /\ c \in mail /\ mail' = mail \ {c}
  /\ UNCHANGED <<remoteVars, sent, orphans, events>>

Redeliver(c) ==
  /\ OutsideFrame /\ Event /\ c \in sent \ mail /\ mail' = mail \cup {c}
  /\ UNCHANGED <<remoteVars, sent, orphans>>

(***************************************************************************)
(* A crash, and the rehydration: a launched dev_sync row has no comment to *)
(* look for, so it is always queued again.  JobLifecycle takes each write  *)
(* of the loop and of the sweep apart.                                     *)
(***************************************************************************)
Crash ==
  /\ Up /\ Event /\ crashed' = TRUE /\ escaped' = {}
  /\ orphans' = orphans \cup {j \in 1..njobs : AgentRuns(j)}
  /\ queue' = <<>> /\ Done /\ boot' = "down" /\ todo' = {}
  /\ UNCHANGED <<remoteVars, mailVars, rowVars, session, tree, kept>>

BootFrame ==
  UNCHANGED <<remoteVars, mailVars, njobs, sha, workVars, tree, orphans, noteVars, events>>

\* Mutant of BootStart: only queued rows are taken up.
BootStartQueued ==
  /\ BootFrame /\ boot = "down" /\ boot' = "scan"
  /\ todo' = {j \in 1..njobs : status[j] = "queued"}
  /\ UNCHANGED <<status, session, queue>>

BootStart ==
  /\ BootFrame /\ boot = "down" /\ boot' = "scan"
  /\ todo' = {j \in 1..njobs : status[j] \in Pending}
  /\ UNCHANGED <<status, session, queue>>

BootRow ==
  /\ BootFrame /\ boot = "scan"
  /\ \E j \in todo :
       /\ \A k \in todo : j <= k
       /\ status' = [status EXCEPT ![j] = "queued"]
       /\ session' = IF status[j] = "launched" THEN [session EXCEPT ![j] = "failed"] ELSE session
       /\ queue' = Append(queue, j) /\ todo' = todo \ {j}
  /\ UNCHANGED boot

BootSweep ==
  /\ BootFrame /\ boot = "scan" /\ todo = {} /\ boot' = "done"
  /\ session' = [j \in Jobs |-> IF status[j] \in Settled /\ session[j] = "launched"
                                THEN status[j] ELSE session[j]]
  /\ UNCHANGED <<status, queue, todo>>

BootStep == BootStart \/ BootRow \/ BootSweep

---------------------------------------------------------------------------
Init ==
  /\ top = 1 /\ hist = [c \in Commits |-> IF c = 1 THEN {1} ELSE {}] /\ main = 1 /\ dev = 1
  /\ mail = {} /\ sent = {}
  /\ njobs = 0 /\ sha = [j \in Jobs |-> 0] /\ status = [j \in Jobs |-> "absent"]
  /\ session = [j \in Jobs |-> "none"]
  /\ queue = <<>> /\ pc = "idle" /\ cur = 0 /\ result = "none" /\ base = 0 /\ head = 0
  /\ tree = {} /\ orphans = {} /\ boot = "down" /\ todo = {}
  /\ kept = {} /\ escaped = {} /\ crashed = FALSE /\ events = 0

Next ==
  \/ WorkerStep \/ BootStep \/ Crash \/ MainMoves \/ DevMoves
  \/ \E c \in Commits : QueueDevSync(c) \/ LoseEvent(c) \/ Redeliver(c)
  \/ \E j \in Jobs : AgentPushes(j) \/ OrphanExits(j)

Spec == Init /\ [][Next]_vars

\* The worker is a running thread, the wait for an agent has a timeout, and a
\* process that went down is started again.
FairSpec == Spec /\ WF_vars(WorkerStep) /\ WF_vars(BootStep)

---------------------------------------------------------------------------
RemoteType ==
  /\ top \in Commits /\ hist \in [Commits -> SUBSET Commits]
  /\ main \in 1..top /\ dev \in 1..top
  /\ mail \subseteq sent /\ sent \subseteq 1..top

RowType ==
  /\ njobs \in 0..MaxJobs /\ sha \in [Jobs -> 0..top]
  /\ status \in [Jobs -> Pending \cup Settled \cup {"absent"}]
  /\ session \in [Jobs -> Settled \cup {"none", "launched"}]

WorkerType ==
  /\ queue \in Seq(1..njobs) /\ cur \in 0..njobs
  /\ pc \in {"idle", "fetch", "prepare", "merge", "commit", "push", "verifyPush", "remove", "launch",
             "create", "link", "wait", "verifyAgent", "close", "row", "conflictRow", "removeLast"}
  /\ result \in Settled \cup {"none"} /\ base \in 0..top /\ head \in 0..top

OtherType ==
  /\ tree \subseteq Jobs /\ orphans \subseteq Jobs /\ kept \subseteq Jobs /\ escaped \subseteq Jobs
  /\ boot \in {"down", "scan", "done"} /\ todo \subseteq 1..njobs
  /\ crashed \in BOOLEAN /\ events \in 0..MaxEvents

\* Every variable holds a value of its kind, and names only commits and rows that
\* exist.
TypeOK == RemoteType /\ RowType /\ WorkerType /\ OtherType

\* A sync recorded as completed is on the remote: its commit is reachable from dev,
\* whoever merged it and whatever was pushed since (verify_remote_sync, and the
\* is-ancestor check of a job that finds nothing to do).
CompletedMeansSynced ==
  \A j \in 1..njobs : status[j] = "completed" => Synced(sha[j])

\* No push of dani or of its agents loses what others pushed: what was reachable from
\* dev stays reachable (the merge starts from a fetched dev that may be old by then).
DevOnlyGrows == [][hist[dev] \subseteq hist'[dev']]_vars

\* A commit has at most one sync that is under way or done, however often and
\* whenever its webhook is delivered (_has_existing_dev_sync_job reads rows the
\* worker and the rehydration are writing).
OneSyncPerCommit ==
  \A i, j \in 1..njobs :
    sha[i] = sha[j] /\ status[i] # "failed" /\ status[j] # "failed" => i = j

\* As long as the process lives, a worktree is that of the sync under way, unless a git
\* command that failed left it, and a settled sync has no launched session and no agent
\* at work, whichever command failed.
NothingLeftBehind ==
  ~crashed =>
    /\ tree \subseteq kept \cup {cur}
    /\ \A j \in 1..njobs : status[j] \in Settled => session[j] # "launched" /\ j \notin orphans

\* Every sync ends, through crashes too; unless its conflict's handler raised, which leaves
\* the row as it is until a process that is started again takes it up (service.py:1369
\* and 1492 are handlers of one try).
SyncsEnd ==
  \A j \in Jobs : (status[j] \in Pending) ~> (status[j] \in Settled \/ j \in escaped)
===========================================================================
