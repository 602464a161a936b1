# dani: TLA+ specifications and proofs

dani is a server that answers GitHub webhooks by running coding agents. An
issue becomes a *job*; a worker thread runs an agent *session* for it; the job is
done when GitHub shows the signed comment or pull request the job stands for. The
agents are slow, they fail, they hit capacity limits, they outlive the server,
and everything the server knows is in a handful of JSON files that are written
one row at a time. The specifications here are about that: which rows, queues and
GitHub effects can be out of step with each other, and who puts them right.

Source references are to `src/dani/…` at the commit this directory sits beside.

## 1. Inventory

| component | state | operations | talks to |
|---|---|---|---|
| **Job lifecycle** (`service.py` 63–250, 679–1359, 1503–2083) | rows of `jobs.json` and `sessions.json`; the attempt the worker is in | `_enqueue_job`, `_run_job`, `_execute_job_session`, `_finalize_session`, `_handle_transient_failure`, `_handle_job_failure`, `_enqueue_comment_recovery`, `_complete/_fail_comment_recovery`, `_rehydrate_pending_jobs`, `_reconcile_drift_sessions_on_startup`, `restart_issue` | queue, storage, runners, GitHub |
| **RepoQueueManager** (`queue.py`) | one queue and one daemon thread per repository | `submit`, `_worker`, `join_all` | job lifecycle (its handler) |
| **JsonStorage** (`storage.py`) | registry, jobs, sessions, processed events, terminal targets, work lines; one lock per process | create/update/list of every kind | everyone |
| **Webhook dispatch and review loop** (`server.py`, `webhook.py`, `service.py` 252–677, 2085–2186, 2376–2760) | processed-event keys, terminal pull requests, review rounds counted from the jobs | one handler per event; final verdict, merge, close | storage, queue, GitHub |
| **Work lines** (`work_line.py`, `service.py` 746–756, 2197–2358) | `work-lines.json`; one worktree and branch per issue or pull request | resolve, prepare, reuse, record each agent run, clean up after the merge | git, storage, job lifecycle, review loop |
| **Dev sync** (`git_sync.py`, `service.py` 1361–1501, 2130–2160) | its rows of `jobs.json`, a worktree per job, the dev branch of the remote | fetch, merge, commit, push, verify; an agent for a conflict | git, job lifecycle |
| **OmxRunner** (`omx_runner.py`) | process handles | launch, resume, wait, close_session | agent processes |
| **OpenCode runner** (`omo_http_runner.py`, `opencode_http/*`) | registered sessions with their completion states, a listener thread per directory, a status poll; one handle per run | launch, resume, wait, close; SSE events, status polls | the opencode server |
| **Doctor** (`doctor.py`) | what it has read | read the storage files one by one, classify, read again, exit code | storage, without its lock |
| **GitHub client** (`github.py`, `github_helper.py`) | none | comments, pull requests, merge | GitHub (external) |
| prompts, signatures, session bridge, CLI, models | none | text, arguments, data classes | – |

How they meet. A webhook handler runs on the server's event loop, one at a time; it
writes a row and submits the job to the repository's queue. The repository's
worker thread takes jobs in order, and for each writes rows, starts an agent and
waits, then asks GitHub. The boot loop (in the constructor of the service) runs
before the server serves, but the worker already runs the jobs it submits. An
operator's `restart-issue` runs on a thread, and in a process, of its own. All of
them write `jobs.json`; only single row updates are atomic.

What is hard, and the property that answers it (all at their lines in
`PROJECT.json`, "hazards"):

* *crash between two writes* – a row must still have someone to run it
  (`PendingIsServed`, `EndsEveryJob`), must not be run twice
  (`NoDoubleRun`), must not leave a launched session (`SweepClosesDrift`), must
  not lose its recovery or get two (`OneRecoveryPerSource`);
* *many ways out of an attempt* – timeouts, capacity errors, GitHub not
  answering, `close_session` raising, a resumed session failing: each must close
  the session (`LaunchedIsHeld`), end a recovery's source (`RecoveringIsServed`) and
  complete the row only with its effect on GitHub (`CompletedMeansPosted`);
* *threads* – restart and the `pull_request_opened` handler write rows the worker is
  working on (`SupersededLeavesQueue`, `CompletedMeansPosted`);
* *agents that survive* – post late, post twice, push to dev (`OneSuccessor`,
  `CompletedMeansPosted`, `DevOnlyGrows`);
* *webhooks* – come late, twice, out of order or not at all, while people push, close,
  merge and reopen: one comment starts one next job (`OneSuccessor`), the rounds neither
  run over (`RoundNumbersBounded`, `ConsumedRoundsBounded`) nor short
  (`EveryRoundBeforeMerge`), a merge has an approval (`MergeIsApproved`), a closed pull request
  starts nothing (`AfterCloseNothingStarts`);
* *a handler cut short* – between what it records and what it does
  (`RecordedVerdictHasEffect`, `StoppedForAReason`);
* *a completion seen from the side* – the event that ends a wait may be another run's
  (`IdleIsEarned`) or be lost while its listener reconnects (`NoticedUnlessLost`), and what is
  registered or at work must end with the run whichever call of it fails
  (`ClosedIsForgotten`, `AgentHasKeeper`, `QuestionsAreAnswered`), so that the next run of the
  session starts afresh (`BeginsUnfinished`);
* *one worktree for many jobs* – the worker starts agents in it while handlers write its
  record and remove it, with commands and answers that fail (`AgentsKeepTheirTree`,
  `MergedIsCleaned`, and the theorem `Remembered`);
* *other people's pushes* – dev moves between the fetch and the push of a sync
  (`CompletedMeansSynced`, `DevOnlyGrows`), its webhook comes twice (`OneSyncPerCommit`), and
  any git command may fail, and the agent of a conflict as well (`NothingLeftBehind`,
  `SyncsEnd`);
* *a reader without the lock* – doctor's two files are of different moments
  (`ReportedDriftIsReal`, `LastingDriftIsReported`).

## 2. The core: `JobLifecycle`

One repository and one issue. Jobs and sessions are numbered in the order of
their rows (0 is "none"), so a signature is a job number and a comment or pull
request that carries it is counted in `comments[j]` and `prs[j]`.

| variables | stand for |
|---|---|
| `njobs stage source status sessionOf prNumber recoveryAttempts` | `jobs.json` |
| `nsess sessJob sessStatus` | `sessions.json` |
| `queue`, `submitted`, `memPr` | the repository's queue; the records submitted by this process (history) and the pull request number each `JobRecord` object was loaded with |
| `pc cur attempt sess outcome resumed` | the worker thread in `_run_job` |
| `boot bootSubmit bootVerify bootJob sweepSeen sweepTodo` | `__init__`: the rows `_rehydrate_pending_jobs` read at its start and the sweep after it |
| `restart restartTodo restartJob` | `restart_issue` |
| `opened` | the second half of the `pull_request_opened` handler |
| `comments prs prEvents orphans` | GitHub, webhooks under way, agents of dead processes |
| `epoch arrivals crashes restarts` | sessions of earlier processes; bounds |

Actions follow the code's writes: each action contains at most one write of a JSON
row, so a crash, the operator, a handler or the boot loop can come between any
two. Three things are folded, each because nothing can be told apart:
`create_job` and `queue.submit` (a crash between them is a crash right after
both: the queue is lost anyway); the pair of tries of a recovery job (resume, else a
fresh launch) is one `Launch` action told apart by `resumed` and `pc`; and the closing
of the runner's session is part of the write of its row. That `close_session` may
raise is kept: the row is written and the error replaces the outcome.

The worker's path, by `pc`:

```
idle → attempt → create → link → wait → verify → finalize ┬→ relink → succeed → idle
                                 └ capacity/error ┘       ├→ succeed → complete → idle   (recovery: source first)
                                                          ├→ capacity → attempt | succeed | failed
                                                          ├→ recheck → relaunch | succeed (resumed recovery)
                                                          └→ failed → idle | markRecovering | failSource
```

GitHub may not answer any question (`outcome' = "error"`). Agents post while they
run, any number of times up to `MaxPosts`; an agent whose server died is an
element of `orphans` that still posts, or exits. Webhooks that find no server are
lost. Duplicate issue comments are deleted down to one, and each delete may fail.

Left out of this module on purpose: the dev_sync stage (`DevSync`), the work
line bookkeeping around an attempt (`WorkLine`), the branch for a repository that is no longer
registered, and the `ClaudeUsageLimitError` fallback, whose exception no runner
raises.

`MaxTroubles` bounds crashes and `restart_issue` calls together, and `RecoveryCrashes` says
whether a process may die once there is a recovery job.

`JobContract` is what a job promises to the rest of the system: it appears, works
and ends – done, failed or superseded – once, and *done* means its effect is on
GitHub. `JobLifecycleRefinement` maps the rows to it; `KeepsContract` says that the worker,
the retries, the recovery jobs and the rehydration together implement its safety part, and
`EndsEveryJob` that they implement its liveness.

## 3. The automation loop: `ReviewLoop`

One pull request from its first webhook to its merge, closing or standstill.
`Kind` says whose it is: dani's own (`managed`, its text carries the signature of the
implementation job), an outside contribution that names an issue (`external`), or one that
names none (`untracked`).

| variables | stand for |
|---|---|
| `njobs stage round status` | the rows of `jobs.json` for this pull request |
| `processed terminal` | `processed-events.json`, `terminal-targets.json` |
| `event step nextRound` | the webhook handler that is running, what it does next, the round it counted |
| `running` | the worker's job |
| `pr posted mail delivered` | GitHub: the pull request, the signed comments, webhooks under way and delivered |
| `cause mergedBy` | history: the job whose comment led to a job; the verdict that merged |
| `used` | how often each bounded thing has happened |

Handlers run one at a time on the server's event loop, but what they ask of GitHub
and what they write are separate steps, between which agents post, people close,
merge and reopen, the worker moves on and the process dies:

```
        ReceiveComment ──> check ──> enqueue ──────────────> idle
        ReceiveVerdict ──> check ──> merge ─> record ──────> idle
                                 │       └──> conflict ─> record
                                 └─(author is no owner)──> record
ReceiveManaged/External/Request ──> enqueue
                 any question GitHub does not answer ──────> idle   (HandlerRaises)
```

The order of the two writes is kept: the stages other than the verdict are recorded as
processed before the next job is queued, the verdict after. What a handler keeps from an
earlier read (the next round of an outside contribution) is `nextRound`. `NextStage` is
the loop itself: review → implementation → review … → final verdict, conflict
resolution → final verdict. `_handle_review_round_event` asks twice whether the pull
request is open; only the later answer matters and `CheckOpen` is that one.

The worker is `JobLifecycle`'s, reduced to what the handlers read: the status of
the row, which `pull_request_opened` may overwrite while the job runs. A process that
starts again completes launched rows whose comment is there and runs the others, which
is what `JobLifecycle` shows of it.

`used` counts each disturbance; besides the bound of each, `MaxKinds` bounds how many
different ones come in one behaviour.

Left out: the retarget request for pull requests with another base, the closing of
those of accounts too new, release pull requests, and the answer to commenters who
may not ask for a resolution; none of them enqueues anything.

## 4. Agent runs over HTTP: `OpencodeRunner`

An agent run from `launch` or `resume` to `close_session`, seen from both sides: the worker
submits a prompt and waits on a completion state; the shared event consumer sets that state
from other threads. One server and one consumer; `Directories` are the clones of the
repositories that share them and the worktrees of their dev syncs (`Worktrees`, `CloneOf`), and
a repository's worker runs one agent at a time in any of its own.

| variables | stand for |
|---|---|
| `nsess home agent sent ended` | the opencode server: its sessions, what their agents do, the prompts it took and those it is through with |
| `link stream` | the event streams: the connection of each listener, what has arrived and is unread |
| `registered outcome connected` | `OpencodeEventConsumer`: `_sessions`, each completion state, `_directory_connected` |
| `snapshot answer` | the fallback thread between its look at the pending sessions, its question to the server and its marks |
| `nruns session completion` | the handles of `OmoHttpRunner` and the state each waits on |
| `pc run lineage result` | the workers; the sessions a follow-up may resume; how each wait ended |
| `lost stray left troubles` | history: sessions with an event or answer that got lost, agents nobody could stop, runs whose caller left them open; bound |

```
free ─Launch/Resume→ prepared ─Register→ registered ─SendPrompt→ waiting ─WaitReturns/WaitTimesOut→ closing ─Abort→ aborted ─Unregister→ free
                                              └─SendFails→ free        └─(dev sync's conflict)→ free
```

An action is what a thread does between two acquisitions of the consumer's lock or two HTTP
calls, so the listener, the poll and the workers meet between `register_session` and the
prompt, between the abort and `unregister_session`, and between the poll's snapshot and its
marks. A completion state is the object, not the session: `register_session` hands out the one
that is there.

The server is modelled as the code uses it: it publishes an event to the listeners connected at
that moment, an aborted agent becomes idle and says so, and the status question answers `idle`
for a session whose agent is not at work. A prompt to an agent at work joins what it is doing.

How a run ends is its caller's affair (`AfterWait`). A job's attempt and a comment recovery
close the session whatever the wait brought (`service.py` 940–969, 849–855). The handler of a
dev sync's conflict closes it only when the wait and the verification succeeded (1484–1486): what
raises before leaves the session registered and its agent at work, in a worktree where nothing
is ever run again.

Left out: spawning, respawning and stopping the servers, calls that fail without a trace
(`create_session`, `get_session`), events nobody acts on, and the event log.

## 5. The worktree of an issue: `WorkLine`

One issue's line from the approval to the merge: its worktree, its branch and its record in
`work-lines.json`. Worker and handlers meet in it more closely than anywhere else: the
worker writes the whole record from what it read a step before, and the verdict's webhook
removes the worktree while the worker may still wait for the agent that posted the verdict.

| variables | stand for |
|---|---|
| `njobs stage status session hasLine runIds` | rows of `jobs.json`; of a row's metadata, whether it names the line and which runs it lists |
| `record`, `read` | the record; as the worker read it |
| `tree branch` | the repository: the worktree and the local branch |
| `queue pc cur held run` | the worker, the metadata its job object holds, the agent it started |
| `jobOf alive posted` | agents: of which job, still alive, their comment or pull request there |
| `hstep hjob source processed` | the handler, the runs in the metadata it read; `processed-events.json` |
| `pr mergedBy mail` | GitHub |
| `cut happened` | history: a handler was cut short; which of `Events` have come |

```
worker   idle → start ┬──(review, verdict, resolution)──→ launch → record → link → wait ┬→ completed → completedRow → idle
                      └→ read → write ────────────────────┘                             ├→ start   (retry)
                         (a fix or implementation)                                      └→ failed → failedRow → idle
handler  ReceiveVerdict ──> merge ─> merged ─> recordMerged ─> remove ─> branch ─> cleaned | cleanup_failed
                                └──> conflict ─> resolve ─> resolving
```

Jobs and webhooks are those of `JobLifecycle` and `ReviewLoop`, reduced to a pull request of
dani's own with one round and approving verdicts. A row's metadata is a snapshot: a later job
gets the runs its predecessor's row listed, and the record is where they all have to be found
(`LineageIds`; `RunsAreRemembered` in `WorkLineProofs`). The merge may be done and its answer lost, and git may
not even find the repository when the cleanup begins: then the handler ends and leaves worktree,
branch and the record's `preserved` as they are (`Merge`, `RemoveWorktree`). An opening is taken
from its payload alone, whatever has become of the pull request since. Left out: lines of pull requests without an issue, several
lines, `restart_issue`, and the review and merge states in the record, which nobody reads.

## 6. Main into dev: `DevSync`

| variables | stand for |
|---|---|
| `top hist main dev` | the remote: commits are numbers, `hist[c]` is what `c` reaches, so `git merge-base --is-ancestor a b` is `a \in hist[b]` |
| `mail sent` | webhooks of pushes to main |
| `njobs sha status session` | the dev_sync rows of `jobs.json` with their latest session |
| `queue pc cur result base head` | the worker: its job, `origin/dev` as fetched, the commit on top of it |
| `tree orphans boot todo` | worktrees, agents nobody waits for, the rehydration |
| `kept escaped crashed` | history: worktrees a failed git command left, jobs whose conflict handler raised, what the properties except |

```
idle → fetch ┬→ prepare → merge ┬→ commit → push → verifyPush → remove → row → idle
             └→ row             └→ launch → create → link → wait → verifyAgent → close → conflictRow → removeLast → idle
                                   └──────── what raises here ───────────────┴──────────────────────────→ removeLast
```

What raises in the handler of a conflict escapes (`Escape`): the `except Exception` beside it
belongs to the same `try`, so neither the row is written nor the agent closed, and only the
worktree's removal in the `finally` is left to do. The queue's worker goes on with its next job. The row
stays launched (or queued, when the launch failed) until a process that is started again
rehydrates it; a redelivered webhook is refused meanwhile, and doctor reports the job as stuck when
it is old enough. The two commands of a removal are run unchecked (`RemoveTree`), so one that fails
leaves the worktree and nobody knows.

Each git command is a step that may fail, and a push may succeed with its answer lost. Other
people push to main and dev between any two steps; an agent pushes its resolution on top of
what dev is then, also after the process that started it has died. The remote takes a push
only if it contains the branch (no force). Rows, queue and rehydration are those of
`JobLifecycle` reduced to what a dev_sync job meets: no retries and no recovery. Left out: the
fallback to another runtime on a usage limit, as in `JobLifecycle`: no runner raises it.

## 7. The reader: `Doctor`

`Doctor` EXTENDS `JobLifecycle`: the server's steps are its `Next`, and beside them runs
`dani doctor`, once. It reads the files in their order, one step each, any of which may be
unreadable; classifies (`Check`); and when it has found launched sessions of terminal jobs reads
everything again (`ReadAgain`, `Confirm`). Only time is abstract: which sessions are past the grace
period is chosen when doctor starts, any set of them; which are past the limit of a long run and
which jobs are stuck by age is none or all. The other checks look at the machine and are
any result (`others` of `Overall` and `ExitCode`). `seen`, `lasting` and `blind` are history.

## 8. Runs

`MCJobLifecycle` gives values to the set of arrivals (`Doctor_live.cfg` spells its own) and
`MCOpencodeRunner` to the directories; every other constant has its value in the `.cfg`, and those that bound what a run does not ask about
are 0.

| run | what can happen | shows |
|---|---|---|
| `restart` | an issue job with its recovery, or an implementation job with its `pull_request_opened` event and the review after it; `restart_issue` beside the worker; two crashes, or one and a restart, anywhere; calls that fail; agents that post late | `TypeOK`, `PendingIsServed`, `CompletedMeansPosted`, `LaunchedIsHeld`, `NoDoubleRun`, `RecoveringIsServed`, `OneRecoveryPerSource`, `SweepClosesDrift`, `SupersededLeavesQueue` |
| `contract` | an issue job with its recovery, or a review; capacity retries, a crash before there is a recovery | `KeepsContract`, `EndsEveryJob` |
| `recovering` | a crash between the two rows of a failed recovery | `RecoveringJobsResume` fails (finding) |
| `review_own` | dani's pull request, two rounds, a refused merge and its resolution, a duplicate comment, a push, a redelivery, a GitHub error, a crash | `TypeOK`, `OneSuccessor`, `RoundNumbersBounded`, `MergeIsApproved`, `EveryRoundBeforeMerge`, `RecordedVerdictHasEffect`, `StoppedForAReason` |
| `review_outside` | an outside contribution; three of: a push, a failing job, a retry, a lost webhook, a requested resolution, a person who closes or merges, and reopens | `ConsumedRoundsBounded`, `StoppedForAReason`, `AfterCloseNothingStarts` |
| `review_own_closed` | dani's pull request is closed | `ClosedIsTerminal` fails (finding) |
| `review_twice` | the webhook that opened dani's pull request comes twice | `ReviewedBeforeMerge` fails (finding) |
| `opencode_http` | three runs on new or resumed sessions in a clone and the worktree of its dev sync; one of: lost connection, failed call, timeout, question, anonymous error | `TypeOK`, `ClosedIsForgotten`, `AgentHasKeeper`, `IdleIsEarned`, `BeginsUnfinished` |
| `opencode_served` | two runs in a clone, two of the same troubles, under fairness | `NoticedUnlessLost`, `QuestionsAreAnswered` |
| `dev_sync` | three of: pushes to main, pushes to dev, redeliveries, crashes; any git command fails, conflicts, agents that fail, time out or push late | `TypeOK`, `CompletedMeansSynced`, `OneSyncPerCommit`, `NothingLeftBehind`, `DevOnlyGrows`, `SyncsEnd` |
| `work_line` | a conflict and two of: second approval, opening delivered again, requested resolution, GitHub error, retry, failing job, failing git command, redelivery, crash | `TypeOK`, `AgentsKeepTheirTree`, `MergedIsCleaned` |
| `doctor` | doctor beside the server of `JobLifecycle` at an issue, with a crash or a restart; one unreadable file | `DoctorTypeOK`, `ReportedDriftIsReal`, `LastingDriftIsReported` |

**Bounds of the core.** Two crashes are enough to die during a rehydration and during the
rehydration that follows it; three jobs are the arrival with its recovery (or its review) and the
second recovery that must not come, or the replacement of a restart (which leaves no room for
the replacement's own recovery: it is a job like the first). Calls may fail, time out or go unanswered without a bound.
One attempt in `restart`, two in `contract`: two tell the last attempt from the others
(the code has four, one more than `RETRY_BACKOFF_SECONDS`). `MaxSessions` is at least
what the attempts, resumed sessions and crashes of the run can launch; in `restart` it cuts off
behaviours with more than five sessions.

**Bounds of the loop.** Two rounds are a first and a last one (the code has three); eight
jobs are the implementation, two reviews with their fixes, a verdict, a resolution and the
second verdict. Each disturbance happens at most once in a run, at any step and together with
the others the run allows; those a property has to leave out are in the property as
a condition on `used` (`OneSuccessor` on crashes, `EveryRoundBeforeMerge` on requests), not in the bounds. Rounds,
pushes and redeliveries repeat the same few handlers, so a second of a kind meets only
states the first has met already, but for the counters that `ReviewRounds = 2` exercises.
`review_own` has no bound on the kinds that come together, `review_outside` takes any three.

**Bounds of the runner.** Three runs on at most two sessions: a run, its successor on the same
session, and one that meets what the two left, which is what a stale state, a late event or a
forgotten registration needs; or one of them in the worktree, whose session the others must not be
hurt by. One trouble strikes any one of them. `opencode_served` asks what happens to
one run and its successor, with a trouble and a second in its aftermath (a lost connection and a
failed abort, a timeout and a lost answer), in one directory: its listener and its worker are the
ones that race. More directories and longer chains are left to the theorems, which are for any
number of directories, runs, sessions and troubles.

**Bounds of the others.** Six rows of a work line are implementation, review, fix, verdict, a
resolution and the second verdict, one agent each; a second event of a kind would meet the same
handler in the same places. Five commits are the first one and four of: pushes to main, pushes to
dev, merges by dani, merges by agents;
three rows are two syncs and the second sync of a commit whose first failed. Doctor reads
one job and two sessions, enough for a session that ends between the two files, one that a crash
leaves launched or a restart leaves behind, and its successor; drift needs no more, and the proofs
are for any number of jobs and for pull request work too.

**Deadlock** is not checked: when the bounded arrivals are worked off the system
waits for webhooks, as it should.

**Fairness.** `FairSpec` of the core takes weak fairness of the worker, the boot loop, the
restart thread and the enqueueing half of a handler: they are running threads whose
every wait has a timeout (the runners' `wait` is called with one, or falls back to the
runner's default), and a process that went down is started again (`BootStart`
belongs to `BootStep`). Agents, GitHub, webhooks, operators and crashes get no
fairness, so of the review loop no liveness is claimed: that an agent answers or GitHub
delivers is nothing the code brings about. `StoppedForAReason` says what remains of
it, that the loop never comes to rest without a reason. `FairSpec` of the runner takes weak
fairness of dani's own threads: a listener reads what has arrived and notices a broken stream,
the fallback thread polls every few seconds, and a worker whose state is set returns from
`wait` and closes. Agents, connections, timeouts and new runs get none. `FairSpec` of `DevSync`
takes weak fairness of the worker, whose wait for an agent has a timeout, and of the
start of the process, as in the core. `WorkLine` and `Doctor` claim no liveness.

## 9. Findings

The three violation runs are disagreements between what the repository says and what
the code does; each is quoted with its lines in `PROJECT.json`. In short:

* a crash between the two writes of a failed recovery leaves the source `recovering` for
  good (`recovering`);
* the closing of dani's own pull request is dispatched by the signature in its text and never
  recorded as terminal, nor is its issue (`review_own_closed`);
* the webhook that opens dani's pull request is not deduplicated; twice delivered, it forks
  the loop, and the verdict of one chain can merge before the last round was answered
  (`review_twice`).

Seen while modelling and allowed for in the properties, without a run: `restart_issue`
turns sessions that had completed into failed ones and a superseded job can be
written over by the worker that runs it (`SupersededLeavesQueue` allows that one writer);
a review round in its capacity retry is not counted among the used ones
(`ConsumedRoundsBounded` leaves retries out); an error after an agent's comment was
recorded ends the loop silently (a reason in `StoppedForAReason`); a reopened outside
contribution is terminal for ever; a session whose job row was not linked before a crash stays
launched when the job has ended, until the sweep of a later start (`SweepClosesDrift`); and the
idle event of a run that ends before its listener has first connected, or during a
reconnection, is lost for good if the stream is read before the status poll comes, because a
connected consumer does not poll: the exception in `NoticedUnlessLost`, which TLC refutes
without it. Such a run ends with its timeout.

Of the work line: a second approval while a fix is being retried, or an opening delivered again,
starts a second chain in the same worktree, and the first verdict takes it away from the other
(excepted in `AgentsKeepTheirTree` and `MergedIsCleaned`); a merge whose answer is lost, or
a crash between the merge and the cleanup, leaves worktree and branch for good, for the
redelivered verdict finds the pull request merged and is ignored (`MergedIsCleaned` says that the record
then tells so); the worker, which records the end of the verdict's agent, may write
`agent_completed` over the `merged` of the handler. Of dev sync: an agent of a conflict that fails or
times out, and a launch, verification or closing that raises, leave the row launched or queued, the
session open and the agent at work until the next start (`escaped` in `SyncsEnd`; the
row is not settled, so `NothingLeftBehind` asks nothing yet); and a worktree stays when its preparation
fails halfway or its unchecked removal fails (`kept`). Of doctor: a job created between the two
files makes its session an orphan, a warning that is not read again; errors of the second
reading are dropped (`blind`); and a row completed by `pull_request_opened` while its agent is
still at work is drift on a healthy server, which `ReportedDriftIsReal` counts as real.

## 10. Proofs

`JobLifecycleProofs` proves, for every value of the constants:

* `TypeCorrect` – `Spec => []TypeOK`;
* `PendingServed` – `Spec => []PendingIsServed`;
* `NeverRunTwice` – `Spec => []NoDoubleRun`.

The only assumption is `ConstantsAssumption` (bounds are numbers, outside arrivals are
stages other than recovery).

The argument. `TypeOK` is not inductive: `SetStatus(cur, …)` needs that the worker
holds a job when it is not idle, and the boot loop one while it completes or
requeues it (`Held`). `PendingIsServed` is not inductive either:

* `Apart` – the worker's job, the queue and the rows the boot loop is still ahead
  of are disjoint, all but the last inside `submitted`, and empty in a process that is
  down. Without it a `Dequeue` could drop the only entry of another pending row, and
  `Submit` could double one;
* `Settled` – what is let go of is not pending: no row beyond `njobs` is, the
  recovery job is not when its source is about to be failed (`failSource`), and
  a row the boot loop has completed is not when it is crossed off
  (`closeCompleted`). Without it the worker could return, or the boot loop move on,
  from a row that is still pending.

`IInv == TypeInv /\ Apart /\ Settled /\ PendingIsServed` is inductive; `TypeStep`,
`ApartStep` and `PendingStep` have one step per action, `ApartAppend` and
`ApartCreate` are what handing a job to the queue does.

`JobOutcomeProofs` builds on it and proves, again for every value of the constants:

* `CompletedPosted` – `Spec => []CompletedMeansPosted`;
* `LaunchedHeld` – `Spec => []LaunchedIsHeld`.

The argument. `LaunchedIsHeld` becomes inductive (`SessionsHeld`) with one more fact: no
session beyond the last row is launched, so that `create_session` adds one and no more.
`CompletedMeansPosted` needs `Posted`, the conjunction of everybody who is about to
complete a row having seen its effect: the worker after its verification (`WorkerSaw`), the
boot loop after its own (`BootSaw`), the second half of `pull_request_opened`
(`OpenedRows`, also of what an agent left behind may still open), and the rows a recovery
speaks for (`RecoveryRows`: its source is a row whose effect is a comment). What was seen is shown for good: a row's stage and source never change
and comments are never deleted down to none (`RowsStay`, `PruneStays`, `PostStays`,
`CreateStays`), so a step of anybody else leaves each of these facts alone.

`JobRecoveryProofs` builds on both and proves what is left of the core's safety:

* `SupersededGone` – `Spec => SupersededLeavesQueue`. `LetGo` says who may still write a
  superseded row (`MayWrite`): the worker that has it and the boot loop, each only until it lets go;
* `RecoveringServed` – `Spec => []RecoveringIsServed`, from `Waiting`: without crashes and
  restarts, a source that waits is named by a recovery job that is pending (`Served`), or
  its worker is between the two writes. `FirstBoot` keeps the boot loop out of it;
* `RecoveredOnce` – `Spec => []OneRecoveryPerSource`, from `Single`: a recovery job is only
  made by the worker of a live source that is not recovering yet, and a row that has one is
  not live as a source again (`Live`, `Fresh`), whatever crashes in between;
* `DriftClosed` – `Spec => []SweepClosesDrift`, from `Swept`: a session that an earlier
  process left launched is still ahead of the sweep, or excused (`Excused`);
* `ContractKept` – `Spec => KeepsContract`, the refinement of `JobContract` step by step. It
  assumes `NoOverride`: no `restart_issue` (which overrides a job from outside), no
  implementation among the arrivals (whose row the webhook handler writes as well) and no crash once
  there is a recovery job. These are the assumptions of the run `contract`; without them the
  code does not keep the contract (a row that has ended is written again). `Sources` says that a source stays
  open while its recovery is, and `HeldOpen` that whoever holds a row holds an open one, so
  that every write of a status maps to a step of the contract or to a stutter.

`ReviewLoopProofs` proves of the loop, again for every value of the constants (whose only
assumption is that they are what their names say):

* `TypeCorrect` – `Spec => []TypeOK`. The round of a new row comes from maxima of rounds;
  that they are numbers needs a bound (`RowType`: a row's round is at most its
  number), and `MaxOfBounded` says a bounded set of numbers has a largest one;
* `MergeApproved`, `RecordedHasEffect` – `MergeIsApproved` and `RecordedVerdictHasEffect`, from
  `Answers` (what a webhook says was posted, and no row changes its stage) and
  `Handling` (what a handler has found out at each of its steps: a verdict that
  merges is an owner's, approving and not yet recorded; one that is recorded has had its
  effect). `Handling` is where the two orders of recording show;
* `RoundsBounded` – `RoundNumbersBounded`;
* `OneNextJob` – `OneSuccessor`, from `AllSucceeded`: a comment that has led to a job is
  recorded, or in the last step of its handler, and no handler is about to enqueue
  for it again; and `OpenedOnce`, the same for the webhook that opens dani's own pull
  request, which is not recorded and therefore must not have come twice;
* `ClosedStartsNothing` – `AfterCloseNothingStarts`, from `Closed`: the news of a
  closing is true, and no handler that asked before it is still to enqueue;
* `ConsumedBounded` – `ConsumedRoundsBounded`. The set of rounds that are counted comes and goes
  with the status of their rows. `Counting`: while nothing is retried a round is only taken out
  (`CountFalls`) or is that of a new row, for which a handler left room when it counted
  (`CountRises`); `Counted`: rounds start at one, so that a fix's comment, which goes by the
  largest number and not by the count, stays within the limit too;
* `EveryRound` – `EveryRoundBeforeMerge`. `InLine`: row 2r is the review of round r, row 2r+1 its
  fix, each led to by the row before, which has posted; verdicts and resolutions come later. It
  is kept because the next row of a comment goes by the largest round there is
  (`Latest`), and because a comment that already led to a row leads to no other (`AllSucceeded`);
* `StopsForAReason` – `StoppedForAReason`. `Calm` says that nothing happened that excuses the
  loop. Then the opening has a webhook and dani alone closes the pull request (`Begun`), a completed
  job has posted (`Rows`), a comment has a webhook (`Posts`), and a delivered webhook, or one that
  was recorded, has led to a later row or to the handler that will add it, unless it is
  a rejection or an approval left to a human (`Told`, with `OpenEffect` for approvals that come
  twice). The last row has posted, and no row is later, so its comment is one of those two.

`OpencodeProofs` proves of the runner, for any number of directories, sessions, runs and
troubles (from `OpencodeAssumption`: bounds are numbers, 0 is no directory):

* `TypeCorrect` – `Spec => []TypeOK`. What a stream holds is typed by the sessions there are
  (`EventsOf`), so that a lost event or a question names a session that exists;
* `ClosedForgotten` – `Spec => []ClosedIsForgotten`. It needs `RunsApart`: two workers never
  have the same run and a run has no result before its wait is over, so that one worker's
  `SendFails` or `Unregister` cannot take away what keeps another session's registration; and
  `LeftAlone`: a session that is left open lives in a worktree, where nothing runs any more;
* `AgentsKept` – `Spec => []AgentHasKeeper`. As it stands it is not inductive, since
  `Unregister` lets go of a session; `AgentKept` is stronger, the worker of an agent at work is
  one that has not aborted it yet (`WorksOn`);
* `IdleEarned` – `Spec => []IdleIsEarned`. `RunsInTurn`: a worker's run is the latest of its
  session, which lives in the worker's directory, and is sent when it waits. `Completions`: a
  completion state is made by a run of the same session, and only what is registered is set.
  `EventsAtHome` and `Idles` follow the idle events through the streams, which only lose items
  at either end (`Drained`) or get one more (`EmitIdles`). `Pure` is the heart: in a session whose runs
  all ended with their own idle event (`Spotless`), there is at most one idle event, it is that of
  the run that waits, and nobody else's agent is at work. A run that ends otherwise
  leaves `Spotless`, which is why the property asks for `OwnIdle`;
* `BeginUnfinished` – `Spec => BeginsUnfinished`. A session that is about to be registered is not
  registered (`PreparedIsNew`): what is registered is in a worker's hands or left in a worktree, by
  `ClosedKept` and `LeftAlone`, and neither can be the session of a run that begins.

`DevSyncProofs` proves of dev sync, for any number of commits, jobs and events (from
`ConstantsAssumption`):

* `TypeCorrect` – `Spec => []TypeOK`, with `Held`: what a step uses is there (a base after the
  fetch, a commit at the push, an outcome once the job is ending);
* `DevGrows` – `Spec => DevOnlyGrows`. `Histories` makes reachability reflexive and transitive
  (a commit reaches what its ancestors reach), so that a push that contains dev moves it forward
  whatever base it was made on;
* `CompletedSynced` – `Spec => []CompletedMeansSynced`, from `Finished`: the worker's outcome is
  "completed" only when its commit is on dev, which stays so because dev only grows;
* `OneSync` – `Spec => []OneSyncPerCommit`, from `Apart`: the worker's job, the queue and the rows
  the rehydration is ahead of are apart and pending, so that nobody takes up a failed row beside
  its successor;
* `NothingLeft` – `Spec => []NothingLeftBehind`, from `Tidy`: while the process lives, a worktree
  is that of the job at hand at a step where it is to be, or was left by a git command that failed
  (`TreeTidy`); a launched session (`SessionTidy`) and an agent nobody waits for (`AgentTidy`) are
  of a row that is not settled and that nobody will take up again before a restart.

`DoctorProofs` proves of doctor, for any number of jobs, sessions, crashes and unreadable files
(on top of `JobLifecycleProofs`):

* `ReportedIsReal` – `DoctorSpec => []ReportedDriftIsReal`. The argument is in `SeenSoFar`: `jobs.json` is read
  before `sessions.json`, a session that has ended is never launched again (`ServerStays`) and those
  past the grace period were there at the start; so what is launched in the second file was
  launched when the first was read, and in drift at that moment. `Shape` says
  which file has been read at which step;
* `LastingIsReported` – `DoctorSpec => []LastingDriftIsReported`: drift that lasts is in what is read
  (`LastingSoFar`), or a file that was not read has made `storage_files` fail;
* `DoctorTypes` – `DoctorSpec => []DoctorTypeOK`, from `Taken`: the ages are taken once, so what
  is suspected, seen and reported is of the sessions that were there at the start (`AgesStay`).

`WorkLineProofs` proves of the work line, for any number of jobs, runs and events (from
`ConstantsAssumption`):

* `TypeCorrect` – `Spec => []TypeOK`, with `Links`: queue, agents and messages name rows that
  exist, and a run about to be recorded has its number;
* `Remembered` – `Spec => []RunsAreRemembered`. A run is written to the record several steps
  after the row was copied, and the copy a handler works on may be as old; so the
  invariant says what each holds at each step. `Rows`: a row with a line has a record, and one
  without has no run yet. `AtWork`: the metadata in the worker's hands is known to the record, is
  the record's own when the record is rewritten from it, and the row gets a run only once the record
  has it. `Effects`: an agent that has posted had its line recorded. `Handling`: what a handler
  writes back after a merge is known already.
* `AgentsKeepTree`, `Cleaned` – `Spec => []AgentsKeepTheirTree` and `Spec => []MergedIsCleaned`. Both
  need the history of the line, so long as nothing that the properties except has happened
  (`Calmly`). `InTurn`: jobs are begun in the order of their rows, and once one is begun those before
  it have ended. `Chain`: the message of every job of the line but the last has been dealt with
  (`Handled`), so that a verdict which merges is the last job, and no other is at work or will
  be (`NoneAfterMerge`), and an opening is handled before any verdict of the line is there
  (`OpenedBefore`). `Serving` says where the handler that merges is. `Tended`: while the
  worker is at a job of the line the worktree is there, or that job is the verdict that
  merged (`Working`), and at each step of the handler of the merge the record says what is left
  (`Intact` before it, `Told` after it, with an answer that was lost as the only excuse).

Model-checked only: everything temporal under fairness (`EndsEveryJob`,
`NoticedUnlessLost`, `QuestionsAreAnswered`, `SyncsEnd`; the provers have no
rule for fairness). Every invariant and every action property of the runs that is
expected to hold is a theorem. `RunsAreRemembered` is the other way round: proved, and not asked of a
run.

## 11. Not modelled

* **Two processes that write.** The server and any command that builds a service read, modify
  and write the same files; their lock is per process. Nothing in the repository says which
  commands may run beside the server, so there is no promise to check. The one it documents,
  `restart-issue`, is in `JobLifecycle` with atomic row updates.
* **Several repositories.** Each has a queue and a worker of its own and shares nothing with
  the others but storage; `join_all` is called by commands that run once.
* **The rest of the issue dispatch**: the first request, plan comments, the approver's
  rights. They enqueue one job each, and the approval's duplicate check is in `WorkLine`.
* **Several work lines**, and lines of pull requests without an issue.
* **The other checks of doctor**: binaries, tokens, disk, processes and HTTP endpoints of one
  machine at one moment; no state of dani's is involved.
* **Servers of the opencode runner**: spawning, respawning, shutdown. What the service sees of
  a server that dies is a failed call or a lost connection, which `OpencodeRunner` has.
* **Prompts, signatures, session bridge, CLI, models, errors**: text and data classes. **GitHub**
  is external and modelled by what the service asks of it.
