---------------------------- MODULE ReviewLoop ----------------------------
(***************************************************************************)
(* The automation loop of one pull request: DaniService.handle_event turns *)
(* webhooks into jobs, agents answer a job with a signed comment, and the  *)
(* comment's webhook starts the next job: review rounds and the fixes they *)
(* ask for, then a final verdict, then a merge, or the resolution of its   *)
(* conflict and another verdict.                                           *)
(*                                                                         *)
(* Handlers run one at a time on the server's event loop, beside the       *)
(* repository's worker, GitHub and its users.  Webhooks arrive in any      *)
(* order, late, twice or not at all; a handler can be cut short by a crash *)
(* or by GitHub not answering, between any two things it writes.           *)
(*                                                                         *)
(* The worker is JobLifecycle's, reduced to what the handlers read: a row  *)
(* is pending, then completed or failed, completed only when its comment   *)
(* was seen.                                                               *)
(***************************************************************************)
EXTENDS Integers, FiniteSets, FiniteSetsExt

CONSTANTS
  Kind,             \* who opened the pull request, and whether it names an issue
  OwnerAuthor,      \* the author owns the repository: verdicts may merge it
  ReviewRounds,     \* config.review_rounds
  MaxJobs,          \* bound: jobs of the pull request
  MaxDuplicates,    \* bound: comments an agent posts once more
  MaxRetries,       \* bound: capacity retries
  MaxFailures,      \* bound: jobs that fail
  MaxConflicts,     \* bound: merges that GitHub refuses
  MaxActivity,      \* bound: pushes and review requests on the pull request
  MaxRequests,      \* bound: comments that ask for a conflict resolution
  MaxCloses,        \* bound: times a person closes or merges the pull request
  MaxReopenings,    \* bound: times a person opens it again
  MaxRedeliveries,  \* bound: webhooks delivered again, but for the next
  MaxOpenedAgain,   \* bound: the first webhook of the pull request delivered again
  MaxLosses,        \* bound: webhooks that find no server
  MaxErrors,        \* bound: GitHub calls of a handler that raise
  MaxCrashes,       \* bound: process crashes
  MaxKinds          \* bound: how many of these kinds come in one behaviour

ASSUME ConstantsAssumption ==
  /\ Kind \in {"managed", "external", "untracked"}
  /\ OwnerAuthor \in BOOLEAN
  /\ ReviewRounds \in Nat \ {0} /\ MaxJobs \in Nat \ {0}

Jobs == 1..MaxJobs
Stages == {"implementation", "review_round", "merge_conflict_resolution", "final_verdict"}
Active == {"queued", "launched", "retrying"}
Statuses == Active \cup {"completed", "failed", "absent"}

Verdicts == {"APPROVE", "REJECT"}
Managed == Kind = "managed"

VARIABLES
  \* jobs.json: the rows of this pull request, in order
  njobs, stage, round, status,
  \* processed-events.json, terminal-targets.json
  processed, terminal,
  \* the worker thread: the job it runs
  running,
  \* the handler that is running: the event, what it does next, the round it counted
  event, step, nextRound,
  \* GitHub: the pull request, what was posted, webhooks on their way and delivered
  pr, posted, mail, delivered,
  \* history: the job whose comment led to a job, the verdict that merged
  cause, mergedBy,
  \* bounds: how often each thing outside the handlers has happened
  used

rowVars == <<njobs, stage, round, status, cause>>
fileVars == <<processed, terminal>>
handlerVars == <<event, step, nextRound>>
githubVars == <<pr, posted, mergedBy>>
mailVars == <<mail, delivered>>
vars == <<rowVars, fileVars, running, handlerVars, githubVars, mailVars, used>>

Bounds == [duplicate |-> MaxDuplicates, retry |-> MaxRetries, fail |-> MaxFailures,
           conflict |-> MaxConflicts, activity |-> MaxActivity, request |-> MaxRequests, close |-> MaxCloses,
           reopen |-> MaxReopenings, redeliver |-> MaxRedeliveries,
           openedAgain |-> MaxOpenedAgain, lose |-> MaxLosses, error |-> MaxErrors,
           crash |-> MaxCrashes]
Use(b) ==
  /\ used[b] < Bounds[b]
  /\ Cardinality({c \in DOMAIN used : used[c] > 0} \cup {b}) <= MaxKinds
  /\ used' = [used EXCEPT ![b] = @ + 1]

(***************************************************************************)
(* Webhooks.  Each has a number of its own, its delivery id, and the state *)
(* of the pull request when it was sent.                                   *)
(***************************************************************************)
NoEvent == [kind |-> "none", id |-> 0, job |-> 0, verdict |-> "none", open |-> FALSE]

Event(k, j, v, open) ==
  [NoEvent EXCEPT !.kind = k, !.id = Cardinality(mail \cup delivered) + 1,
                  !.job = j, !.verdict = v, !.open = open]

Send(e) == mail' = mail \cup {e} /\ UNCHANGED delivered

\* Mutant of KeyOf: a signature without its job.
KeyWithoutJob(e) == IF e.kind = "comment" THEN <<stage[e.job], round[e.job], e.verdict>>
                    ELSE <<e.kind, e.id, "none">>

\* _agent_event_key, and the keys of the events that have no signature.  Stage,
\* pull request and round of a signature follow from its job.
KeyOf(e) == IF e.kind = "comment" THEN <<"job", e.job, e.verdict>>
            ELSE <<e.kind, e.id, "none">>

(***************************************************************************)
(* The rows, as the handlers read them.                                    *)
(***************************************************************************)
MaxOf(S) == Max(S \cup {0})

ReviewJobs == {j \in 1..njobs : stage[j] = "review_round"}
LatestReviewRound == MaxOf({round[j] : j \in ReviewJobs})

\* The rounds an outside contribution has used: failed and retrying ones do not count.
ConsumedRounds == {round[j] : j \in {k \in ReviewJobs : status[k] \in {"queued", "launched", "completed"}}}

ReviewRoundCap == IF Kind = "untracked" THEN 1 ELSE ReviewRounds
\* Mutant of RoundsExhausted: one round less.
RoundsExhaustedEarly == Cardinality(ConsumedRounds) + 1 >= ReviewRoundCap

\* Mutant of RoundsExhausted: one round more.
RoundsExhaustedLate == Cardinality(ConsumedRounds) > ReviewRoundCap

RoundsExhausted == Cardinality(ConsumedRounds) >= ReviewRoundCap
NextExternalRound == MaxOf(ConsumedRounds) + 1

HasActiveConflictJob ==
  \E j \in 1..njobs : stage[j] = "merge_conflict_resolution" /\ status[j] \in Active

EnqueueJob(s, r, c) ==
  /\ njobs < MaxJobs
  /\ njobs' = njobs + 1
  /\ stage' = [stage EXCEPT ![njobs + 1] = s]
  /\ round' = [round EXCEPT ![njobs + 1] = r]
  /\ status' = [status EXCEPT ![njobs + 1] = "queued"]
  /\ cause' = [cause EXCEPT ![njobs + 1] = c]

(***************************************************************************)
(* Handlers.  Receive is what a handler does before it first asks GitHub   *)
(* or enqueues; the steps after it are Enqueue, CheckOpen, MergePullRequest*)
(* and so on, and "idle" again when it returns.                            *)
(***************************************************************************)
Return == step' = "idle" /\ event' = NoEvent /\ nextRound' = 0
Continue(s, e, r) == step' = s /\ event' = e /\ nextRound' = r

HandlerFrame == UNCHANGED <<running, posted>>

Receive(e) ==
  /\ HandlerFrame /\ step = "idle" /\ e \in mail
  /\ mail' = mail \ {e} /\ delivered' = delivered \cup {e}
  /\ UNCHANGED <<pr, mergedBy, used>>

\* _handle_pull_request_closed; but the text of a pull request with a signature
\* makes its closing an agent's event, which leads nowhere.
ReceiveClosed(e) ==
  /\ Receive(e) /\ e.kind = "closed"
  /\ terminal' = (terminal \/ ~Managed)
  /\ UNCHANGED <<rowVars, processed, handlerVars>>

\* _dispatch_pull_request_opened, for a pull request with an implementation's
\* signature: its job is completed by every such event, a review follows the first kind.
ReceiveManaged(e) ==
  /\ Receive(e) /\ e.kind \in {"opened", "activity"} /\ Managed
  /\ IF ~e.open \/ terminal
     THEN UNCHANGED <<status, handlerVars>>
     ELSE /\ status' = [status EXCEPT ![e.job] = "completed"]
          /\ IF e.kind = "opened" THEN Continue("enqueue", e, 0) ELSE UNCHANGED handlerVars
  /\ UNCHANGED <<njobs, stage, round, cause, fileVars>>

\* Mutant of ReceiveExternal: the delivery is not recorded.
ReceiveExternalAgain(e) ==
  /\ Receive(e) /\ e.kind \in {"opened", "activity"} /\ ~Managed
  /\ IF ~e.open \/ terminal \/ RoundsExhausted THEN UNCHANGED handlerVars ELSE Continue("enqueue", e, NextExternalRound)
  /\ UNCHANGED <<rowVars, fileVars>>

\* The same for one without: every delivery counts once, until the rounds are used up.
ReceiveExternal(e) ==
  /\ Receive(e) /\ e.kind \in {"opened", "activity"} /\ ~Managed
  /\ IF ~e.open \/ terminal \/ KeyOf(e) \in processed
     THEN UNCHANGED <<processed, handlerVars>>
     ELSE /\ processed' = processed \cup {KeyOf(e)}
          /\ IF RoundsExhausted THEN UNCHANGED handlerVars ELSE Continue("enqueue", e, NextExternalRound)
  /\ UNCHANGED <<rowVars, terminal>>

\* Mutant of ReceiveComment: a duplicate is handled like the first.
ReceiveCommentAgain(e) ==
  /\ Receive(e) /\ e.kind = "comment" /\ stage[e.job] # "final_verdict"
  /\ processed' = processed \cup {KeyOf(e)}
  /\ IF Kind = "untracked" /\ stage[e.job] = "review_round" THEN UNCHANGED handlerVars
     ELSE Continue("check", e, 0)
  /\ UNCHANGED <<rowVars, terminal>>

\* A review, an implementation's comment, a conflict resolution: recorded first.
ReceiveComment(e) ==
  /\ Receive(e) /\ e.kind = "comment" /\ stage[e.job] # "final_verdict"
  /\ IF KeyOf(e) \in processed
     THEN UNCHANGED <<processed, handlerVars>>
     ELSE /\ processed' = processed \cup {KeyOf(e)}
          /\ IF Kind = "untracked" /\ stage[e.job] = "review_round" THEN UNCHANGED handlerVars
             ELSE Continue("check", e, 0)
  /\ UNCHANGED <<rowVars, terminal>>

\* Mutant of ReceiveVerdict: recorded first, like the other stages.
ReceiveVerdictRecorded(e) ==
  /\ Receive(e) /\ e.kind = "comment" /\ stage[e.job] = "final_verdict"
  /\ IF e.verdict = "APPROVE" /\ KeyOf(e) \notin processed
     THEN Continue("check", e, 0) /\ processed' = processed \cup {KeyOf(e)}
     ELSE UNCHANGED <<processed, handlerVars>>
  /\ UNCHANGED <<rowVars, terminal>>

\* Mutant of ReceiveVerdict: a rejection is handled like an approval.
ReceiveVerdictAny(e) ==
  /\ Receive(e) /\ e.kind = "comment" /\ stage[e.job] = "final_verdict"
  /\ IF KeyOf(e) \notin processed THEN Continue("check", e, 0) ELSE UNCHANGED handlerVars
  /\ UNCHANGED <<rowVars, fileVars>>

\* A verdict is recorded at the end; a rejection leads nowhere.
ReceiveVerdict(e) ==
  /\ Receive(e) /\ e.kind = "comment" /\ stage[e.job] = "final_verdict"
  /\ IF e.verdict = "APPROVE" /\ KeyOf(e) \notin processed
     THEN Continue("check", e, 0) ELSE UNCHANGED handlerVars
  /\ UNCHANGED <<rowVars, fileVars>>

\* _dispatch_merge_conflict_resolution_request
ReceiveRequest(e) ==
  /\ Receive(e) /\ e.kind = "request"
  /\ IF ~e.open \/ terminal \/ KeyOf(e) \in processed
     THEN UNCHANGED <<processed, handlerVars>>
     ELSE /\ processed' = processed \cup {KeyOf(e)}
          /\ IF HasActiveConflictJob THEN UNCHANGED handlerVars ELSE Continue("enqueue", e, 0)
  /\ UNCHANGED <<rowVars, terminal>>

IsVerdict(e) == e.kind = "comment" /\ stage[e.job] = "final_verdict"

\* Mutant of CheckOpen: the pull request's state is not asked for.
CheckNothing ==
  /\ HandlerFrame /\ step = "check"
  /\ step' = IF ~IsVerdict(event) THEN "enqueue" ELSE IF OwnerAuthor THEN "merge" ELSE "record"
  /\ UNCHANGED <<event, nextRound, rowVars, fileVars, pr, mergedBy, mailVars, used>>

\* _is_pr_open asks GitHub; a verdict then looks at the author.
CheckOpen ==
  /\ HandlerFrame /\ step = "check"
  /\ IF pr # "open" THEN Return
     ELSE /\ step' = IF ~IsVerdict(event) THEN "enqueue" ELSE IF OwnerAuthor THEN "merge" ELSE "record"
          /\ UNCHANGED <<event, nextRound>>
  /\ UNCHANGED <<rowVars, fileVars, pr, mergedBy, mailVars, used>>

\* Mutant of NextStage: the last round is left out.
NextStageEarly(e) ==
  IF e.kind = "request" THEN "merge_conflict_resolution"
  ELSE IF e.kind \in {"opened", "activity"} THEN "review_round"
  ELSE IF stage[e.job] = "review_round" THEN "implementation"
  ELSE IF stage[e.job] = "implementation" /\ LatestReviewRound + 1 < ReviewRounds THEN "review_round"
  ELSE "final_verdict"

\* Mutant of NextStage: the number of rounds is compared one too late.
NextStageLate(e) ==
  IF e.kind = "request" THEN "merge_conflict_resolution"
  ELSE IF e.kind \in {"opened", "activity"} THEN "review_round"
  ELSE IF stage[e.job] = "review_round" THEN "implementation"
  ELSE IF stage[e.job] = "implementation" /\ LatestReviewRound <= ReviewRounds THEN "review_round"
  ELSE "final_verdict"

\* A fix after a review, a review or the verdict after a fix, the verdict after a
\* conflict, the first review of a pull request, a resolution somebody asked for.
NextStage(e) ==
  IF e.kind = "request" THEN "merge_conflict_resolution"
  ELSE IF e.kind \in {"opened", "activity"} THEN "review_round"
  ELSE IF stage[e.job] = "review_round" THEN "implementation"
  ELSE IF stage[e.job] = "implementation" /\ LatestReviewRound < ReviewRounds THEN "review_round"
  ELSE "final_verdict"

NextRound(e) ==
  IF NextStage(e) = "implementation" THEN round[e.job]
  ELSE IF NextStage(e) # "review_round" THEN 0
  ELSE IF e.kind = "comment" THEN LatestReviewRound + 1
  ELSE IF Managed THEN 1 ELSE nextRound

CauseOf(e) == IF e.kind \in {"comment", "opened"} THEN e.job ELSE 0

Enqueue ==
  /\ HandlerFrame /\ step = "enqueue"
  /\ EnqueueJob(NextStage(event), NextRound(event), CauseOf(event))
  /\ Return
  /\ UNCHANGED <<fileVars, pr, mergedBy, mailVars, used>>

\* merge_pull_request: merged, and GitHub's answer may get lost; or refused, always
\* when the pull request is not open any more.
MergePullRequest ==
  /\ HandlerFrame /\ step = "merge" /\ pr = "open"
  /\ pr' = "merged" /\ mergedBy' = event.job /\ Send(Event("closed", 0, "none", FALSE))
  /\ \/ step' = "record" /\ UNCHANGED <<event, nextRound, used>>
     \/ Return /\ Use("error")
  /\ UNCHANGED <<rowVars, fileVars>>

MergeRefused ==
  /\ HandlerFrame /\ step = "merge"
  /\ IF pr = "open" THEN Use("conflict") ELSE UNCHANGED used
  /\ step' = "conflict"
  /\ UNCHANGED <<event, nextRound, rowVars, fileVars, pr, mergedBy, mailVars>>

EnqueueConflict ==
  /\ HandlerFrame /\ step = "conflict"
  /\ EnqueueJob("merge_conflict_resolution", 0, event.job)
  /\ step' = "record"
  /\ UNCHANGED <<event, nextRound, fileVars, pr, mergedBy, mailVars, used>>

RecordVerdict ==
  /\ HandlerFrame /\ step = "record"
  /\ processed' = processed \cup {KeyOf(event)}
  /\ Return
  /\ UNCHANGED <<rowVars, terminal, pr, mergedBy, mailVars, used>>

\* The handlers ask GitHub for the state and the text of the pull request and for
\* the merge; what comes from an opened or activity webhook needs no call.
AsksGitHub == step \in {"check", "merge"} \/ (step = "enqueue" /\ event.kind \in {"comment", "request"})

HandlerRaises ==
  /\ HandlerFrame /\ AsksGitHub /\ Use("error")
  /\ Return
  /\ UNCHANGED <<rowVars, fileVars, pr, mergedBy, mailVars>>

HandlerStep ==
  \/ \E e \in mail : \/ ReceiveClosed(e) \/ ReceiveManaged(e) \/ ReceiveExternal(e)
                     \/ ReceiveComment(e) \/ ReceiveVerdict(e) \/ ReceiveRequest(e)
  \/ CheckOpen \/ Enqueue \/ MergePullRequest \/ MergeRefused \/ EnqueueConflict \/ RecordVerdict

(***************************************************************************)
(* The worker, one job at a time and in the order of the rows, and its     *)
(* agents.                                                                 *)
(***************************************************************************)
WorkerFrame == UNCHANGED <<njobs, stage, round, cause, fileVars, handlerVars, pr, mergedBy>>

Pending(j) == j \in 1..njobs /\ status[j] \in Active

\* Mutant of Launch: the row says running, which the duplicate checks know but nobody writes.
LaunchRunning(j) ==
  /\ WorkerFrame /\ UNCHANGED <<posted, mailVars, used>>
  /\ running = 0 /\ Pending(j) /\ \A k \in 1..njobs : Pending(k) => j <= k
  /\ running' = j /\ status' = [status EXCEPT ![j] = "running"]

Launch(j) ==
  /\ WorkerFrame /\ UNCHANGED <<posted, mailVars, used>>
  /\ running = 0 /\ Pending(j) /\ \A k \in 1..njobs : Pending(k) => j <= k
  /\ running' = j /\ status' = [status EXCEPT ![j] = "launched"]

HasPosted(j) == \E p \in posted : p[1] = j

\* The comment a job asks for; the first implementation opens the pull request.
AgentPosts(j) ==
  /\ running = j /\ status[j] # "retrying"
  /\ \E v \in (IF stage[j] = "final_verdict" THEN Verdicts ELSE {"none"}) :
       /\ IF HasPosted(j) THEN Use("duplicate") ELSE UNCHANGED used
       /\ posted' = posted \cup {<<j, v, Cardinality({p \in posted : p[1] = j})>>}
       /\ IF Managed /\ j = 1
          THEN /\ pr = "none" /\ pr' = "open" /\ Send(Event("opened", j, v, TRUE))
          ELSE /\ UNCHANGED pr /\ Send(Event("comment", j, v, FALSE))
  /\ UNCHANGED <<rowVars, fileVars, running, handlerVars, mergedBy>>

\* The row of a running job says launched, or retrying, or completed when the
\* pull_request_opened handler wrote it.
Retry(j) ==
  /\ WorkerFrame /\ UNCHANGED <<running, posted, mailVars>>
  /\ running = j /\ Use("retry")
  /\ status' = [status EXCEPT ![j] = "retrying"]

\* The next attempt, or the row written once more before the job is completed.
Relaunch(j) ==
  /\ WorkerFrame /\ UNCHANGED <<running, posted, mailVars, used>>
  /\ running = j /\ status[j] # "launched"
  /\ status' = [status EXCEPT ![j] = "launched"]

Complete(j) ==
  /\ WorkerFrame /\ UNCHANGED <<posted, mailVars, used>>
  /\ running = j /\ status[j] = "launched" /\ HasPosted(j)
  /\ running' = 0 /\ status' = [status EXCEPT ![j] = "completed"]

\* A missing comment, a timeout, an error after the comment was posted.
Fail(j) ==
  /\ WorkerFrame /\ UNCHANGED <<posted, mailVars>>
  /\ running = j /\ Use("fail")
  /\ running' = 0 /\ status' = [status EXCEPT ![j] = "failed"]

WorkerStep == \E j \in Jobs : Launch(j) \/ Relaunch(j) \/ Complete(j)

(***************************************************************************)
(* GitHub, its users, and the process that may die.                        *)
(***************************************************************************)
WorldFrame == UNCHANGED <<rowVars, fileVars, running, handlerVars, posted, mergedBy>>

OutsiderOpens ==
  /\ WorldFrame /\ ~Managed /\ pr = "none"
  /\ pr' = "open" /\ Send(Event("opened", 0, "none", TRUE)) /\ UNCHANGED used

\* A push or a review request, by a person or by an agent's push.
Activity ==
  /\ WorldFrame /\ pr = "open" /\ Use("activity")
  /\ Send(Event("activity", IF Managed THEN 1 ELSE 0, "none", TRUE)) /\ UNCHANGED pr

RequestResolution ==
  /\ WorldFrame /\ pr \in {"open", "closed"} /\ Use("request")
  /\ Send(Event("request", 0, "none", pr = "open")) /\ UNCHANGED pr

PersonCloses ==
  /\ WorldFrame /\ pr = "open" /\ Use("close")
  /\ pr' \in {"closed", "merged"} /\ Send(Event("closed", 0, "none", FALSE))

PersonReopens ==
  /\ WorldFrame /\ pr = "closed" /\ Use("reopen")
  /\ pr' = "open" /\ Send(Event("activity", IF Managed THEN 1 ELSE 0, "none", TRUE))

Redeliver(e) ==
  /\ WorldFrame /\ e \in delivered
  /\ Use(IF e.kind = "opened" THEN "openedAgain" ELSE "redeliver")
  /\ mail' = mail \cup {e} /\ delivered' = delivered \ {e} /\ UNCHANGED pr

Lose(e) ==
  /\ WorldFrame /\ e \in mail /\ Use("lose")
  /\ mail' = mail \ {e} /\ delivered' = delivered \cup {e} /\ UNCHANGED pr

\* The next process takes the pending rows up again, or finds their comment.
Crash ==
  /\ Use("crash")
  /\ running' = 0 /\ Return
  /\ \E S \in SUBSET {j \in 1..njobs : status[j] = "launched" /\ HasPosted(j)} :
       status' = [j \in Jobs |-> IF j \in S THEN "completed" ELSE status[j]]
  /\ UNCHANGED <<njobs, stage, round, cause, fileVars, githubVars, mailVars>>

---------------------------------------------------------------------------
Init ==
  /\ njobs = IF Managed THEN 1 ELSE 0
  /\ stage = [j \in Jobs |-> IF Managed /\ j = 1 THEN "implementation" ELSE "none"]
  /\ status = [j \in Jobs |-> IF Managed /\ j = 1 THEN "queued" ELSE "absent"]
  /\ round = [j \in Jobs |-> 0] /\ cause = [j \in Jobs |-> 0]
  /\ processed = {} /\ terminal = FALSE
  /\ running = 0 /\ step = "idle" /\ event = NoEvent /\ nextRound = 0
  /\ pr = "none" /\ posted = {} /\ mail = {} /\ delivered = {} /\ mergedBy = 0
  /\ used = [b \in DOMAIN Bounds |-> 0]

Next ==
  \/ HandlerStep \/ HandlerRaises
  \/ WorkerStep \/ \E j \in Jobs : AgentPosts(j) \/ Retry(j) \/ Fail(j)
  \/ OutsiderOpens \/ Activity \/ RequestResolution \/ PersonCloses \/ PersonReopens
  \/ \E e \in mail : Lose(e)
  \/ \E e \in delivered : Redeliver(e)
  \/ Crash

Spec == Init /\ [][Next]_vars

---------------------------------------------------------------------------
Events == [kind : {"none", "opened", "activity", "comment", "request", "closed"}, id : Nat,
           job : 0..MaxJobs, verdict : Verdicts \cup {"none"}, open : BOOLEAN]

\* Every variable has its type.
TypeOK ==
  /\ njobs \in 0..MaxJobs /\ stage \in [Jobs -> Stages \cup {"none"}]
  /\ round \in [Jobs -> Nat] /\ status \in [Jobs -> Statuses] /\ cause \in [Jobs -> 0..MaxJobs]
  /\ terminal \in BOOLEAN /\ running \in 0..MaxJobs
  /\ step \in {"idle", "check", "enqueue", "merge", "conflict", "record"} /\ event \in Events
  /\ nextRound \in Nat
  /\ pr \in {"none", "open", "closed", "merged"} /\ mergedBy \in 0..MaxJobs
  /\ mail \subseteq Events /\ delivered \subseteq Events
  /\ used \in [DOMAIN Bounds -> Nat]

Posted(j, v) == \E p \in posted : p[1] = j /\ p[2] = v

\* The comments of one job, however often they are posted, delivered and delivered
\* again, and whatever a handler was cut short by, start at most one next job; but a
\* verdict is recorded after its resolution is queued, and a crash can come between,
\* and the webhook that opened dani's own pull request is not recorded at all.
OneSuccessor ==
  \A k, l \in 1..njobs :
    /\ cause[k] = cause[l] /\ cause[k] # 0
    /\ (Managed /\ cause[k] = 1 => used.openedAgain = 0)
    /\ (stage[cause[k]] = "final_verdict" => used.crash = 0)
    => k = l

\* A pull request of dani's own has no review round beyond the configured number,
\* whichever webhooks come again.
RoundNumbersBounded == Managed => \A j \in ReviewJobs : round[j] <= ReviewRounds

\* Rounds an outside contribution has used stay within its limit, although
\* pushes and the fixes' comments both ask for the next one; a round that is being
\* retried is not counted and comes back, so retries are left out.
ConsumedRoundsBounded ==
  ~Managed /\ used.retry = 0 => Cardinality(ConsumedRounds) <= ReviewRoundCap

\* Before a merge, each round was reviewed and each review was answered.
EveryRoundDone ==
  \A r \in 1..ReviewRounds :
    \A s \in {"review_round", "implementation"} :
      \E j \in 1..njobs : stage[j] = s /\ round[j] = r /\ HasPosted(j)

\* dani merges only what an owner wrote and a final verdict approved, and merges once:
\* a rejection, another comment or an earlier verdict's echo never does.
MergeIsApproved ==
  mergedBy # 0 =>
    /\ OwnerAuthor /\ pr = "merged"
    /\ stage[mergedBy] = "final_verdict" /\ Posted(mergedBy, "APPROVE")

\* dani's own pull request is merged only after every round, unless a person asked for
\* a conflict's resolution (which leads to a verdict at once) or its first webhook came
\* again (see ReviewedBeforeMerge).
EveryRoundBeforeMerge ==
  Managed /\ mergedBy # 0 /\ used.request = 0 /\ used.openedAgain = 0 => EveryRoundDone

\* An approving verdict is never recorded without its effect, so that delivering the
\* webhook again repairs whatever cut the handler short: recorded means merged,
\* left to a human, or the conflict's resolution queued.
RecordedVerdictHasEffect ==
  \A j \in 1..njobs :
    stage[j] = "final_verdict" /\ <<"job", j, "APPROVE">> \in processed =>
      \/ ~OwnerAuthor \/ mergedBy = j
      \/ \E k \in 1..njobs : stage[k] = "merge_conflict_resolution" /\ cause[k] = j

\* Nothing is under way: no webhook, no handler, no job.
Quiescent ==
  /\ mail = {} /\ step = "idle" /\ running = 0
  /\ \A j \in 1..njobs : status[j] \notin Active

\* A loop that stops on an open pull request has a reason its people can see: a job
\* failed, a verdict rejected it, a human has to merge, it was closed in between or
\* names no issue; or GitHub and the process failed it.
StoppedForAReason ==
  Quiescent /\ pr = "open" /\ Kind # "untracked" =>
    \/ \E j \in 1..njobs : status[j] = "failed" \/ Posted(j, "REJECT")
    \/ ~OwnerAuthor /\ \E j \in 1..njobs : Posted(j, "APPROVE")
    \/ \E b \in {"fail", "close", "error", "crash", "lose"} : used[b] > 0

\* Once the closing of a pull request is recorded nothing starts a job for it,
\* whatever webhooks are still on their way; unless somebody opens it again.
AfterCloseNothingStarts ==
  [][terminal /\ used.reopen = 0 => UNCHANGED njobs]_vars

---------------------------------------------------------------------------
(***************************************************************************)
(* What the repository says, and the code does not do.                     *)
(***************************************************************************)
\* tests/test_service.py:5213 test_pull_request_closed_merged_marks_terminal_pr_and_issue:
\* the closing of a pull request is recorded when its webhook was handled.
ClosedIsTerminal ==
  (\E e \in delivered : e.kind = "closed") => terminal

\* README.md "3 review rounds for agent-authored PRs": what dani merges of its own
\* went through every round, whichever webhooks came twice.
ReviewedBeforeMerge ==
  Managed /\ mergedBy # 0 => EveryRoundDone
===========================================================================
