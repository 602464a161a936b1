-------------------------- MODULE ReviewLoopProofs --------------------------
(***************************************************************************)
(* Proofs about ReviewLoop, for every kind of pull request, number of      *)
(* rounds, jobs, duplicates, losses, errors and crashes.                   *)
(***************************************************************************)
EXTENDS ReviewLoop, TLAPS, FiniteSetTheorems, WellFoundedInduction

---------------------------------------------------------------------------
(***************************************************************************)
(* Operators.                                                              *)
(***************************************************************************)

\* The fields of a webhook.
LEMMA EventFields ==
  ASSUME NEW k, NEW j, NEW v, NEW open
  PROVE  Event(k, j, v, open) = [kind |-> k, id |-> Cardinality(mail \cup delivered) + 1,
                                 job |-> j, verdict |-> v, open |-> open]
<1> DEFINE n == Cardinality(mail \cup delivered) + 1
<1>1. Event(k, j, v, open) = [NoEvent EXCEPT !.kind = k, !.id = n, !.job = j, !.verdict = v, !.open = open]
  BY DEF Event
<1> HIDE DEF n
<1>2. Event(k, j, v, open) = [kind |-> k, id |-> n, job |-> j, verdict |-> v, open |-> open]
  BY <1>1 DEF NoEvent
<1> QED BY <1>2 DEF n

\* A bounded set of numbers that is not empty has a largest one.
LEMMA MaxExists ==
  ASSUME NEW n \in Nat, NEW S \in SUBSET (0..n), S # {}
  PROVE  \E x \in S : \A y \in S : x >= y
<1> DEFINE T == {m \in Nat : \A y \in S : m >= y}
<1>1. T \subseteq Nat /\ n \in T
  OBVIOUS
<1>2. PICK m \in T : \A y \in T : <<y, m>> \notin OpToRel(<, Nat)
  BY <1>1, NatLessThanWellFounded, WFMin
<1>3. \A y \in T : ~(y < m)
  BY <1>1, <1>2 DEF OpToRel
<1>4. m \in Nat /\ \A y \in S : m >= y
  BY <1>2
<1>5. m \in S
  <2> SUFFICES ASSUME m \notin S PROVE FALSE
    OBVIOUS
  <2>1. \A y \in S : y \in Nat /\ y < m
    BY <1>4
  <2>2. m >= 1
    <3>1. PICK y \in S : TRUE
      OBVIOUS
    <3> QED BY <3>1, <2>1, <1>4
  <2>3. m - 1 \in Nat /\ \A y \in S : m - 1 >= y
    BY <1>4, <2>1, <2>2
  <2>4. m - 1 \in T
    BY <2>3
  <2> QED BY <2>4, <1>3, <1>4
<1> QED BY <1>4, <1>5

\* The largest of a bounded set of numbers, 0 if there is none.
LEMMA MaxOfBounded ==
  ASSUME NEW n \in Nat, NEW S \in SUBSET (0..n)
  PROVE  MaxOf(S) \in 0..n /\ \A y \in S : MaxOf(S) >= y
<1> DEFINE T == S \cup {0}
<1>1. T \in SUBSET (0..n) /\ T # {}
  OBVIOUS
<1>2. \E x \in T : \A y \in T : x >= y
  BY <1>1, MaxExists
<1>3. Max(T) \in T /\ \A y \in T : Max(T) >= y
  BY <1>2 DEF Max
<1>4. MaxOf(S) = Max(T)
  BY DEF MaxOf
<1> QED BY <1>1, <1>3, <1>4

---------------------------------------------------------------------------
(***************************************************************************)
(* Types.                                                                  *)
(***************************************************************************)
\* Where a handler can be.
Steps == {"idle", "check", "enqueue", "merge", "conflict", "record"}

\* Rounds are not above the number of their row, nor is the one a handler counted
\* above the number of the row it will add; so every maximum of rounds exists.
RowType ==
  /\ njobs \in 0..MaxJobs /\ stage \in [Jobs -> Stages \cup {"none"}]
  /\ status \in [Jobs -> Statuses] /\ cause \in [Jobs -> 0..njobs]
  /\ round \in [Jobs -> Nat] /\ \A j \in 1..njobs : round[j] <= j
  /\ nextRound \in 0..(njobs + 1)
  /\ (Managed => njobs >= 1)

\* Webhooks name rows, and there are finitely many, so that they can be numbered.
MailType ==
  /\ mail \subseteq Events /\ delivered \subseteq Events /\ event \in Events
  /\ IsFiniteSet(mail) /\ IsFiniteSet(delivered)
  /\ \A e \in mail \cup delivered \cup {event} : e.job \in 0..njobs /\ (e.kind = "comment" => e.job # 0)

\* A handler that is under way has something to handle.
OtherType ==
  /\ terminal \in BOOLEAN /\ running \in 0..njobs /\ step \in Steps
  /\ pr \in {"none", "open", "closed", "merged"} /\ mergedBy \in 0..njobs
  /\ used \in [DOMAIN Bounds -> Nat]
  /\ step # "idle" => event.kind \in {"opened", "activity", "comment", "request"}

TypeInv == RowType /\ MailType /\ OtherType

\* The rows a handler looks at have rounds that are bounded.
LEMMA RoundsSeen ==
  ASSUME RowType
  PROVE  /\ LatestReviewRound \in 0..njobs
         /\ \A j \in ReviewJobs : round[j] <= LatestReviewRound
         /\ NextExternalRound \in 0..(njobs + 1)
<1>1. njobs \in Nat /\ \A j \in 1..njobs : j \in Jobs /\ round[j] \in 0..njobs
  BY ConstantsAssumption DEF RowType, Jobs
<1>2. {round[j] : j \in ReviewJobs} \in SUBSET (0..njobs)
  BY <1>1 DEF ReviewJobs
<1>3. ConsumedRounds \in SUBSET (0..njobs)
  BY <1>1 DEF ConsumedRounds, ReviewJobs
<1>4. LatestReviewRound \in 0..njobs /\ \A j \in ReviewJobs : round[j] <= LatestReviewRound
  BY <1>1, <1>2, MaxOfBounded DEF LatestReviewRound
<1>5. MaxOf(ConsumedRounds) \in 0..njobs
  BY <1>1, <1>3, MaxOfBounded
<1> QED BY <1>1, <1>4, <1>5 DEF NextExternalRound

\* A webhook that is sent keeps the mail typed.
LEMMA SendType ==
  ASSUME MailType, njobs' = njobs, njobs \in 0..MaxJobs, event' = event \/ event' = NoEvent,
         NEW k \in {"opened", "activity", "comment", "request", "closed"}, NEW j \in 0..njobs,
         NEW v \in Verdicts \cup {"none"}, NEW open \in BOOLEAN,
         k = "comment" => j # 0, Send(Event(k, j, v, open))
  PROVE  MailType'
<1> DEFINE e == Event(k, j, v, open)
<1>1. mail' = mail \cup {e} /\ delivered' = delivered
  BY DEF Send
<1>2. IsFiniteSet(mail \cup delivered)
  BY FS_Union DEF MailType
<1>3. Cardinality(mail \cup delivered) + 1 \in Nat
  BY <1>2, FS_CardinalityType
<1>4. e = [kind |-> k, id |-> Cardinality(mail \cup delivered) + 1, job |-> j, verdict |-> v, open |-> open]
  BY EventFields
<1>5. e \in Events /\ e.job \in 0..njobs /\ (e.kind = "comment" => e.job # 0)
  BY <1>3, <1>4, ConstantsAssumption DEF Events
<1>6. IsFiniteSet(mail')
  BY <1>1, FS_AddElement DEF MailType
<1>7. NoEvent \in Events /\ NoEvent.job = 0 /\ NoEvent.kind = "none"
  BY ConstantsAssumption DEF NoEvent, Events
<1> HIDE DEF e
<1> QED BY <1>1, <1>5, <1>6, <1>7 DEF MailType

\* So does a webhook that is received, lost or delivered again.
LEMMA MoveType ==
  ASSUME MailType, njobs' = njobs, event' = event \/ event' = NoEvent \/ event' \in mail,
         njobs \in 0..MaxJobs, NEW e \in mail \cup delivered,
         \/ mail' = mail \ {e} /\ delivered' = delivered \cup {e}
         \/ mail' = mail \cup {e} /\ delivered' = delivered \ {e}
  PROVE  MailType'
<1>1. IsFiniteSet(mail') /\ IsFiniteSet(delivered')
  BY FS_AddElement, FS_RemoveElement DEF MailType
<1>2. NoEvent \in Events /\ NoEvent.job = 0 /\ NoEvent.kind = "none"
  BY ConstantsAssumption DEF NoEvent, Events
<1> QED BY <1>1, <1>2 DEF MailType

\* A new row is typed.
LEMMA EnqueueType ==
  ASSUME RowType, NEW s \in Stages, NEW r \in 0..(njobs + 1), NEW c \in 0..njobs,
         EnqueueJob(s, r, c), nextRound' \in {nextRound, 0}
  PROVE  RowType' /\ njobs' = njobs + 1 /\ njobs + 1 \in Jobs
<1>1. njobs \in Nat /\ njobs' = njobs + 1 /\ njobs + 1 \in Jobs /\ njobs' \in 0..MaxJobs
  BY ConstantsAssumption DEF EnqueueJob, RowType, Jobs
<1>2. stage' \in [Jobs -> Stages \cup {"none"}] /\ status' \in [Jobs -> Statuses]
  BY DEF EnqueueJob, RowType, Statuses, Active
<1>3. cause \in [Jobs -> 0..njobs'] /\ c \in 0..njobs'
  BY <1>1 DEF RowType
<1>4. cause' \in [Jobs -> 0..njobs']
  BY <1>3 DEF EnqueueJob
<1>5. round' \in [Jobs -> Nat] /\ round' = [round EXCEPT ![njobs + 1] = r] /\ r \in Nat
  BY <1>1 DEF EnqueueJob, RowType
<1>6. \A j \in 1..njobs' : round'[j] <= j
  <2> TAKE j \in 1..njobs'
  <2>1. CASE j = njobs + 1
    BY <2>1, <1>1, <1>5 DEF RowType
  <2>2. CASE j # njobs + 1
    BY <2>2, <1>1, <1>5 DEF RowType, Jobs
  <2> QED BY <2>1, <2>2
<1>7. nextRound' \in 0..(njobs' + 1)
  BY <1>1 DEF RowType
<1> QED BY <1>1, <1>2, <1>4, <1>5, <1>6, <1>7 DEF RowType

\* The used bounds stay numbers and never fall.
LEMMA UsedStep ==
  ASSUME OtherType, [Next]_vars
  PROVE  used' \in [DOMAIN Bounds -> Nat] /\ \A b \in DOMAIN Bounds : used'[b] >= used[b]
<1>1. used \in [DOMAIN Bounds -> Nat]
  BY DEF OtherType
<1>2. UNCHANGED used \/ \E b \in {"duplicate", "retry", "fail", "conflict", "activity", "request",
          "close", "reopen", "redeliver", "openedAgain", "lose", "error", "crash"} : Use(b)
  BY DEF Next, vars, HandlerStep, Receive, ReceiveClosed, ReceiveManaged, ReceiveExternal, ReceiveComment,
         ReceiveVerdict, ReceiveRequest, CheckOpen, Enqueue, MergePullRequest, MergeRefused, EnqueueConflict,
         RecordVerdict, HandlerRaises, WorkerStep, Launch, Relaunch, Complete, AgentPosts, Retry, Fail,
         OutsiderOpens, Activity, RequestResolution, PersonCloses, PersonReopens, Lose, Redeliver, Crash
<1>3. ASSUME NEW b, Use(b) PROVE used' = [used EXCEPT ![b] = used[b] + 1]
  BY <1>3 DEF Use
<1> HIDE DEF Bounds
<1> QED BY <1>1, <1>2, <1>3

\* Types are kept by what only the worker does.
LEMMA WorkerTypeStep ==
  ASSUME TypeInv, NEW j \in Jobs,
         Launch(j) \/ Relaunch(j) \/ Complete(j) \/ Retry(j) \/ Fail(j)
  PROVE  RowType' /\ MailType' /\ running' \in 0..njobs /\ UNCHANGED <<terminal, step, pr, mergedBy, njobs>>
<1>1. UNCHANGED <<njobs, stage, round, cause, fileVars, handlerVars, pr, mergedBy, mailVars>>
  BY DEF Launch, Relaunch, Complete, Retry, Fail, WorkerFrame
<1>2. running' \in 0..njobs
  BY ConstantsAssumption DEF Launch, Relaunch, Complete, Retry, Fail, Pending, TypeInv, RowType, OtherType
<1>3. status' \in [Jobs -> Statuses]
  BY DEF Launch, Relaunch, Complete, Retry, Fail, TypeInv, RowType, Statuses, Active
<1> QED BY <1>1, <1>2, <1>3 DEF TypeInv, RowType, MailType, fileVars, handlerVars, mailVars

\* Types are kept by what happens on GitHub.
LEMMA WorldTypeStep ==
  ASSUME TypeInv,
         \/ OutsiderOpens \/ Activity \/ RequestResolution \/ PersonCloses \/ PersonReopens
         \/ \E e \in mail : Lose(e)
         \/ \E e \in delivered : Redeliver(e)
  PROVE  RowType' /\ MailType' /\ pr' \in {"none", "open", "closed", "merged"}
         /\ UNCHANGED <<terminal, step, running, mergedBy, njobs>>
<1>1. UNCHANGED <<rowVars, fileVars, running, handlerVars, mergedBy>>
  BY DEF OutsiderOpens, Activity, RequestResolution, PersonCloses, PersonReopens, Lose, Redeliver, WorldFrame
<1>2. RowType'
  BY <1>1 DEF TypeInv, RowType, rowVars, handlerVars
<1>3. pr' \in {"none", "open", "closed", "merged"}
  BY DEF OutsiderOpens, Activity, RequestResolution, PersonCloses, PersonReopens, Lose, Redeliver, TypeInv, OtherType
<1>4. njobs' = njobs /\ event' = event /\ njobs \in 0..MaxJobs /\ njobs \in Nat /\ MailType
  BY <1>1, ConstantsAssumption DEF rowVars, handlerVars, TypeInv, RowType
<1>5. 0 \in 0..njobs /\ (Managed => 1 \in 0..njobs)
  BY <1>4 DEF TypeInv, RowType
<1>6. MailType'
  <2>1. CASE OutsiderOpens
    BY <2>1, <1>4, <1>5, SendType DEF OutsiderOpens
  <2>2. CASE Activity
    <3>1. Send(Event("activity", IF Managed THEN 1 ELSE 0, "none", TRUE))
      BY <2>2 DEF Activity
    <3> QED BY <3>1, <1>4, <1>5, SendType
  <2>3. CASE RequestResolution
    BY <2>3, <1>4, <1>5, SendType DEF RequestResolution
  <2>4. CASE PersonCloses
    BY <2>4, <1>4, <1>5, SendType DEF PersonCloses
  <2>5. CASE PersonReopens
    <3>1. Send(Event("activity", IF Managed THEN 1 ELSE 0, "none", TRUE))
      BY <2>5 DEF PersonReopens
    <3> QED BY <3>1, <1>4, <1>5, SendType
  <2>6. ASSUME NEW e \in mail, Lose(e) PROVE MailType'
    BY <2>6, <1>4, MoveType DEF Lose
  <2>7. ASSUME NEW e \in delivered, Redeliver(e) PROVE MailType'
    BY <2>7, <1>4, MoveType DEF Redeliver
  <2> QED BY <2>1, <2>2, <2>3, <2>4, <2>5, <2>6, <2>7
<1> QED BY <1>1, <1>2, <1>3, <1>6 DEF rowVars, fileVars, handlerVars

\* What a handler writes when a webhook arrives, but for its own state.
LEMMA ReceiveTypeStep ==
  ASSUME TypeInv, NEW e \in mail,
         \/ ReceiveClosed(e) \/ ReceiveManaged(e) \/ ReceiveExternal(e)
         \/ ReceiveComment(e) \/ ReceiveVerdict(e) \/ ReceiveRequest(e)
  PROVE  RowType' /\ MailType' /\ terminal' \in BOOLEAN /\ step' \in Steps
         /\ (step' # "idle" => event'.kind \in {"opened", "activity", "comment", "request"})
         /\ UNCHANGED <<running, pr, mergedBy, njobs>>
<1>1. /\ UNCHANGED <<running, pr, mergedBy, njobs, stage, round, cause>>
      /\ mail' = mail \ {e} /\ delivered' = delivered \cup {e}
  BY DEF Receive, HandlerFrame, rowVars, ReceiveClosed, ReceiveManaged, ReceiveExternal, ReceiveComment,
         ReceiveVerdict, ReceiveRequest
<1>2. event' \in {event, e} /\ nextRound' \in {nextRound, 0, NextExternalRound} /\ step' \in Steps
      /\ (step' # "idle" => event'.kind \in {"opened", "activity", "comment", "request"})
  BY DEF Receive, handlerVars, Continue, Steps, TypeInv, OtherType, ReceiveClosed, ReceiveManaged, ReceiveExternal,
         ReceiveComment, ReceiveVerdict, ReceiveRequest
<1>3. terminal' \in BOOLEAN
  BY DEF fileVars, TypeInv, OtherType, ReceiveClosed, ReceiveManaged, ReceiveExternal, ReceiveComment,
         ReceiveVerdict, ReceiveRequest
<1>4. status' \in [Jobs -> Statuses]
  BY DEF rowVars, ReceiveClosed, ReceiveManaged, ReceiveExternal, ReceiveComment, ReceiveVerdict, ReceiveRequest,
         TypeInv, RowType, Statuses
<1>5. RowType'
  <2>1. nextRound' \in 0..(njobs + 1)
    BY <1>2, RoundsSeen, ConstantsAssumption DEF TypeInv, RowType
  <2> QED BY <1>1, <1>4, <2>1 DEF TypeInv, RowType
<1>6. MailType'
  BY <1>1, <1>2, MoveType DEF TypeInv, RowType
<1> QED BY <1>1, <1>2, <1>3, <1>5, <1>6

\* A handler's next job has a stage, a round and a cause.
LEMMA NextJobType ==
  ASSUME TypeInv, step = "enqueue"
  PROVE  NextStage(event) \in Stages /\ NextRound(event) \in 0..(njobs + 1) /\ CauseOf(event) \in 0..njobs
<1>1. njobs \in Nat /\ LatestReviewRound \in 0..njobs /\ event.job \in 0..njobs
  BY RoundsSeen, ConstantsAssumption DEF TypeInv, RowType, MailType
<1>2. NextStage(event) \in Stages
  BY DEF NextStage, Stages
<1>3. CauseOf(event) \in 0..njobs
  BY <1>1 DEF CauseOf
<1>4. nextRound \in 0..(njobs + 1)
  BY DEF TypeInv, RowType
<1>5. NextStage(event) = "implementation" => round[event.job] \in 0..(njobs + 1)
  <2> SUFFICES ASSUME NextStage(event) = "implementation" PROVE round[event.job] \in 0..(njobs + 1)
    OBVIOUS
  <2>1. event.kind = "comment"
    BY DEF NextStage, TypeInv, OtherType
  <2>2. event.job \in 1..njobs /\ event.job \in Jobs
    BY <2>1, <1>1, ConstantsAssumption DEF TypeInv, RowType, MailType, Jobs
  <2> QED BY <2>2, <1>1 DEF TypeInv, RowType
<1> QED BY <1>1, <1>2, <1>3, <1>4, <1>5 DEF NextRound

\* The types are inductive.
LEMMA TypeStep == TypeInv /\ [Next]_vars => TypeInv'
<1> SUFFICES ASSUME TypeInv, [Next]_vars PROVE TypeInv'
  OBVIOUS
<1>1. used' \in [DOMAIN Bounds -> Nat]
  BY UsedStep DEF TypeInv
<1>2. /\ njobs \in 0..MaxJobs /\ njobs \in Nat /\ event.job \in 0..njobs /\ MaxJobs \in Nat
      /\ event \in Events /\ running \in 0..njobs /\ step \in Steps /\ terminal \in BOOLEAN
      /\ mergedBy \in 0..njobs /\ pr \in {"none", "open", "closed", "merged"}
      /\ step # "idle" => event.kind \in {"opened", "activity", "comment", "request"}
      /\ MailType /\ RowType
  BY ConstantsAssumption DEF TypeInv, RowType, MailType, OtherType
<1>3. ASSUME Return, UNCHANGED <<njobs, stage, round, cause, mail, delivered>>, status' \in [Jobs -> Statuses]
      PROVE  RowType' /\ MailType' /\ step' = "idle"
  <2>1. NoEvent \in Events /\ NoEvent.job = 0 /\ NoEvent.kind = "none"
    BY <1>2 DEF NoEvent, Events
  <2> QED BY <2>1, <1>2, <1>3 DEF Return, RowType, MailType
<1>4. CASE \E e \in mail : \/ ReceiveClosed(e) \/ ReceiveManaged(e) \/ ReceiveExternal(e)
                           \/ ReceiveComment(e) \/ ReceiveVerdict(e) \/ ReceiveRequest(e)
  BY <1>1, <1>2, <1>4, ReceiveTypeStep DEF TypeInv, OtherType
<1>5. CASE CheckOpen \/ HandlerRaises
  <2>1. UNCHANGED <<rowVars, fileVars, pr, mergedBy, mailVars, running>>
    BY <1>5 DEF CheckOpen, HandlerRaises, HandlerFrame
  <2>2. CASE Return
    BY <2>1, <2>2, <1>1, <1>2, <1>3 DEF TypeInv, OtherType, RowType, rowVars, fileVars, mailVars, Steps
  <2>3. CASE step' \in {"enqueue", "merge", "record"} /\ UNCHANGED <<event, nextRound>> /\ step = "check"
    BY <2>1, <2>3, <1>1, <1>2 DEF TypeInv, OtherType, RowType, MailType, rowVars, fileVars, mailVars, Steps
  <2> QED BY <2>2, <2>3, <1>5 DEF CheckOpen, HandlerRaises
<1>6. CASE Enqueue
  <2>1. /\ EnqueueJob(NextStage(event), NextRound(event), CauseOf(event)) /\ Return
        /\ UNCHANGED <<terminal, pr, mergedBy, mail, delivered, running>>
    BY <1>6 DEF Enqueue, HandlerFrame, fileVars, mailVars
  <2>2. NextStage(event) \in Stages /\ NextRound(event) \in 0..(njobs + 1) /\ CauseOf(event) \in 0..njobs
    BY <1>6, NextJobType DEF Enqueue
  <2>3. RowType' /\ njobs' = njobs + 1
    BY <2>1, <2>2, <1>2, EnqueueType DEF Return
  <2>4. MailType'
    <3>1. NoEvent \in Events /\ NoEvent.job = 0 /\ NoEvent.kind = "none"
      BY <1>2 DEF NoEvent, Events
    <3> QED BY <3>1, <2>1, <2>3, <1>2 DEF Return, MailType
  <2> QED BY <2>1, <2>3, <2>4, <1>1, <1>2 DEF TypeInv, OtherType, Return, Steps
<1>7. CASE MergePullRequest
  <2>1. /\ Send(Event("closed", 0, "none", FALSE)) /\ pr' = "merged" /\ mergedBy' = event.job
        /\ UNCHANGED <<terminal, rowVars, running>> /\ step = "merge"
    BY <1>7 DEF MergePullRequest, HandlerFrame, fileVars
  <2>2. njobs' = njobs /\ (nextRound' \in {nextRound, 0} => RowType')
    BY <2>1, <1>2 DEF RowType, rowVars
  <2>3. ASSUME UNCHANGED event \/ event' = NoEvent PROVE MailType'
    <3>1. njobs' = njobs /\ 0 \in 0..njobs /\ "closed" # "comment"
      BY <2>1, <1>2 DEF rowVars
    <3>2. Send(Event("closed", 0, "none", FALSE)) /\ (event' = event \/ event' = NoEvent)
      BY <2>1, <2>3
    <3> QED BY <3>1, <3>2, <1>2, SendType
  <2>4. ASSUME UNCHANGED <<event, nextRound>>, step' = "record" PROVE TypeInv'
    BY <2>1, <2>2, <2>3, <2>4, <1>1, <1>2 DEF TypeInv, OtherType, Steps, rowVars
  <2>5. ASSUME Return PROVE TypeInv'
    BY <2>1, <2>2, <2>3, <2>5, <1>1, <1>2 DEF TypeInv, OtherType, Steps, Return, rowVars
  <2> QED BY <2>4, <2>5, <1>7 DEF MergePullRequest
<1>8. CASE MergeRefused
  <2>1. UNCHANGED <<rowVars, fileVars, pr, mergedBy, mailVars, running, event, nextRound>> /\ step = "merge" /\ step' = "conflict"
    BY <1>8 DEF MergeRefused, HandlerFrame
  <2> QED BY <2>1, <1>1, <1>2 DEF TypeInv, OtherType, RowType, MailType, rowVars, fileVars, mailVars, Steps
<1>9. CASE EnqueueConflict
  <2>1. /\ EnqueueJob("merge_conflict_resolution", 0, event.job) /\ step = "conflict" /\ step' = "record"
        /\ UNCHANGED <<terminal, pr, mergedBy, mail, delivered, running, event, nextRound>>
    BY <1>9 DEF EnqueueConflict, HandlerFrame, fileVars, mailVars
  <2>2. RowType' /\ njobs' = njobs + 1
    BY <2>1, <1>2, EnqueueType DEF Stages
  <2>3. MailType'
    BY <2>1, <2>2, <1>2 DEF MailType
  <2> QED BY <2>1, <2>2, <2>3, <1>1, <1>2 DEF TypeInv, OtherType, Steps
<1>10. CASE RecordVerdict
  <2>1. UNCHANGED <<rowVars, terminal, pr, mergedBy, mailVars, running>> /\ Return
    BY <1>10 DEF RecordVerdict, HandlerFrame
  <2> QED BY <2>1, <1>1, <1>2, <1>3 DEF TypeInv, OtherType, RowType, rowVars, mailVars, Steps
<1>11. CASE \E j \in Jobs : Launch(j) \/ Relaunch(j) \/ Complete(j) \/ Retry(j) \/ Fail(j)
  <2>1. UNCHANGED handlerVars
    BY <1>11 DEF Launch, Relaunch, Complete, Retry, Fail, WorkerFrame
  <2> QED BY <2>1, <1>11, <1>1, <1>2, WorkerTypeStep DEF TypeInv, OtherType, handlerVars
<1>12. ASSUME NEW j \in Jobs, AgentPosts(j) PROVE TypeInv'
  <2>1. j \in 1..njobs /\ UNCHANGED <<rowVars, terminal, running, handlerVars, mergedBy>>
    BY <1>12, <1>2 DEF AgentPosts, fileVars, Jobs
  <2>2. pr' \in {"none", "open", "closed", "merged"}
    BY <1>12, <1>2 DEF AgentPosts
  <2>3. PICK v \in Verdicts \cup {"none"} :
          \/ Send(Event("opened", j, v, TRUE))
          \/ Send(Event("comment", j, v, FALSE))
    BY <1>12 DEF AgentPosts
  <2>4. MailType'
    <3>1. njobs' = njobs /\ j \in 0..njobs /\ j # 0 /\ event' = event
      BY <2>1, <1>2 DEF rowVars, handlerVars
    <3>2. CASE Send(Event("opened", j, v, TRUE))
      BY <3>1, <3>2, <1>2, SendType
    <3>3. CASE Send(Event("comment", j, v, FALSE))
      BY <3>1, <3>3, <1>2, SendType
    <3> QED BY <3>2, <3>3, <2>3
  <2> QED BY <2>1, <2>2, <2>4, <1>1, <1>2 DEF TypeInv, OtherType, RowType, rowVars, handlerVars
<1>13. CASE \/ OutsiderOpens \/ Activity \/ RequestResolution \/ PersonCloses \/ PersonReopens
            \/ \E e \in mail : Lose(e)
            \/ \E e \in delivered : Redeliver(e)
  <2>1. UNCHANGED handlerVars
    BY <1>13 DEF OutsiderOpens, Activity, RequestResolution, PersonCloses, PersonReopens, Lose, Redeliver, WorldFrame
  <2> QED BY <2>1, <1>13, <1>1, <1>2, WorldTypeStep DEF TypeInv, OtherType, handlerVars
<1>14. CASE Crash
  <2>1. /\ UNCHANGED <<njobs, stage, round, cause, terminal, pr, mergedBy, mail, delivered>> /\ Return /\ running' = 0
    BY <1>14 DEF Crash, fileVars, githubVars, mailVars
  <2>2. status' \in [Jobs -> Statuses]
    BY <1>14, <1>2 DEF Crash, RowType, Statuses
  <2> QED BY <2>1, <2>2, <1>1, <1>2, <1>3 DEF TypeInv, OtherType, Steps
<1>15. CASE UNCHANGED vars
  BY <1>15, <1>2, <1>1 DEF vars, TypeInv, OtherType, RowType, MailType, rowVars, fileVars, handlerVars, githubVars, mailVars
<1> QED BY <1>4, <1>5, <1>6, <1>7, <1>8, <1>9, <1>10, <1>11, <1>12, <1>13, <1>14, <1>15
        DEF Next, HandlerStep, WorkerStep

\* The types hold at the start.
LEMMA InitType == Init => TypeInv
<1> SUFFICES ASSUME Init PROVE TypeInv
  OBVIOUS
<1>1. MaxJobs \in Nat \ {0} /\ 1..0 = {} /\ 1 \in Jobs
  BY ConstantsAssumption DEF Jobs
<1>2. RowType
  BY <1>1 DEF Init, RowType, Stages, Statuses, Active
<1>3. MailType
  <2>1. NoEvent \in Events /\ NoEvent.job = 0 /\ NoEvent.kind = "none"
    BY <1>1 DEF NoEvent, Events
  <2> QED BY <2>1, <1>1, FS_EmptySet DEF Init, MailType
<1>4. used \in [DOMAIN Bounds -> Nat]
  BY DEF Init
<1>5. OtherType
  <2>1. 0 \in 0..njobs
    BY DEF Init
  <2> QED BY <2>1, <1>4 DEF OtherType, Init, Steps
<1> QED BY <1>2, <1>3, <1>5 DEF TypeInv

\* Every variable has its type, whatever happens to the pull request.
THEOREM TypeCorrect == Spec => []TypeOK
<1>1. TypeInv => TypeOK
  BY ConstantsAssumption DEF TypeInv, RowType, MailType, OtherType, Steps, TypeOK, Statuses
<1> QED BY <1>1, InitType, TypeStep, PTL DEF Spec

---------------------------------------------------------------------------
(***************************************************************************)
(* What stays: rows keep what they are about, comments stay posted, keys   *)
(* stay recorded.                                                          *)
(***************************************************************************)

\* Rows are added, and what the handlers read of a row but its status stays.
LEMMA RowsStay ==
  ASSUME TypeInv, [Next]_vars
  PROVE  /\ njobs \in Nat /\ njobs' \in {njobs, njobs + 1}
         /\ \A j \in 1..njobs : stage'[j] = stage[j] /\ round'[j] = round[j] /\ cause'[j] = cause[j]
         /\ posted \subseteq posted' /\ processed \subseteq processed'
<1>1. njobs \in Nat /\ \A j \in 1..njobs : j # njobs + 1 /\ j \in Jobs
  BY ConstantsAssumption DEF TypeInv, RowType, Jobs
<1>2. CASE Enqueue \/ EnqueueConflict
  <2>1. PICK s, r, c : EnqueueJob(s, r, c)
    BY <1>2 DEF Enqueue, EnqueueConflict
  <2>2. UNCHANGED <<posted, processed>>
    BY <1>2 DEF Enqueue, EnqueueConflict, HandlerFrame, fileVars
  <2> QED BY <2>1, <2>2, <1>1 DEF EnqueueJob, TypeInv, RowType
<1>3. CASE ~(Enqueue \/ EnqueueConflict)
  <2>1. UNCHANGED <<njobs, stage, round, cause>> /\ posted \subseteq posted' /\ processed \subseteq processed'
    BY <1>3 DEF Next, vars, HandlerStep, HandlerFrame, Receive, ReceiveClosed, ReceiveManaged, ReceiveExternal,
         ReceiveComment, ReceiveVerdict, ReceiveRequest, CheckOpen, MergePullRequest, MergeRefused, RecordVerdict,
         HandlerRaises, WorkerStep, WorkerFrame, Launch, Relaunch, Complete, AgentPosts, Retry, Fail, WorldFrame,
         OutsiderOpens, Activity, RequestResolution, PersonCloses, PersonReopens, Lose, Redeliver, Crash,
         rowVars, fileVars, githubVars
  <2> QED BY <2>1, <1>1
<1> QED BY <1>2, <1>3

\* The webhooks there are, the one that is being handled included.
Known == mail \cup delivered \cup {event}

\* The webhooks of a step are the old ones, but for the one that it sends.
LEMMA KnownSteps ==
  ASSUME [Next]_vars
  PROVE  \/ Known' \subseteq Known \cup {NoEvent}
         \/ \E j \in Jobs : AgentPosts(j)
         \/ \E k \in {"opened", "activity", "request", "closed"}, j \in {0, 1}, open \in BOOLEAN :
              /\ k = "opened" => ~Managed /\ j = 0
              /\ k = "opened" => OutsiderOpens /\ open
              /\ k = "closed" => (MergePullRequest \/ PersonCloses) /\ pr' \in {"closed", "merged"}
              /\ k = "request" => RequestResolution
              /\ Known' \subseteq Known \cup {NoEvent, Event(k, j, "none", open)}
<1>1. CASE \E e \in mail : \/ ReceiveClosed(e) \/ ReceiveManaged(e) \/ ReceiveExternal(e)
                           \/ ReceiveComment(e) \/ ReceiveVerdict(e) \/ ReceiveRequest(e)
  BY <1>1 DEF Known, Receive, ReceiveClosed, ReceiveManaged, ReceiveExternal, ReceiveComment, ReceiveVerdict,
              ReceiveRequest, handlerVars, Continue
<1>2. CASE CheckOpen \/ Enqueue \/ MergeRefused \/ EnqueueConflict \/ RecordVerdict \/ HandlerRaises \/ Crash
  BY <1>2 DEF Known, CheckOpen, Enqueue, MergeRefused, EnqueueConflict, RecordVerdict, HandlerRaises, Crash,
              mailVars, Return
<1>3. CASE MergePullRequest
  <2>1. Known' \subseteq Known \cup {NoEvent, Event("closed", 0, "none", FALSE)} /\ pr' = "merged"
    BY <1>3 DEF Known, MergePullRequest, Send, Return
  <2> QED BY <1>3, <2>1
<1>4. CASE UNCHANGED vars \/ \E j \in Jobs : Launch(j) \/ Relaunch(j) \/ Complete(j) \/ Retry(j) \/ Fail(j)
  BY <1>4 DEF Known, vars, Launch, Relaunch, Complete, Retry, Fail, WorkerFrame, mailVars, handlerVars
<1>5. CASE \E j \in Jobs : AgentPosts(j)
  BY <1>5
<1>6. CASE \/ \E e \in mail : Lose(e)
           \/ \E e \in delivered : Redeliver(e)
  BY <1>6 DEF Known, Lose, Redeliver, WorldFrame, handlerVars
<1>7. CASE OutsiderOpens
  <2>1. Known' \subseteq Known \cup {NoEvent, Event("opened", 0, "none", TRUE)} /\ ~Managed
    BY <1>7 DEF Known, OutsiderOpens, WorldFrame, Send, handlerVars
  <2> QED BY <1>7, <2>1
<1>8. CASE Activity \/ PersonReopens
  <2>1. PICK j \in {0, 1} : Send(Event("activity", j, "none", TRUE))
    BY <1>8 DEF Activity, PersonReopens
  <2>2. Known' \subseteq Known \cup {NoEvent, Event("activity", j, "none", TRUE)}
    BY <1>8, <2>1 DEF Known, Activity, PersonReopens, WorldFrame, Send, handlerVars
  <2> QED BY <2>2
<1>9. CASE RequestResolution
  <2>1. Known' \subseteq Known \cup {NoEvent, Event("request", 0, "none", pr = "open")} /\ (pr = "open") \in BOOLEAN
    BY <1>9 DEF Known, RequestResolution, WorldFrame, Send, handlerVars
  <2> QED BY <1>9, <2>1
<1>10. CASE PersonCloses
  <2>1. Known' \subseteq Known \cup {NoEvent, Event("closed", 0, "none", FALSE)} /\ pr' \in {"closed", "merged"}
    BY <1>10 DEF Known, PersonCloses, WorldFrame, Send, handlerVars
  <2> QED BY <1>10, <2>1
<1> QED BY <1>1, <1>2, <1>3, <1>4, <1>5, <1>6, <1>7, <1>8, <1>9, <1>10 DEF Next, HandlerStep, WorkerStep

---------------------------------------------------------------------------
(***************************************************************************)
(* What webhooks say is true of the pull request, and stays so.            *)
(***************************************************************************)

\* What a webhook says: a comment was posted for its job, a verdict for a verdict's
\* job only; dani's own pull request is opened by its first job, which posts nothing else.
Says(e) ==
  /\ e.kind = "comment" =>
       /\ Posted(e.job, e.verdict) /\ (stage[e.job] # "final_verdict" => e.verdict = "none")
       /\ (Managed => e.job # 1)
  /\ e.kind = "opened" => e.job = IF Managed THEN 1 ELSE 0

\* dani's own pull request is its first job's.
FirstJob == Managed => stage[1] = "implementation"

Answers == FirstJob /\ \A e \in Known : Says(e)

\* What a webhook says is true when it is sent, and nothing makes it untrue.
LEMMA AnswersStep ==
  ASSUME TypeInv, Answers, [Next]_vars
  PROVE  Answers'
<1>1. /\ njobs \in Nat /\ \A j \in 1..njobs : stage'[j] = stage[j]
      /\ posted \subseteq posted' /\ (Managed => 1 \in 1..njobs)
  BY RowsStay DEF TypeInv, RowType
<1>2. FirstJob'
  BY <1>1 DEF Answers, FirstJob
<1>3. ASSUME NEW e \in Known PROVE Says(e)'
  <2>1. e.kind = "comment" => e.job \in 1..njobs
    BY <1>1, <1>3 DEF TypeInv, MailType, Known
  <2>2. Says(e)
    BY <1>3 DEF Answers
  <2>3. \A j, v : Posted(j, v) => Posted(j, v)'
    BY <1>1 DEF Posted
  <2> QED BY <2>1, <2>2, <2>3, <1>1 DEF Says
<1>4. Says(NoEvent)'
  BY DEF Says, NoEvent
<1>5. CASE Known' \subseteq Known \cup {NoEvent}
  BY <1>2, <1>3, <1>4, <1>5 DEF Answers
<1>6. ASSUME NEW j \in Jobs, AgentPosts(j) PROVE Answers'
  <2>1. j \in 1..njobs /\ UNCHANGED <<stage, event>>
    BY <1>6, <1>1 DEF AgentPosts, Jobs, TypeInv, OtherType, rowVars, handlerVars
  <2>2. PICK v \in (IF stage[j] = "final_verdict" THEN Verdicts ELSE {"none"}) :
          /\ posted' = posted \cup {<<j, v, Cardinality({p \in posted : p[1] = j})>>}
          /\ IF Managed /\ j = 1 THEN Send(Event("opened", j, v, TRUE)) ELSE Send(Event("comment", j, v, FALSE))
    BY <1>6 DEF AgentPosts
  <2>3. Posted(j, v)'
    <3>1. <<j, v, Cardinality({p \in posted : p[1] = j})>> \in posted'
      BY <2>2
    <3> QED BY <3>1 DEF Posted
  <2>4. CASE Managed /\ j = 1
    <3>0. PICK e : e = Event("opened", j, v, TRUE)
      OBVIOUS
    <3>1. e.kind = "opened" /\ e.job = 1
      BY <3>0, <2>4, EventFields
    <3>2. Known' \subseteq Known \cup {e}
      BY <3>0, <2>1, <2>2, <2>4 DEF Known, Send
    <3>3. Says(e)'
      BY <3>1, <2>4 DEF Says
    <3> QED BY <3>2, <3>3, <1>2, <1>3 DEF Answers
  <2>5. CASE ~(Managed /\ j = 1)
    <3>0. PICK e : e = Event("comment", j, v, FALSE)
      OBVIOUS
    <3>1. e.kind = "comment" /\ e.job = j /\ e.verdict = v
      BY <3>0, EventFields
    <3>2. Known' \subseteq Known \cup {e}
      BY <3>0, <2>1, <2>2, <2>5 DEF Known, Send
    <3>3. Says(e)'
      BY <3>1, <2>1, <2>2, <2>3, <2>5 DEF Says
    <3> QED BY <3>2, <3>3, <1>2, <1>3 DEF Answers
  <2> QED BY <2>4, <2>5
<1>7. ASSUME NEW k \in {"opened", "activity", "request", "closed"}, NEW j \in {0, 1}, NEW open \in BOOLEAN,
             k = "opened" => ~Managed /\ j = 0,
             Known' \subseteq Known \cup {NoEvent, Event(k, j, "none", open)}
      PROVE  Answers'
  <2>0. PICK e : e = Event(k, j, "none", open)
    OBVIOUS
  <2>1. e.kind = k /\ e.job = j
    BY <2>0, EventFields
  <2>2. Says(e)'
    BY <2>1, <1>7 DEF Says
  <2>3. Known' \subseteq Known \cup {NoEvent, e}
    BY <1>7, <2>0
  <2> QED BY <2>2, <2>3, <1>2, <1>3, <1>4 DEF Answers
<1> QED BY <1>5, <1>6, <1>7, KnownSteps

---------------------------------------------------------------------------
(***************************************************************************)
(* What a handler has found out when it merges, records or enqueues.       *)
(***************************************************************************)
Approves(e) == IsVerdict(e) /\ e.verdict = "APPROVE"

\* What follows an approving verdict, unless its handler was cut short.
HasEffect(j) ==
  \/ ~OwnerAuthor \/ mergedBy = j
  \/ \E k \in 1..njobs : stage[k] = "merge_conflict_resolution" /\ cause[k] = j

\* Stages other than the verdict are recorded before their next job, the verdict after
\* its effect.
Handling ==
  /\ step = "check" =>
       /\ event.kind = "comment"
       /\ IF IsVerdict(event) THEN event.verdict = "APPROVE" /\ KeyOf(event) \notin processed
                              ELSE KeyOf(event) \in processed
  /\ step = "enqueue" => ~IsVerdict(event) /\ (event.kind = "comment" => KeyOf(event) \in processed)
  /\ step \in {"merge", "conflict", "record"} => Approves(event)
  /\ step \in {"merge", "conflict"} => OwnerAuthor /\ KeyOf(event) \notin processed
  /\ step = "record" => HasEffect(event.job)

\* Keys of signatures are of rows, and a recorded approval has had its effect.
Recorded ==
  /\ \A j, v : <<"job", j, v>> \in processed => j \in 1..njobs
  /\ RecordedVerdictHasEffect

\* Only merging names a verdict that merged; a merged pull request stays merged.
LEMMA StepFrame ==
  ASSUME [Next]_vars
  PROVE  /\ ~MergePullRequest => mergedBy' = mergedBy
         /\ pr = "merged" => pr' = "merged"
         /\ pr # "none" => pr' # "none"
  BY DEF Next, vars, HandlerStep, HandlerFrame, Receive, ReceiveClosed, ReceiveManaged, ReceiveExternal,
         ReceiveComment, ReceiveVerdict, ReceiveRequest, CheckOpen, Enqueue, EnqueueConflict, MergePullRequest,
         MergeRefused, RecordVerdict, HandlerRaises, WorkerStep, WorkerFrame, Launch, Relaunch, Complete,
         AgentPosts, Retry, Fail, WorldFrame, OutsiderOpens, Activity, RequestResolution, PersonCloses,
         PersonReopens, Lose, Redeliver, Crash, githubVars

\* A merge and a row do not go away, so an effect stays.
LEMMA EffectStays ==
  ASSUME TypeInv, [Next]_vars, MergeIsApproved, NEW j \in 1..njobs, HasEffect(j)
  PROVE  HasEffect(j)'
<1>1. /\ njobs \in Nat /\ njobs' \in {njobs, njobs + 1}
      /\ \A k \in 1..njobs : stage'[k] = stage[k] /\ cause'[k] = cause[k]
  BY RowsStay
<1>2. mergedBy = j => mergedBy' = j
  <2>1. CASE MergePullRequest
    BY <2>1, <1>1 DEF MergePullRequest, MergeIsApproved
  <2>2. CASE ~MergePullRequest
    BY <2>2, StepFrame
  <2> QED BY <2>1, <2>2
<1> QED BY <1>1, <1>2 DEF HasEffect

\* Merging needs a handler that has found out everything it merges on.
LEMMA MergeStep ==
  ASSUME TypeInv, Answers, Handling, MergeIsApproved, [Next]_vars
  PROVE  MergeIsApproved'
<1>1. /\ njobs \in Nat /\ \A j \in 1..njobs : stage'[j] = stage[j]
      /\ posted \subseteq posted'
  BY RowsStay
<1>2. \A j, v : Posted(j, v) => Posted(j, v)'
  BY <1>1 DEF Posted
<1>3. CASE MergePullRequest
  <2>1. /\ step = "merge" /\ pr' = "merged" /\ mergedBy' = event.job
    BY <1>3 DEF MergePullRequest
  <2>2. OwnerAuthor /\ event.kind = "comment" /\ stage[event.job] = "final_verdict" /\ event.verdict = "APPROVE"
    BY <2>1 DEF Handling, Approves, IsVerdict
  <2>3. event.job \in 1..njobs /\ Posted(event.job, "APPROVE")
    BY <2>2, <1>1 DEF TypeInv, MailType, Answers, Known, Says
  <2> QED BY <2>1, <2>2, <2>3, <1>1, <1>2 DEF MergeIsApproved
<1>4. CASE ~MergePullRequest
  <2>1. mergedBy' = mergedBy /\ (pr = "merged" => pr' = "merged") /\ mergedBy \in 0..njobs
    BY <1>4, StepFrame DEF TypeInv, OtherType
  <2> QED BY <2>1, <1>1, <1>2 DEF MergeIsApproved
<1> QED BY <1>3, <1>4

\* What a step does to the recorded keys.
LEMMA ProcessedSteps ==
  ASSUME [Next]_vars
  PROVE  \/ UNCHANGED processed
         \/ RecordVerdict
         \/ \E e \in mail : \/ ReceiveExternal(e) \/ ReceiveComment(e) \/ ReceiveRequest(e)
  BY DEF Next, vars, HandlerStep, Receive, ReceiveClosed, ReceiveManaged, ReceiveExternal, ReceiveComment,
         ReceiveVerdict, ReceiveRequest, CheckOpen, Enqueue, EnqueueConflict, MergePullRequest, MergeRefused,
         RecordVerdict, HandlerRaises, WorkerStep, WorkerFrame, Launch, Relaunch, Complete, AgentPosts, Retry, Fail,
         WorldFrame, OutsiderOpens, Activity, RequestResolution, PersonCloses, PersonReopens, Lose, Redeliver,
         Crash, fileVars

\* A verdict's key is recorded by its handler's last step only, after the effect.
LEMMA RecordStep ==
  ASSUME TypeInv, Handling, MergeIsApproved, Recorded, [Next]_vars
  PROVE  Recorded'
<1>1. /\ njobs \in Nat /\ njobs' \in {njobs, njobs + 1} /\ \A j \in 1..njobs : j \in 1..njobs' /\ stage'[j] = stage[j]
  BY RowsStay
<1>2. SUFFICES ASSUME NEW j, NEW v, <<"job", j, v>> \in processed'
               PROVE  /\ j \in 1..njobs
                      /\ stage[j] = "final_verdict" /\ v = "APPROVE" => HasEffect(j)
  <2>1. ASSUME NEW k \in 1..njobs', stage'[k] = "final_verdict", <<"job", k, "APPROVE">> \in processed'
        PROVE  HasEffect(k)'
    <3>1. k \in 1..njobs /\ HasEffect(k)
      BY <1>1, <1>2, <2>1
    <3> QED BY <3>1, EffectStays
  <2>2. RecordedVerdictHasEffect'
    BY <2>1 DEF RecordedVerdictHasEffect, HasEffect
  <2> QED BY <2>2, <1>1, <1>2 DEF Recorded
<1>3. CASE <<"job", j, v>> \in processed
  BY <1>3 DEF Recorded, RecordedVerdictHasEffect, HasEffect
<1>4. CASE <<"job", j, v>> \notin processed /\ RecordVerdict
  <2>1. step = "record" /\ <<"job", j, v>> = KeyOf(event)
    BY <1>4, <1>2 DEF RecordVerdict
  <2>2. Approves(event) /\ HasEffect(event.job)
    BY <2>1 DEF Handling
  <2>3. j = event.job /\ v = event.verdict
    BY <2>1, <2>2 DEF Approves, IsVerdict, KeyOf
  <2>4. event.job \in 1..njobs
    BY <2>2, <1>1 DEF Approves, IsVerdict, TypeInv, MailType
  <2> QED BY <2>2, <2>3, <2>4
<1>5. ASSUME <<"job", j, v>> \notin processed, NEW e \in mail,
             ReceiveExternal(e) \/ ReceiveComment(e) \/ ReceiveRequest(e)
      PROVE  j \in 1..njobs /\ stage[j] # "final_verdict"
  <2>1. <<"job", j, v>> = KeyOf(e)
    BY <1>5, <1>2 DEF ReceiveExternal, ReceiveComment, ReceiveRequest
  <2>2. e.kind = "comment" /\ stage[e.job] # "final_verdict"
    BY <1>5, <2>1 DEF ReceiveExternal, ReceiveComment, ReceiveRequest, KeyOf
  <2>3. j = e.job
    BY <2>1, <2>2 DEF KeyOf
  <2> QED BY <2>2, <2>3, <1>1 DEF TypeInv, MailType
<1> QED BY <1>2, <1>3, <1>4, <1>5, ProcessedSteps

\* Between the steps of a handler nobody else writes what it has found out.
LEMMA HandlerKept ==
  ASSUME TypeInv, Answers, Handling, MergeIsApproved, [Next]_vars,
         UNCHANGED <<step, event, processed>>
  PROVE  Handling'
<1>1. /\ njobs \in Nat /\ \A j \in 1..njobs : stage'[j] = stage[j]
  BY RowsStay
<1>2. event.kind = "comment" => event.job \in 1..njobs
  BY <1>1 DEF TypeInv, MailType
<1>3. IsVerdict(event)' <=> IsVerdict(event)
  BY <1>1, <1>2 DEF IsVerdict
<1>4. event.kind = "comment" => KeyOf(event)' = KeyOf(event)
  BY DEF KeyOf
<1>5. step = "record" => HasEffect(event.job)'
  BY <1>2, EffectStays DEF Handling, Approves, IsVerdict
<1> QED BY <1>3, <1>4, <1>5 DEF Handling, Approves, IsVerdict

\* Each step of a handler leaves what the next one relies on.
LEMMA HandlingStep ==
  ASSUME TypeInv, Answers, Handling, MergeIsApproved, [Next]_vars
  PROVE  Handling'
<1>1. CASE step' = "idle"
  BY <1>1 DEF Handling
<1>2. ASSUME NEW e \in mail, step' # "idle",
             \/ ReceiveClosed(e) \/ ReceiveManaged(e) \/ ReceiveExternal(e)
             \/ ReceiveComment(e) \/ ReceiveVerdict(e) \/ ReceiveRequest(e)
      PROVE  Handling'
  <2>1. step = "idle" /\ event' = e /\ stage' = stage
    BY <1>2 DEF Receive, rowVars, handlerVars, Continue, ReceiveClosed, ReceiveManaged, ReceiveExternal,
                ReceiveComment, ReceiveVerdict, ReceiveRequest
  <2>2. e.kind = "comment" => KeyOf(e)' = KeyOf(e)
    BY DEF KeyOf
  <2>3. CASE ReceiveClosed(e)
    BY <1>2, <2>1, <2>3 DEF ReceiveClosed, handlerVars
  <2>4. CASE ReceiveManaged(e) \/ ReceiveExternal(e) \/ ReceiveRequest(e)
    <3>1. step' = "enqueue" /\ e.kind # "comment"
      BY <1>2, <2>1, <2>4 DEF ReceiveManaged, ReceiveExternal, ReceiveRequest, handlerVars, Continue
    <3> QED BY <3>1, <2>1 DEF Handling, IsVerdict
  <2>5. CASE ReceiveComment(e)
    <3>1. step' = "check" /\ e.kind = "comment" /\ stage[e.job] # "final_verdict" /\ KeyOf(e) \in processed'
      BY <1>2, <2>1, <2>5 DEF ReceiveComment, handlerVars, Continue
    <3> QED BY <3>1, <2>1, <2>2 DEF Handling, IsVerdict
  <2>6. CASE ReceiveVerdict(e)
    <3>1. step' = "check" /\ e.kind = "comment" /\ e.verdict = "APPROVE" /\ KeyOf(e) \notin processed'
          /\ stage[e.job] = "final_verdict"
      BY <1>2, <2>1, <2>6 DEF ReceiveVerdict, handlerVars, Continue, fileVars
    <3> QED BY <3>1, <2>1, <2>2 DEF Handling, IsVerdict
  <2> QED BY <1>2, <2>3, <2>4, <2>5, <2>6
<1>3. ASSUME CheckOpen, step' # "idle" PROVE Handling'
  <2>1. /\ step = "check" /\ UNCHANGED <<event, stage, processed, njobs>>
        /\ step' = IF ~IsVerdict(event) THEN "enqueue" ELSE IF OwnerAuthor THEN "merge" ELSE "record"
    BY <1>3 DEF CheckOpen, Return, rowVars, fileVars
  <2>2. (IsVerdict(event)' <=> IsVerdict(event)) /\ KeyOf(event)' = KeyOf(event)
    BY <2>1 DEF IsVerdict, KeyOf
  <2>3. CASE ~IsVerdict(event)
    BY <2>1, <2>2, <2>3 DEF Handling
  <2>4. CASE IsVerdict(event) /\ OwnerAuthor
    BY <2>1, <2>2, <2>4 DEF Handling, Approves
  <2>5. CASE IsVerdict(event) /\ ~OwnerAuthor
    BY <2>1, <2>2, <2>5 DEF Handling, Approves, HasEffect
  <2> QED BY <2>3, <2>4, <2>5
<1>4. ASSUME MergePullRequest, step' # "idle" PROVE Handling'
  <2>1. step = "merge" /\ step' = "record" /\ UNCHANGED <<event, stage>> /\ mergedBy' = event.job
    BY <1>4 DEF MergePullRequest, Return, rowVars
  <2> QED BY <2>1 DEF Handling, Approves, IsVerdict, HasEffect
<1>5. CASE MergeRefused
  <2>1. step = "merge" /\ step' = "conflict" /\ UNCHANGED <<event, stage, processed>>
    BY <1>5 DEF MergeRefused, rowVars, fileVars
  <2> QED BY <2>1 DEF Handling, Approves, IsVerdict, KeyOf
<1>6. CASE EnqueueConflict
  <2>1. /\ step = "conflict" /\ step' = "record" /\ UNCHANGED event
        /\ EnqueueJob("merge_conflict_resolution", 0, event.job)
    BY <1>6 DEF EnqueueConflict
  <2>2. Approves(event) /\ event.job \in 1..njobs
    BY <2>1 DEF Handling, Approves, IsVerdict, TypeInv, MailType
  <2>3. njobs \in Nat /\ njobs + 1 \in 1..njobs' /\ stage'[njobs + 1] = "merge_conflict_resolution"
        /\ cause'[njobs + 1] = event.job /\ stage'[event.job] = stage[event.job]
    BY <2>1, <2>2, EnqueueType, RowsStay, ConstantsAssumption DEF EnqueueJob, TypeInv, RowType, Jobs
  <2>4. Approves(event)'
    BY <2>1, <2>2, <2>3 DEF Approves, IsVerdict
  <2>5. HasEffect(event.job)'
    BY <2>1, <2>3 DEF HasEffect
  <2> QED BY <2>1, <2>4, <2>5 DEF Handling
<1>7. CASE Enqueue \/ RecordVerdict \/ HandlerRaises \/ Crash
  BY <1>7, <1>1 DEF Enqueue, RecordVerdict, HandlerRaises, Crash, Return
<1>8. CASE UNCHANGED <<step, event, processed>>
  BY <1>8, HandlerKept
<1>9. CASE ~UNCHANGED <<step, event, processed>>
  <2>1. HandlerStep \/ HandlerRaises \/ Crash
    BY <1>9 DEF Next, vars, WorkerStep, WorkerFrame, Launch, Relaunch, Complete, AgentPosts, Retry, Fail, WorldFrame,
         OutsiderOpens, Activity, RequestResolution, PersonCloses, PersonReopens, Lose, Redeliver, fileVars, handlerVars
  <2> QED BY <2>1, <1>1, <1>2, <1>3, <1>4, <1>5, <1>6, <1>7 DEF HandlerStep
<1> QED BY <1>8, <1>9

\* At the start no handler runs and nothing is recorded or merged.
LEMMA InitLoop == Init => TypeInv /\ Answers /\ Handling /\ MergeIsApproved /\ Recorded
<1> SUFFICES ASSUME Init PROVE TypeInv /\ Answers /\ Handling /\ MergeIsApproved /\ Recorded
  OBVIOUS
<1>1. TypeInv
  BY InitType
<1>2. 1 \in Jobs
  BY ConstantsAssumption DEF Jobs
<1>3. Answers
  BY <1>2 DEF Init, Answers, FirstJob, Known, Says, NoEvent
<1> QED BY <1>1, <1>3 DEF Init, Handling, MergeIsApproved, Recorded, RecordedVerdictHasEffect

\* What the theorems about verdicts follow from.
LEMMA LoopInvariance == Spec => [](TypeInv /\ Answers /\ Handling /\ MergeIsApproved /\ Recorded)
<1> DEFINE Inv == TypeInv /\ Answers /\ Handling /\ MergeIsApproved /\ Recorded
<1>1. Init => Inv
  BY InitLoop
<1>2. Inv /\ [Next]_vars => Inv'
  BY TypeStep, AnswersStep, HandlingStep, MergeStep, RecordStep
<1> HIDE DEF Inv
<1>3. Spec => []Inv
  BY <1>1, <1>2, PTL DEF Spec
<1> QED BY <1>3 DEF Inv

\* dani merges only what an owner wrote and a final verdict approved, and merges once,
\* however comments, pushes, closings and crashes fall.
THEOREM MergeApproved == Spec => []MergeIsApproved
  BY LoopInvariance, PTL

\* An approving verdict that is recorded has had its effect: whatever cut its handler
\* short before, the webhook delivered again would repair it.
THEOREM RecordedHasEffect == Spec => []RecordedVerdictHasEffect
<1>1. Recorded => RecordedVerdictHasEffect
  BY DEF Recorded
<1> QED BY <1>1, LoopInvariance, PTL

---------------------------------------------------------------------------
(***************************************************************************)
(* Rounds.                                                                 *)
(***************************************************************************)

\* Only the two enqueuing steps of a handler add a row.
LEMMA JobsGrow == [Next]_vars /\ ~(Enqueue \/ EnqueueConflict) => njobs' = njobs
  BY DEF Next, vars, HandlerStep, HandlerFrame, Receive, ReceiveClosed, ReceiveManaged, ReceiveExternal,
         ReceiveComment, ReceiveVerdict, ReceiveRequest, CheckOpen, MergePullRequest, MergeRefused, RecordVerdict,
         HandlerRaises, WorkerStep, WorkerFrame, Launch, Relaunch, Complete, AgentPosts, Retry, Fail, WorldFrame,
         OutsiderOpens, Activity, RequestResolution, PersonCloses, PersonReopens, Lose, Redeliver, Crash, rowVars

\* A new review of dani's own pull request is within the number of rounds.
LEMMA RoundStep ==
  ASSUME TypeInv, RoundNumbersBounded, [Next]_vars
  PROVE  RoundNumbersBounded'
<1>1. /\ njobs \in Nat /\ njobs' \in {njobs, njobs + 1} /\ ReviewRounds \in Nat \ {0}
      /\ \A j \in 1..njobs : stage'[j] = stage[j] /\ round'[j] = round[j]
  BY RowsStay, ConstantsAssumption
<1>2. SUFFICES ASSUME Managed, njobs' = njobs + 1, stage'[njobs + 1] = "review_round"
               PROVE  round'[njobs + 1] <= ReviewRounds
  BY <1>1 DEF RoundNumbersBounded, ReviewJobs
<1>3. ~(Enqueue \/ EnqueueConflict) => njobs' = njobs
  BY JobsGrow
<1>4. njobs + 1 \in Jobs
  BY <1>1, <1>2, <1>3, ConstantsAssumption DEF Enqueue, EnqueueConflict, EnqueueJob, TypeInv, RowType, Jobs
<1>5. CASE EnqueueConflict
  BY <1>2, <1>4, <1>5 DEF EnqueueConflict, EnqueueJob, TypeInv, RowType
<1>6. CASE Enqueue
  <2>1. NextStage(event) = "review_round" /\ round'[njobs + 1] = NextRound(event) /\ step = "enqueue"
    BY <1>2, <1>4, <1>6 DEF Enqueue, EnqueueJob, TypeInv, RowType
  <2>2. LatestReviewRound \in 0..njobs /\ event.kind \in {"opened", "activity", "comment", "request"}
    BY <2>1, RoundsSeen DEF TypeInv, OtherType
  <2>3. event.kind = "comment" => LatestReviewRound < ReviewRounds
    BY <2>1 DEF NextStage
  <2>4. NextRound(event) = IF event.kind = "comment" THEN LatestReviewRound + 1 ELSE 1
    BY <2>1, <1>2 DEF NextRound
  <2> QED BY <2>1, <2>2, <2>3, <2>4, <1>1
<1> QED BY <1>1, <1>2, <1>3, <1>5, <1>6

\* dani's own pull request has no round beyond the configured number, whichever webhooks
\* come again and however handlers are cut short.
THEOREM RoundsBounded == Spec => []RoundNumbersBounded
<1>1. Init => RoundNumbersBounded
  <2>1. 1 \in Jobs
    BY ConstantsAssumption DEF Jobs
  <2> QED BY <2>1 DEF Init, RoundNumbersBounded, ReviewJobs
<1>2. TypeInv /\ RoundNumbersBounded /\ [Next]_vars => RoundNumbersBounded'
  BY RoundStep
<1> QED BY <1>1, <1>2, InitType, TypeStep, PTL DEF Spec

---------------------------------------------------------------------------
(***************************************************************************)
(* One comment, one next job.                                              *)
(***************************************************************************)
Openings(M) == {e \in M : e.kind = "opened"}

\* The webhook that opens dani's pull request is sent once: it is on its way, or was
\* delivered and perhaps is being handled.
OpenedOnce ==
  Managed /\ used.openedAgain = 0 =>
    /\ \A e, f \in Openings(mail \cup delivered) : e = f
    /\ Openings(mail) \cap delivered = {}
    /\ pr = "none" => Openings(mail \cup delivered) = {}
    /\ event.kind = "opened" => event \in delivered

\* What has been recorded, or moved on, of the comment that led to a job: the handler
\* that will lead to one more is not there.
Succeeded(c) ==
  /\ stage[c] = "final_verdict" /\ used.crash = 0 =>
       \/ <<"job", c, "APPROVE">> \in processed
       \/ step = "record" /\ event.job = c
  /\ stage[c] # "final_verdict" /\ ~(Managed /\ c = 1) =>
       /\ <<"job", c, "none">> \in processed
       /\ ~(step \in {"check", "enqueue"} /\ event.kind = "comment" /\ event.job = c)
  /\ Managed /\ c = 1 /\ used.openedAgain = 0 =>
       Openings(mail) = {} /\ event.kind # "opened" /\ pr # "none"

AllSucceeded == \A k \in 1..njobs : cause[k] # 0 => Succeeded(cause[k])

\* The bounds that count crashes and first webhooks never fall.
LEMMA UsedZero ==
  ASSUME TypeInv, [Next]_vars
  PROVE  /\ used'.crash = 0 => used.crash = 0 /\ ~Crash
         /\ used'.openedAgain = 0 => used.openedAgain = 0
<1>1. {"crash", "openedAgain"} \subseteq DOMAIN Bounds
  BY DEF Bounds
<1>2. /\ used \in [DOMAIN Bounds -> Nat] /\ used' \in [DOMAIN Bounds -> Nat]
      /\ \A b \in DOMAIN Bounds : used'[b] >= used[b]
  BY UsedStep DEF TypeInv, OtherType
<1>3. Crash => used'.crash = used.crash + 1
  BY <1>1, <1>2 DEF Crash, Use
<1> HIDE DEF Bounds
<1> QED BY <1>1, <1>2, <1>3

\* How the webhook that opens dani's pull request moves.
LEMMA OpeningMoves ==
  ASSUME TypeInv, [Next]_vars, Managed, used'.openedAgain = 0
  PROVE  \/ /\ Openings(mail') = Openings(mail) /\ Openings(delivered') = Openings(delivered)
            /\ event' \in {event, NoEvent}
         \/ \E e \in mail : /\ mail' = mail \ {e} /\ delivered' = delivered \cup {e}
                            /\ event' \in {event, NoEvent, e}
         \/ \E e : /\ e.kind = "opened" /\ pr = "none" /\ pr' = "open"
                   /\ mail' = mail \cup {e} /\ UNCHANGED <<delivered, event>>
<1>1. CASE \E e \in mail : \/ ReceiveClosed(e) \/ ReceiveManaged(e) \/ ReceiveExternal(e)
                           \/ ReceiveComment(e) \/ ReceiveVerdict(e) \/ ReceiveRequest(e) \/ Lose(e)
  BY <1>1 DEF Receive, ReceiveClosed, ReceiveManaged, ReceiveExternal, ReceiveComment, ReceiveVerdict,
              ReceiveRequest, Lose, WorldFrame, handlerVars, Continue
<1>2. CASE CheckOpen \/ Enqueue \/ MergeRefused \/ EnqueueConflict \/ RecordVerdict \/ HandlerRaises \/ Crash
  BY <1>2 DEF Openings, CheckOpen, Enqueue, MergeRefused, EnqueueConflict, RecordVerdict, HandlerRaises, Crash,
              mailVars, Return
<1>3. CASE UNCHANGED vars \/ \E j \in Jobs : Launch(j) \/ Relaunch(j) \/ Complete(j) \/ Retry(j) \/ Fail(j)
  BY <1>3 DEF vars, Launch, Relaunch, Complete, Retry, Fail, WorkerFrame, mailVars, handlerVars
<1>4. ASSUME NEW k \in {"activity", "comment", "request", "closed"}, NEW j, NEW v, NEW open,
             Send(Event(k, j, v, open)), event' \in {event, NoEvent}
      PROVE  /\ Openings(mail') = Openings(mail) /\ Openings(delivered') = Openings(delivered)
             /\ event' \in {event, NoEvent}
  <2>1. PICK e : e = Event(k, j, v, open)
    OBVIOUS
  <2>2. e.kind # "opened" /\ mail' = mail \cup {e} /\ delivered' = delivered
    BY <1>4, <2>1, EventFields DEF Send
  <2> QED BY <2>2, <1>4 DEF Openings
<1>5. CASE MergePullRequest \/ Activity \/ RequestResolution \/ PersonCloses \/ PersonReopens \/ OutsiderOpens
  <2>1. event' \in {event, NoEvent}
    BY <1>5 DEF MergePullRequest, Return, Activity, RequestResolution, PersonCloses, PersonReopens, OutsiderOpens,
                WorldFrame, handlerVars
  <2>2. \E k \in {"activity", "request", "closed"} : \E j, open : Send(Event(k, j, "none", open))
    <3>1. CASE MergePullRequest \/ PersonCloses
      BY <3>1 DEF MergePullRequest, PersonCloses
    <3>2. CASE Activity
      BY <3>2 DEF Activity
    <3>3. CASE RequestResolution
      BY <3>3 DEF RequestResolution
    <3>4. CASE PersonReopens
      BY <3>4 DEF PersonReopens
    <3> QED BY <1>5, <3>1, <3>2, <3>3, <3>4 DEF OutsiderOpens
  <2> QED BY <2>1, <2>2, <1>4
<1>6. ASSUME NEW j \in Jobs, AgentPosts(j)
      PROVE  \/ /\ Openings(mail') = Openings(mail) /\ Openings(delivered') = Openings(delivered)
                /\ event' \in {event, NoEvent}
             \/ \E e : /\ e.kind = "opened" /\ pr = "none" /\ pr' = "open"
                       /\ mail' = mail \cup {e} /\ UNCHANGED <<delivered, event>>
  <2>1. event' = event
    BY <1>6 DEF AgentPosts, handlerVars
  <2>2. PICK v : IF Managed /\ j = 1
                 THEN /\ pr = "none" /\ pr' = "open" /\ Send(Event("opened", j, v, TRUE))
                 ELSE Send(Event("comment", j, v, FALSE))
    BY <1>6 DEF AgentPosts
  <2>3. CASE j = 1
    <3>1. PICK e : e = Event("opened", j, v, TRUE)
      OBVIOUS
    <3>2. e.kind = "opened"
      BY <3>1, EventFields
    <3> QED BY <2>1, <2>2, <2>3, <3>1, <3>2 DEF Send
  <2>4. CASE j # 1
    BY <2>1, <2>2, <2>4, <1>4
  <2> QED BY <2>3, <2>4
<1>7. ASSUME NEW e \in delivered, Redeliver(e)
      PROVE  /\ Openings(mail') = Openings(mail) /\ Openings(delivered') = Openings(delivered)
             /\ event' = event
  <2>1. e.kind # "opened"
    <3>1. "openedAgain" \in DOMAIN Bounds
      BY DEF Bounds
    <3> HIDE DEF Bounds
    <3>2. e.kind = "opened" => used'.openedAgain = used.openedAgain + 1 /\ used.openedAgain \in Nat
      BY <3>1, <1>7 DEF Redeliver, Use, TypeInv, OtherType
    <3> QED BY <3>2
  <2> QED BY <2>1, <1>7 DEF Redeliver, Openings, WorldFrame, handlerVars
<1> QED BY <1>1, <1>2, <1>3, <1>5, <1>6, <1>7 DEF Next, HandlerStep, WorkerStep

\* Only the first posting of job 1 sends that webhook, and nothing sends it again.
LEMMA OpenedStep ==
  ASSUME TypeInv, OpenedOnce, [Next]_vars
  PROVE  OpenedOnce'
<1>1. SUFFICES ASSUME Managed, used'.openedAgain = 0 PROVE OpenedOnce'
  BY DEF OpenedOnce
<1>2. /\ \A e, f \in Openings(mail \cup delivered) : e = f
      /\ Openings(mail) \cap delivered = {}
      /\ pr = "none" => Openings(mail \cup delivered) = {}
      /\ event.kind = "opened" => event \in delivered
  BY <1>1, UsedZero DEF OpenedOnce
<1>3. NoEvent.kind = "none" /\ (pr # "none" => pr' # "none")
  BY StepFrame DEF NoEvent
<1>4. CASE /\ Openings(mail') = Openings(mail) /\ Openings(delivered') = Openings(delivered)
           /\ event' \in {event, NoEvent}
  BY <1>2, <1>3, <1>4 DEF OpenedOnce, Openings
<1>5. ASSUME NEW e \in mail, mail' = mail \ {e}, delivered' = delivered \cup {e}, event' \in {event, NoEvent, e}
      PROVE  OpenedOnce'
  BY <1>2, <1>3, <1>5 DEF OpenedOnce, Openings
<1>6. ASSUME NEW e, e.kind = "opened", pr = "none", pr' = "open", mail' = mail \cup {e}, UNCHANGED <<delivered, event>>
      PROVE  OpenedOnce'
  BY <1>2, <1>3, <1>6 DEF OpenedOnce, Openings
<1> QED BY <1>1, <1>4, <1>5, <1>6, OpeningMoves

\* What has moved on does not come back.
LEMMA SucceededStays ==
  ASSUME TypeInv, Answers, Handling, [Next]_vars, NEW c \in 1..njobs, Succeeded(c)
  PROVE  Succeeded(c)'
<1>1. stage'[c] = stage[c] /\ processed \subseteq processed' /\ (pr # "none" => pr' # "none")
      /\ (used'.crash = 0 => used.crash = 0 /\ ~Crash) /\ (used'.openedAgain = 0 => used.openedAgain = 0)
  BY RowsStay, UsedZero, StepFrame
<1>2. ASSUME stage[c] = "final_verdict", used'.crash = 0
      PROVE  <<"job", c, "APPROVE">> \in processed' \/ (step' = "record" /\ event'.job = c)
  <2>1. CASE <<"job", c, "APPROVE">> \in processed
    BY <2>1, <1>1
  <2>2. CASE step = "record" /\ event.job = c
    <3>1. UNCHANGED <<step, event>> \/ RecordVerdict
      BY <2>2, <1>1, <1>2 DEF Next, vars, HandlerStep, Receive, ReceiveClosed, ReceiveManaged, ReceiveExternal,
         ReceiveComment, ReceiveVerdict, ReceiveRequest, CheckOpen, Enqueue, EnqueueConflict, MergePullRequest,
         MergeRefused, HandlerRaises, AsksGitHub, WorkerStep, WorkerFrame, Launch, Relaunch, Complete, AgentPosts,
         Retry, Fail, WorldFrame, OutsiderOpens, Activity, RequestResolution, PersonCloses, PersonReopens, Lose,
         Redeliver, handlerVars
    <3>2. KeyOf(event) = <<"job", c, "APPROVE">>
      BY <2>2 DEF Handling, Approves, IsVerdict, KeyOf
    <3> QED BY <3>1, <3>2, <2>2 DEF RecordVerdict
  <2> QED BY <2>1, <2>2, <1>1, <1>2 DEF Succeeded
<1>3. ASSUME stage[c] # "final_verdict", ~(Managed /\ c = 1)
      PROVE  /\ <<"job", c, "none">> \in processed'
             /\ ~(step' \in {"check", "enqueue"} /\ event'.kind = "comment" /\ event'.job = c)
  <2>1. /\ <<"job", c, "none">> \in processed
        /\ ~(step \in {"check", "enqueue"} /\ event.kind = "comment" /\ event.job = c)
    BY <1>3 DEF Succeeded
  <2>2. CASE \E e \in mail : ReceiveComment(e)
    <3>1. PICK e \in mail : ReceiveComment(e)
      BY <2>2
    <3>2. CASE e.job = c
      <4>1. KeyOf(e) = <<"job", c, "none">>
        BY <3>1, <3>2, <1>3 DEF ReceiveComment, Answers, Known, Says, KeyOf
      <4>2. UNCHANGED <<step, event>>
        BY <3>1, <4>1, <2>1 DEF ReceiveComment, handlerVars
      <4> QED BY <4>2, <2>1, <1>1
    <3>3. CASE e.job # c
      <4>1. UNCHANGED <<step, event>> \/ event' = e
        BY <3>1 DEF ReceiveComment, handlerVars, Continue
      <4> QED BY <3>3, <4>1, <2>1, <1>1
    <3> QED BY <3>2, <3>3
  <2>3. CASE \E e \in mail : ReceiveVerdict(e)
    <3>1. PICK e \in mail : ReceiveVerdict(e)
      BY <2>3
    <3>2. UNCHANGED <<step, event>> \/ (event' = e /\ stage[e.job] = "final_verdict")
      BY <3>1 DEF ReceiveVerdict, handlerVars, Continue
    <3> QED BY <3>2, <2>1, <1>1, <1>3
  <2>4. CASE \E e \in mail : ReceiveClosed(e) \/ ReceiveManaged(e) \/ ReceiveExternal(e) \/ ReceiveRequest(e)
    <3>1. UNCHANGED <<step, event>> \/ event'.kind # "comment"
      BY <2>4 DEF ReceiveClosed, ReceiveManaged, ReceiveExternal, ReceiveRequest, handlerVars, Continue
    <3> QED BY <3>1, <2>1, <1>1
  <2>5. CASE ~\E e \in mail : \/ ReceiveClosed(e) \/ ReceiveManaged(e) \/ ReceiveExternal(e)
                              \/ ReceiveComment(e) \/ ReceiveVerdict(e) \/ ReceiveRequest(e)
    <3>1. step' \notin {"check", "enqueue"} \/ (step \in {"check", "enqueue"} /\ event' = event)
      BY <2>5 DEF Next, vars, HandlerStep, CheckOpen, Enqueue, EnqueueConflict, MergePullRequest,
         MergeRefused, RecordVerdict, HandlerRaises, WorkerStep, WorkerFrame, Launch, Relaunch, Complete, AgentPosts,
         Retry, Fail, WorldFrame, OutsiderOpens, Activity, RequestResolution, PersonCloses, PersonReopens, Lose,
         Redeliver, Crash, Return, handlerVars
    <3> QED BY <3>1, <2>1, <1>1
  <2> QED BY <2>2, <2>3, <2>4, <2>5
<1>4. ASSUME Managed, c = 1, used'.openedAgain = 0
      PROVE  Openings(mail') = {} /\ event'.kind # "opened" /\ pr' # "none"
  <2>1. Openings(mail) = {} /\ event.kind # "opened" /\ pr # "none"
    BY <1>1, <1>4 DEF Succeeded
  <2>2. NoEvent.kind = "none"
    BY DEF NoEvent
  <2>3. CASE Openings(mail') = Openings(mail) /\ event' \in {event, NoEvent}
    BY <2>1, <2>2, <2>3, <1>1
  <2>4. ASSUME NEW e \in mail, mail' = mail \ {e}, event' \in {event, NoEvent, e}
        PROVE  Openings(mail') = {} /\ event'.kind # "opened"
    BY <2>1, <2>2, <2>4 DEF Openings
  <2> QED BY <1>1, <1>4, <2>1, <2>3, <2>4, OpeningMoves
<1> QED BY <1>1, <1>2, <1>3, <1>4 DEF Succeeded

\* The comment or webhook a handler enqueues for has led to no job before, and will not
\* lead to another one.
LEMMA NewSuccessor ==
  ASSUME TypeInv, Answers, Handling, OpenedOnce, [Next]_vars,
         NEW c \in 1..njobs, njobs' = njobs + 1, cause'[njobs + 1] = c
  PROVE  /\ Succeeded(c)'
         /\ Managed /\ c = 1 /\ used'.openedAgain = 0 => ~Succeeded(c)
         /\ stage[c] = "final_verdict" /\ used'.crash = 0 => ~Succeeded(c)
         /\ stage[c] # "final_verdict" /\ ~(Managed /\ c = 1) => ~Succeeded(c)
<1>1. /\ njobs \in Nat /\ stage'[c] = stage[c] /\ processed \subseteq processed' /\ (pr # "none" => pr' # "none")
      /\ (used'.crash = 0 => used.crash = 0) /\ (used'.openedAgain = 0 => used.openedAgain = 0)
      /\ Managed => stage[1] = "implementation"
  BY RowsStay, UsedZero, StepFrame DEF Answers, FirstJob
<1>2. Enqueue \/ EnqueueConflict
  BY JobsGrow, <1>1
<1>3. njobs + 1 \in Jobs
  BY <1>2, ConstantsAssumption DEF Enqueue, EnqueueConflict, EnqueueJob, TypeInv, RowType, Jobs
<1>4. CASE EnqueueConflict
  <2>1. /\ c = event.job /\ step = "conflict" /\ step' = "record" /\ event' = event
    BY <1>3, <1>4 DEF EnqueueConflict, EnqueueJob, TypeInv, RowType
  <2>2. stage[c] = "final_verdict" /\ <<"job", c, "APPROVE">> \notin processed
    BY <2>1 DEF Handling, Approves, IsVerdict, KeyOf
  <2> QED BY <2>1, <2>2, <1>1 DEF Succeeded
<1>5. CASE Enqueue /\ event.kind = "comment"
  <2>1. c = event.job /\ step = "enqueue" /\ step' = "idle" /\ UNCHANGED processed
    BY <1>3, <1>5 DEF Enqueue, EnqueueJob, CauseOf, Return, fileVars, TypeInv, RowType
  <2>2. stage[c] # "final_verdict" /\ (Managed => c # 1) /\ KeyOf(event) \in processed
    BY <2>1, <1>5 DEF Handling, IsVerdict, Answers, Known, Says
  <2>3. <<"job", c, "none">> \in processed
    BY <2>1, <2>2, <1>5 DEF KeyOf, Answers, Known, Says
  <2> QED BY <2>1, <2>2, <2>3, <1>1, <1>5 DEF Succeeded
<1>6. CASE Enqueue /\ event.kind # "comment"
  <2>1. c = CauseOf(event) /\ step' = "idle" /\ event' = NoEvent /\ mail' = mail
    BY <1>3, <1>6 DEF Enqueue, EnqueueJob, Return, mailVars, TypeInv, RowType
  <2>2. event.kind = "opened" /\ c = event.job
    BY <2>1, <1>6 DEF CauseOf
  <2>3. Managed /\ c = 1
    BY <2>2 DEF Answers, Known, Says
  <2>4. used'.openedAgain = 0 => Openings(mail') = {} /\ event'.kind # "opened" /\ pr' # "none"
    <3>1. SUFFICES ASSUME used'.openedAgain = 0 PROVE Openings(mail) = {} /\ pr # "none"
      BY <2>1, <1>1 DEF NoEvent
    <3>2. event \in Openings(delivered) /\ event \in Openings(mail \cup delivered)
      BY <3>1, <2>2, <2>3, <1>1 DEF OpenedOnce, Openings
    <3> QED BY <3>1, <3>2, <2>3, <1>1 DEF OpenedOnce, Openings
  <2> QED BY <2>2, <2>3, <2>4, <1>1 DEF Succeeded
<1> QED BY <1>2, <1>4, <1>5, <1>6

\* So every new row has a cause of its own.
LEMMA SuccessorStep ==
  ASSUME TypeInv, Answers, Handling, OpenedOnce, AllSucceeded, OneSuccessor, [Next]_vars
  PROVE  AllSucceeded' /\ OneSuccessor'
<1>1. /\ njobs \in Nat /\ njobs' \in {njobs, njobs + 1}
      /\ \A j \in 1..njobs : stage'[j] = stage[j] /\ cause'[j] = cause[j]
      /\ (used'.crash = 0 => used.crash = 0) /\ (used'.openedAgain = 0 => used.openedAgain = 0)
  BY RowsStay, UsedZero
<1>2. \A j \in 1..njobs : cause[j] # 0 => cause[j] \in 1..njobs
  BY <1>1, ConstantsAssumption DEF TypeInv, RowType, Jobs
<1>3. ASSUME NEW j \in 1..njobs, NEW c, cause[j] = c, c # 0
      PROVE  Succeeded(c) /\ Succeeded(c)'
  <2>1. c \in 1..njobs /\ Succeeded(c)
    BY <1>2, <1>3 DEF AllSucceeded
  <2> QED BY <2>1, SucceededStays
<1>4. CASE njobs' = njobs \/ cause'[njobs + 1] = 0
  BY <1>1, <1>2, <1>3, <1>4 DEF AllSucceeded, OneSuccessor
<1>5. ASSUME njobs' = njobs + 1, NEW c, c = cause'[njobs + 1], c # 0
      PROVE  AllSucceeded' /\ OneSuccessor'
  <2>1. c \in 1..njobs
    <3>1. Enqueue \/ EnqueueConflict
      BY JobsGrow, <1>1, <1>5
    <3>2. njobs + 1 \in Jobs
      BY <3>1, ConstantsAssumption DEF Enqueue, EnqueueConflict, EnqueueJob, TypeInv, RowType, Jobs
    <3>3. c = event.job \/ c = CauseOf(event)
      BY <3>1, <3>2, <1>5 DEF Enqueue, EnqueueConflict, EnqueueJob, TypeInv, RowType
    <3> QED BY <3>3, <1>1, <1>5 DEF CauseOf, TypeInv, MailType
  <2>2. /\ Succeeded(c)'
        /\ Managed /\ c = 1 /\ used'.openedAgain = 0 => ~Succeeded(c)
        /\ stage[c] = "final_verdict" /\ used'.crash = 0 => ~Succeeded(c)
        /\ stage[c] # "final_verdict" /\ ~(Managed /\ c = 1) => ~Succeeded(c)
    BY <2>1, <1>5, NewSuccessor
  <2>3. AllSucceeded'
    BY <1>1, <1>3, <1>5, <2>2 DEF AllSucceeded
  <2>4. ASSUME NEW k \in 1..njobs, cause[k] = c, Managed /\ c = 1 => used'.openedAgain = 0,
               stage[c] = "final_verdict" => used'.crash = 0
        PROVE  FALSE
    <3>1. Succeeded(c)
      BY <1>3, <1>5, <2>4
    <3>2. CASE stage[c] = "final_verdict"
      BY <3>1, <3>2, <2>2, <2>4
    <3>3. CASE stage[c] # "final_verdict"
      BY <3>1, <3>3, <2>2, <2>4
    <3> QED BY <3>2, <3>3
  <2>5. OneSuccessor'
    <3>1. SUFFICES ASSUME NEW k \in 1..njobs', NEW l \in 1..njobs', cause'[k] = cause'[l], cause'[k] # 0,
                          Managed /\ cause'[k] = 1 => used'.openedAgain = 0,
                          stage'[cause'[k]] = "final_verdict" => used'.crash = 0
                   PROVE  k = l
      BY DEF OneSuccessor
    <3>2. CASE k \in 1..njobs /\ l \in 1..njobs
      <4>1. cause[k] = cause[l] /\ cause[k] # 0 /\ cause[k] \in 1..njobs
        BY <1>1, <1>2, <3>1, <3>2
      <4>2. stage'[cause[k]] = stage[cause[k]] /\ cause'[k] = cause[k]
        BY <1>1, <3>2, <4>1
      <4>3. Managed /\ cause[k] = 1 => used.openedAgain = 0
        BY <1>1, <3>1, <4>2
      <4>4. stage[cause[k]] = "final_verdict" => used.crash = 0
        BY <1>1, <3>1, <4>2
      <4> QED BY <3>2, <4>1, <4>3, <4>4 DEF OneSuccessor
    <3>3. CASE k = njobs + 1 \/ l = njobs + 1
      <4>1. cause'[k] = c /\ stage'[c] = stage[c]
        BY <1>1, <1>5, <2>1, <3>1, <3>3
      <4>2. (Managed /\ c = 1 => used'.openedAgain = 0) /\ (stage[c] = "final_verdict" => used'.crash = 0)
        BY <3>1, <4>1
      <4>3. \A j \in 1..njobs : cause'[j] # c
        BY <1>1, <2>4, <4>2
      <4> QED BY <4>1, <4>3, <1>1, <1>5, <3>1
    <3> QED BY <3>2, <3>3, <1>1, <1>5
  <2> QED BY <2>3, <2>5
<1> QED BY <1>1, <1>4, <1>5

\* At the start nothing has led to anything, and nothing is on its way.
LEMMA InitSuccessor == Init => OpenedOnce /\ AllSucceeded /\ OneSuccessor
<1> SUFFICES ASSUME Init PROVE OpenedOnce /\ AllSucceeded /\ OneSuccessor
  OBVIOUS
<1>1. \A j \in 1..njobs : cause[j] = 0
  BY ConstantsAssumption DEF Init, Jobs
<1> QED BY <1>1 DEF Init, OpenedOnce, AllSucceeded, OneSuccessor, Openings, NoEvent

\* The comments of a job lead to one next job, however often they are posted and
\* delivered and whatever cut their handlers short.
THEOREM OneNextJob == Spec => []OneSuccessor
<1> DEFINE Inv == /\ TypeInv /\ Answers /\ Handling /\ MergeIsApproved /\ Recorded
                  /\ OpenedOnce /\ AllSucceeded /\ OneSuccessor
<1>1. Init => Inv
  BY InitLoop, InitSuccessor
<1>2. Inv /\ [Next]_vars => Inv'
  BY TypeStep, AnswersStep, HandlingStep, MergeStep, RecordStep, OpenedStep, SuccessorStep
<1>3. Inv => OneSuccessor
  OBVIOUS
<1> HIDE DEF Inv
<1> QED BY <1>1, <1>2, <1>3, PTL DEF Spec

---------------------------------------------------------------------------
(***************************************************************************)
(* A closed pull request.                                                  *)
(***************************************************************************)

\* The news of a closing is true as long as nobody reopens, and a handler that is still
\* to enqueue or merge has begun before it was recorded.
Closed ==
  used.reopen = 0 =>
    /\ terminal \/ (\E e \in Known : e.kind = "closed") => pr \in {"closed", "merged"}
    /\ terminal => step \notin {"enqueue", "merge", "conflict"}

\* A handler asks GitHub before it goes on, and a closing is recorded between handlers.
LEMMA ClosedStep ==
  ASSUME TypeInv, Closed, [Next]_vars
  PROVE  Closed'
<1>1. used'.reopen = 0 => used.reopen = 0 /\ ~PersonReopens
  <2>1. "reopen" \in DOMAIN Bounds
    BY DEF Bounds
  <2>2. used \in [DOMAIN Bounds -> Nat] /\ used'.reopen >= used.reopen /\ used'.reopen \in Nat
    BY <2>1, UsedStep DEF TypeInv, OtherType
  <2> HIDE DEF Bounds
  <2>3. PersonReopens => used'.reopen = used.reopen + 1
    BY <2>1, <2>2 DEF PersonReopens, Use
  <2> QED BY <2>1, <2>2, <2>3
<1>2. SUFFICES ASSUME used'.reopen = 0 PROVE Closed'
  BY DEF Closed
<1>3. /\ ~PersonReopens
      /\ terminal \/ (\E e \in Known : e.kind = "closed") => pr \in {"closed", "merged"}
      /\ terminal => step \notin {"enqueue", "merge", "conflict"}
  BY <1>1, <1>2 DEF Closed
<1>4. pr \in {"closed", "merged"} => pr' \in {"closed", "merged"}
  BY <1>3 DEF Next, vars, HandlerStep, HandlerFrame, Receive, ReceiveClosed, ReceiveManaged, ReceiveExternal,
         ReceiveComment, ReceiveVerdict, ReceiveRequest, CheckOpen, Enqueue, EnqueueConflict, MergePullRequest,
         MergeRefused, RecordVerdict, HandlerRaises, WorkerStep, WorkerFrame, Launch, Relaunch, Complete,
         AgentPosts, Retry, Fail, WorldFrame, OutsiderOpens, Activity, RequestResolution, PersonCloses, Lose,
         Redeliver, Crash, githubVars
<1>5. ASSUME NEW f \in Known', f.kind = "closed" PROVE pr' \in {"closed", "merged"}
  <2>1. NoEvent.kind = "none" /\ (f \in Known => pr' \in {"closed", "merged"})
    BY <1>3, <1>4, <1>5 DEF NoEvent
  <2>2. ASSUME NEW j \in Jobs, AgentPosts(j) PROVE f \in Known
    <3>0. PICK v : Send(Event("opened", j, v, TRUE)) \/ Send(Event("comment", j, v, FALSE))
      BY <2>2 DEF AgentPosts
    <3>1. PICK k \in {"opened", "comment"}, open \in BOOLEAN : Send(Event(k, j, v, open))
      BY <3>0
    <3>2. Event(k, j, v, open).kind # "closed"
      BY EventFields
    <3>3. Known' = Known \cup {Event(k, j, v, open)}
      BY <2>2, <3>1 DEF AgentPosts, handlerVars, Send, Known
    <3> QED BY <3>2, <3>3, <1>5
  <2>3. ASSUME NEW k \in {"opened", "activity", "request", "closed"}, NEW j \in {0, 1}, NEW open \in BOOLEAN,
               k = "closed" => pr' \in {"closed", "merged"},
               Known' \subseteq Known \cup {NoEvent, Event(k, j, "none", open)}
        PROVE  pr' \in {"closed", "merged"}
    <3>1. Event(k, j, "none", open).kind = k
      BY EventFields
    <3> QED BY <3>1, <2>1, <2>3, <1>5
  <2> QED BY <2>1, <2>2, <2>3, <1>5, KnownSteps
<1>6. ASSUME terminal' PROVE pr' \in {"closed", "merged"} /\ step' \notin {"enqueue", "merge", "conflict"}
  <2>1. CASE \E e \in mail : ReceiveClosed(e)
    <3>1. PICK e \in mail : ReceiveClosed(e)
      BY <2>1
    <3>2. step' = "idle" /\ e \in Known /\ e.kind = "closed"
      BY <3>1 DEF ReceiveClosed, Receive, handlerVars, Known
    <3> QED BY <3>2, <1>3, <1>4
  <2>2. CASE ~\E e \in mail : ReceiveClosed(e)
    <3>1. terminal' = terminal
      BY <2>2 DEF Next, vars, HandlerStep, ReceiveManaged, ReceiveExternal, ReceiveComment, ReceiveVerdict,
         ReceiveRequest, CheckOpen, Enqueue, EnqueueConflict, MergePullRequest, MergeRefused, RecordVerdict,
         HandlerRaises, WorkerStep, WorkerFrame, Launch, Relaunch, Complete, AgentPosts, Retry, Fail, WorldFrame,
         OutsiderOpens, Activity, RequestResolution, PersonCloses, PersonReopens, Lose, Redeliver, Crash, fileVars
    <3>2. terminal /\ pr # "open" /\ pr' \in {"closed", "merged"} /\ step \notin {"enqueue", "merge", "conflict"}
      BY <3>1, <1>3, <1>4, <1>6
    <3>3. step' \in {"idle", "check", "record", step}
      BY <2>2, <3>2 DEF Next, vars, HandlerStep, ReceiveManaged, ReceiveExternal, ReceiveComment, ReceiveVerdict,
         ReceiveRequest, CheckOpen, Enqueue, EnqueueConflict, MergePullRequest, MergeRefused, RecordVerdict,
         HandlerRaises, WorkerStep, WorkerFrame, Launch, Relaunch, Complete, AgentPosts, Retry, Fail, WorldFrame,
         OutsiderOpens, Activity, RequestResolution, PersonCloses, PersonReopens, Lose, Redeliver, Crash,
         handlerVars, Return, Continue
    <3> QED BY <3>2, <3>3
  <2> QED BY <2>1, <2>2
<1> QED BY <1>5, <1>6 DEF Closed

\* Once the closing of a pull request is recorded nothing starts a job for it, whatever
\* webhooks are still on their way; unless somebody opens it again.
THEOREM ClosedStartsNothing == Spec => AfterCloseNothingStarts
<1>1. Init => TypeInv /\ Closed
  <2>1. Init => Closed
    BY DEF Init, Closed, Known, NoEvent
  <2> QED BY <2>1, InitType
<1>2. TypeInv /\ Closed /\ [Next]_vars => (TypeInv /\ Closed)'
  BY TypeStep, ClosedStep
<1>3. Closed /\ [Next]_vars => [terminal /\ used.reopen = 0 => UNCHANGED njobs]_vars
  <2>1. Closed /\ terminal /\ used.reopen = 0 => ~Enqueue /\ ~EnqueueConflict
    BY DEF Closed, Enqueue, EnqueueConflict
  <2> QED BY <2>1, JobsGrow
<1> QED BY <1>1, <1>2, <1>3, PTL DEF Spec, AfterCloseNothingStarts

---------------------------------------------------------------------------
(***************************************************************************)
(* The rounds of an outside contribution: how many are counted.            *)
(***************************************************************************)

\* A bound that is not used was not used before.
LEMMA NotUsed ==
  ASSUME TypeInv, [Next]_vars, NEW b \in DOMAIN Bounds, used'[b] = 0
  PROVE  used[b] = 0 /\ ~Use(b)
<1>1. used \in [DOMAIN Bounds -> Nat] /\ used'[b] >= used[b] /\ used[b] \in Nat
  BY UsedStep DEF TypeInv, OtherType
<1> HIDE DEF Bounds
<1>2. Use(b) => used'[b] = used[b] + 1
  BY <1>1 DEF Use
<1> QED BY <1>1, <1>2

\* What the two enqueuing steps of a handler write: one row, and no other.
LEMMA NewRow ==
  ASSUME TypeInv, NEW s \in Stages, NEW r \in 0..(njobs + 1), NEW c \in 0..njobs, EnqueueJob(s, r, c)
  PROVE  /\ njobs \in Nat /\ njobs' = njobs + 1 /\ njobs + 1 \in Jobs /\ 1..njobs' = 1..njobs \cup {njobs + 1}
         /\ stage'[njobs + 1] = s /\ round'[njobs + 1] = r /\ status'[njobs + 1] = "queued" /\ cause'[njobs + 1] = c
         /\ \A j \in 1..njobs : /\ stage'[j] = stage[j] /\ round'[j] = round[j]
                                /\ status'[j] = status[j] /\ cause'[j] = cause[j]
<1>1. njobs \in Nat /\ njobs' = njobs + 1 /\ njobs + 1 \in Jobs
  BY ConstantsAssumption DEF EnqueueJob, TypeInv, RowType, Jobs
<1>2. \A j \in 1..njobs : j \in Jobs /\ j # njobs + 1
  BY <1>1, ConstantsAssumption DEF Jobs
<1>3. 1..njobs' = 1..njobs \cup {njobs + 1}
  BY <1>1
<1> QED BY <1>1, <1>2, <1>3 DEF EnqueueJob, TypeInv, RowType

\* What they are: the next job of a webhook,
LEMMA NewJob ==
  ASSUME TypeInv, Enqueue
  PROVE  /\ EnqueueJob(NextStage(event), NextRound(event), CauseOf(event))
         /\ NextStage(event) \in Stages /\ NextRound(event) \in 0..(njobs + 1) /\ CauseOf(event) \in 0..njobs
  BY NextJobType DEF Enqueue

\* and the resolution of the conflict of a merge that was refused.
LEMMA NewConflict ==
  ASSUME TypeInv, Handling, EnqueueConflict
  PROVE  /\ EnqueueJob("merge_conflict_resolution", 0, event.job)
         /\ "merge_conflict_resolution" \in Stages /\ 0 \in 0..(njobs + 1) /\ event.job \in 1..njobs
  BY ConstantsAssumption DEF EnqueueConflict, Handling, Approves, IsVerdict, TypeInv, MailType, RowType, Stages

---------------------------------------------------------------------------
\* Rounds are counted from one, and a pull request that names no issue is not fixed.
Counted ==
  /\ \A j \in ReviewJobs : round[j] >= 1
  /\ step = "enqueue" /\ event.kind \in {"opened", "activity"} /\ ~Managed => nextRound >= 1
  /\ Kind = "untracked" =>
       /\ \A j \in 1..njobs : stage[j] # "implementation"
       /\ step \in {"check", "enqueue"} /\ event.kind = "comment" => stage[event.job] # "review_round"

\* A round is counted when its row or its handler begins.
LEMMA CountedStep ==
  ASSUME TypeInv, Handling, Counted, [Next]_vars
  PROVE  Counted'
<1>1. /\ njobs \in Nat /\ njobs' \in {njobs, njobs + 1} /\ \A j \in 1..njobs : stage'[j] = stage[j] /\ round'[j] = round[j]
      /\ event.kind = "comment" => event.job \in 1..njobs
  BY RowsStay DEF TypeInv, MailType
<1>2. CASE Enqueue
  <2>1. /\ 1..njobs' = 1..njobs \cup {njobs + 1} /\ stage'[njobs + 1] = NextStage(event) /\ round'[njobs + 1] = NextRound(event)
        /\ step = "enqueue" /\ step' = "idle"
    BY <1>2, NewJob, NewRow DEF Enqueue, Return
  <2>2. LatestReviewRound \in Nat /\ event.kind \in {"opened", "activity", "comment", "request"}
    BY <2>1, RoundsSeen DEF TypeInv, OtherType, RowType
  <2>3. NextStage(event) = "review_round" => NextRound(event) >= 1
    BY <2>1, <2>2 DEF NextStage, NextRound, Counted
  <2>4. Kind = "untracked" => NextStage(event) # "implementation"
    BY <2>1, <2>2 DEF NextStage, Counted
  <2> QED BY <1>1, <2>1, <2>3, <2>4 DEF Counted, ReviewJobs
<1>3. CASE EnqueueConflict
  <2>1. /\ 1..njobs' = 1..njobs \cup {njobs + 1} /\ stage'[njobs + 1] = "merge_conflict_resolution"
        /\ step' = "record"
    BY <1>3, NewConflict, NewRow DEF EnqueueConflict
  <2> QED BY <1>1, <2>1 DEF Counted, ReviewJobs
<1>4. ASSUME ~(Enqueue \/ EnqueueConflict),
             /\ step' = "enqueue" /\ event'.kind \in {"opened", "activity"} /\ ~Managed => nextRound' >= 1
             /\ Kind = "untracked" /\ step' \in {"check", "enqueue"} /\ event'.kind = "comment" =>
                  event'.job \in 1..njobs /\ stage[event'.job] # "review_round"
      PROVE  Counted'
  <2>1. njobs' = njobs
    BY <1>4, JobsGrow
  <2> QED BY <1>1, <1>4, <2>1 DEF Counted, ReviewJobs
<1>5. CASE UNCHANGED <<step, event, nextRound>> /\ ~(Enqueue \/ EnqueueConflict)
  BY <1>1, <1>4, <1>5 DEF Counted
<1>6. ASSUME NEW e \in mail, ReceiveManaged(e) \/ ReceiveRequest(e) \/ ReceiveClosed(e) \/ ReceiveVerdict(e),
             ~UNCHANGED <<step, event, nextRound>>
      PROVE  ~Managed => event'.kind \notin {"opened", "activity"}
  BY <1>6 DEF ReceiveManaged, ReceiveRequest, ReceiveClosed, ReceiveVerdict, handlerVars, Continue
<1>7. ASSUME NEW e \in mail, ReceiveManaged(e) \/ ReceiveRequest(e) \/ ReceiveClosed(e),
             ~UNCHANGED <<step, event, nextRound>>
      PROVE  event'.kind # "comment"
  BY <1>7 DEF ReceiveManaged, ReceiveRequest, ReceiveClosed, handlerVars, Continue
<1>8. ASSUME NEW e \in mail, \/ ReceiveClosed(e) \/ ReceiveManaged(e) \/ ReceiveExternal(e)
                             \/ ReceiveComment(e) \/ ReceiveVerdict(e) \/ ReceiveRequest(e),
             ~UNCHANGED <<step, event, nextRound>>
      PROVE  Counted'
  <2>1. ~(Enqueue \/ EnqueueConflict) /\ step = "idle" /\ (e.kind = "comment" => e.job \in 1..njobs)
    BY <1>1, <1>8 DEF Enqueue, EnqueueConflict, Receive, ReceiveClosed, ReceiveManaged, ReceiveExternal,
         ReceiveComment, ReceiveVerdict, ReceiveRequest, TypeInv, MailType
  <2>2. CASE ReceiveExternal(e)
    <3>1. nextRound' = NextExternalRound /\ event' = e /\ e.kind # "comment"
      BY <1>8, <2>2 DEF ReceiveExternal, handlerVars, Continue
    <3>2. NextExternalRound >= 1
      <4>1. \A j \in 1..njobs : j \in Jobs /\ round[j] \in 0..njobs
        BY <1>1, ConstantsAssumption DEF TypeInv, RowType, Jobs
      <4>2. ConsumedRounds \in SUBSET (0..njobs)
        BY <4>1 DEF ConsumedRounds, ReviewJobs
      <4>3. MaxOf(ConsumedRounds) \in 0..njobs
        BY <1>1, <4>2, MaxOfBounded
      <4> QED BY <1>1, <4>3 DEF NextExternalRound
    <3> QED BY <1>4, <2>1, <3>1, <3>2
  <2>3. CASE ReceiveComment(e)
    <3>1. event' = e /\ e.kind = "comment" /\ (Kind = "untracked" => stage[e.job] # "review_round")
      BY <1>8, <2>3 DEF ReceiveComment, handlerVars, Continue
    <3> QED BY <1>4, <2>1, <3>1
  <2>4. CASE ReceiveVerdict(e)
    <3>1. event' = e /\ e.kind = "comment" /\ stage[e.job] = "final_verdict"
      BY <1>8, <2>4 DEF ReceiveVerdict, handlerVars, Continue
    <3> QED BY <1>4, <2>1, <3>1
  <2>5. CASE ReceiveClosed(e) \/ ReceiveManaged(e) \/ ReceiveRequest(e)
    BY <1>4, <1>6, <1>7, <1>8, <2>1, <2>5
  <2> QED BY <1>8, <2>2, <2>3, <2>4, <2>5
<1>9. CASE CheckOpen \/ MergePullRequest \/ MergeRefused \/ RecordVerdict \/ HandlerRaises \/ Crash
  <2>1. ~(Enqueue \/ EnqueueConflict) \/ step' = "idle"
    BY <1>9 DEF CheckOpen, MergePullRequest, MergeRefused, RecordVerdict, HandlerRaises, Crash, Enqueue, EnqueueConflict, Return
  <2>2. \/ step' = "idle" \/ step' \in {"conflict", "record", "merge"}
        \/ step = "check" /\ event' = event
    BY <1>9 DEF CheckOpen, MergePullRequest, MergeRefused, RecordVerdict, HandlerRaises, Crash, Return
  <2>3. CASE step = "check" /\ event' = event
    <3>1. ~(Enqueue \/ EnqueueConflict) /\ event.kind = "comment"
      BY <2>3 DEF Enqueue, EnqueueConflict, Handling
    <3> QED BY <1>1, <1>4, <2>3, <3>1 DEF Counted
  <2>4. CASE ~(Enqueue \/ EnqueueConflict) /\ step' \notin {"check", "enqueue"}
    BY <1>4, <2>4
  <2>5. CASE Enqueue \/ EnqueueConflict
    BY <1>2, <1>3, <2>5
  <2> QED BY <2>2, <2>3, <2>4, <2>5
<1>10. CASE ~UNCHANGED <<step, event, nextRound>> /\ ~(Enqueue \/ EnqueueConflict)
  <2>1. HandlerStep \/ HandlerRaises \/ Crash
    BY <1>10 DEF Next, vars, WorkerStep, WorkerFrame, Launch, Relaunch, Complete, AgentPosts, Retry, Fail, WorldFrame,
         OutsiderOpens, Activity, RequestResolution, PersonCloses, PersonReopens, Lose, Redeliver, handlerVars
  <2> QED BY <2>1, <1>8, <1>9, <1>10 DEF HandlerStep
<1> QED BY <1>2, <1>3, <1>5, <1>10

\* While nothing is retried a round that is counted was counted before, or is that of a
\* new row; there is room for the one a handler is about to ask for.
Counting ==
  ~Managed /\ used.retry = 0 =>
    /\ \A j \in 1..njobs : status[j] # "retrying"
    /\ running # 0 => status[running] = "launched"
    /\ Cardinality(ConsumedRounds) <= ReviewRoundCap
    /\ step = "enqueue" /\ event.kind \in {"opened", "activity"} => Cardinality(ConsumedRounds) < ReviewRoundCap

\* The rounds are finitely many.
LEMMA RoundsFinite ==
  ASSUME TypeInv
  PROVE  IsFiniteSet(ConsumedRounds) /\ Cardinality(ConsumedRounds) \in Nat
<1>1. njobs \in Nat /\ \A j \in 1..njobs : j \in Jobs /\ round[j] \in 0..njobs
  BY ConstantsAssumption DEF TypeInv, RowType, Jobs
<1>2. ConsumedRounds \in SUBSET (0..njobs)
  BY <1>1 DEF ConsumedRounds, ReviewJobs
<1>3. IsFiniteSet(0..njobs)
  BY <1>1, FS_Interval
<1> QED BY <1>2, <1>3, FS_Subset, FS_CardinalityType

\* No step but enqueuing counts one more.
LEMMA CountFalls ==
  ASSUME TypeInv, Counting, ~Managed, used'.retry = 0, [Next]_vars, ~(Enqueue \/ EnqueueConflict)
  PROVE  /\ ConsumedRounds' \subseteq ConsumedRounds
         /\ \A j \in 1..njobs' : status'[j] # "retrying"
         /\ running' # 0 => status'[running'] = "launched"
<1>1. /\ njobs \in Nat /\ njobs' = njobs /\ \A j \in 1..njobs : stage'[j] = stage[j] /\ round'[j] = round[j]
  BY RowsStay, JobsGrow
<1>2. used.retry = 0 /\ ~Use("retry")
  BY NotUsed DEF Bounds
<1>3. /\ \A j \in 1..njobs : status[j] # "retrying"
      /\ running # 0 => status[running] = "launched"
      /\ status \in [Jobs -> Statuses] /\ \A j \in 1..njobs : j \in Jobs
      /\ running \in 0..njobs
  BY <1>1, <1>2, ConstantsAssumption DEF Counting, TypeInv, RowType, OtherType, Jobs
<1> DEFINE CountsKept ==
      /\ \A j \in 1..njobs : /\ status'[j] # "retrying"
                             /\ status'[j] \in {"queued", "launched", "completed"}
                                  => status[j] \in {"queued", "launched", "completed"}
      /\ running' # 0 => status'[running'] = "launched"
<1>4. CountsKept
  <2>1. CASE UNCHANGED <<status, running>>
    BY <1>3, <2>1
  <2>2. ASSUME NEW j \in Jobs, Launch(j) PROVE CountsKept
    <3>1. j \in 1..njobs /\ status[j] \in Active /\ running' = j /\ status' = [status EXCEPT ![j] = "launched"]
      BY <2>2 DEF Launch, Pending
    <3> QED BY <1>3, <3>1 DEF Active
  <2>3. ASSUME NEW j \in Jobs, Relaunch(j) PROVE FALSE
    BY <1>3, <2>3, ConstantsAssumption DEF Relaunch, Jobs
  <2>4. ASSUME NEW j \in Jobs, Complete(j) \/ Fail(j) PROVE CountsKept
    <3>1. /\ running = j /\ running' = 0 /\ \E s \in {"completed", "failed"} : status' = [status EXCEPT ![j] = s]
      BY <2>4 DEF Complete, Fail
    <3>2. j # 0
      BY <2>4, ConstantsAssumption DEF Jobs
    <3> QED BY <1>3, <3>1, <3>2
  <2>5. CASE Crash
    <3>1. running' = 0 /\ \E S \in SUBSET {j \in 1..njobs : status[j] = "launched" /\ HasPosted(j)} :
             status' = [j \in Jobs |-> IF j \in S THEN "completed" ELSE status[j]]
      BY <2>5 DEF Crash
    <3> QED BY <1>3, <3>1
  <2>6. \/ UNCHANGED <<status, running>> \/ Crash
        \/ \E j \in Jobs : Launch(j) \/ Relaunch(j) \/ Complete(j) \/ Fail(j)
    BY <1>2 DEF Next, vars, HandlerStep, HandlerFrame, Receive, ReceiveClosed, ReceiveManaged, ReceiveExternal,
         ReceiveComment, ReceiveVerdict, ReceiveRequest, CheckOpen, MergePullRequest, MergeRefused, RecordVerdict,
         HandlerRaises, WorkerStep, AgentPosts, Retry, WorldFrame,
         OutsiderOpens, Activity, RequestResolution, PersonCloses, PersonReopens, Lose, Redeliver, rowVars
  <2> QED BY <2>1, <2>2, <2>3, <2>4, <2>5, <2>6
<1> QED BY <1>1, <1>4 DEF ConsumedRounds, ReviewJobs

\* A new review is within the limit: a webhook counted the rounds, a fix's comment goes by
\* their numbers.
LEMMA CountRises ==
  ASSUME TypeInv, Handling, Counted, Counting, ~Managed, used.retry = 0, Enqueue \/ EnqueueConflict
  PROVE  Cardinality(ConsumedRounds') <= ReviewRoundCap
<1>0. /\ IsFiniteSet(ConsumedRounds) /\ Cardinality(ConsumedRounds) \in Nat
      /\ Cardinality(ConsumedRounds) <= ReviewRoundCap /\ ReviewRoundCap \in Nat /\ ReviewRounds \in Nat
  BY RoundsFinite, ConstantsAssumption DEF Counting, ReviewRoundCap
<1>1. PICK s \in Stages, r \in 0..(njobs + 1), c \in 0..njobs :
        /\ EnqueueJob(s, r, c)
        /\ s = "review_round" => Enqueue /\ r = NextRound(event) /\ s = NextStage(event)
  <2>1. CASE Enqueue
    BY <2>1, NewJob
  <2>2. CASE EnqueueConflict
    <3>1. event.job \in 0..njobs
      BY DEF TypeInv, MailType
    <3> QED BY <2>2, <3>1, NewConflict
  <2> QED BY <2>1, <2>2
<1>2. /\ njobs \in Nat /\ 1..njobs' = 1..njobs \cup {njobs + 1}
      /\ stage'[njobs + 1] = s /\ round'[njobs + 1] = r
      /\ \A j \in 1..njobs : stage'[j] = stage[j] /\ round'[j] = round[j] /\ status'[j] = status[j]
  BY <1>1, NewRow
<1>3. CASE s # "review_round"
  <2>1. ConsumedRounds' \subseteq ConsumedRounds
    BY <1>2, <1>3 DEF ConsumedRounds, ReviewJobs
  <2>2. Cardinality(ConsumedRounds') <= Cardinality(ConsumedRounds) /\ Cardinality(ConsumedRounds') \in Nat
    BY <2>1, <1>0, FS_Subset, FS_CardinalityType
  <2> QED BY <2>2, <1>0
<1>4. CASE s = "review_round" /\ event.kind \in {"opened", "activity"}
  <2>1. ConsumedRounds' \subseteq ConsumedRounds \cup {r}
    BY <1>2 DEF ConsumedRounds, ReviewJobs
  <2>2. /\ IsFiniteSet(ConsumedRounds \cup {r}) /\ Cardinality(ConsumedRounds \cup {r}) \in Nat
        /\ Cardinality(ConsumedRounds \cup {r}) <= Cardinality(ConsumedRounds) + 1
    <3>1. PICK S : S = ConsumedRounds
      OBVIOUS
    <3>2. /\ IsFiniteSet(S \cup {r})
          /\ Cardinality(S \cup {r}) = IF r \in S THEN Cardinality(S) ELSE Cardinality(S) + 1
      BY <1>0, <3>1, FS_AddElement
    <3> QED BY <1>0, <3>1, <3>2
  <2>3. Cardinality(ConsumedRounds') <= Cardinality(ConsumedRounds \cup {r}) /\ Cardinality(ConsumedRounds') \in Nat
    BY <2>1, <2>2, FS_Subset, FS_CardinalityType
  <2>4. Cardinality(ConsumedRounds) < ReviewRoundCap
    BY <1>1, <1>4 DEF Enqueue, Counting
  <2> QED BY <2>2, <2>3, <2>4, <1>0
<1>5. CASE s = "review_round" /\ event.kind \notin {"opened", "activity"}
  <2>1. step = "enqueue" /\ r = NextRound(event) /\ NextStage(event) = "review_round"
    BY <1>1, <1>5 DEF Enqueue
  <2>2. event.kind = "comment"
    BY <1>5, <2>1 DEF NextStage, TypeInv, OtherType
  <2>3. stage[event.job] = "implementation" /\ LatestReviewRound < ReviewRounds /\ r = LatestReviewRound + 1
    BY <2>1, <2>2 DEF NextStage, NextRound
  <2>4. LatestReviewRound \in Nat /\ \A j \in ReviewJobs : round[j] <= LatestReviewRound /\ round[j] >= 1 /\ round[j] \in Nat
    BY RoundsSeen, ConstantsAssumption DEF TypeInv, RowType, Counted, ReviewJobs, Jobs
  <2>5. ReviewRoundCap = ReviewRounds
    <3>1. event.job \in 1..njobs
      BY <2>2 DEF TypeInv, MailType, RowType
    <3> QED BY <3>1, <2>3 DEF Counted, ReviewRoundCap
  <2>6. ConsumedRounds' \subseteq 1..ReviewRounds
    <3>1. \A j \in ReviewJobs : round[j] \in 1..ReviewRounds
      BY <2>3, <2>4, <1>0
    <3>2. r \in 1..ReviewRounds
      BY <2>3, <2>4, <1>0
    <3>3. \A j \in ReviewJobs' : round'[j] \in 1..ReviewRounds
      BY <1>2, <3>1, <3>2 DEF ReviewJobs
    <3> QED BY <3>3 DEF ConsumedRounds, ReviewJobs
  <2>7. IsFiniteSet(1..ReviewRounds) /\ Cardinality(1..ReviewRounds) = ReviewRounds
    <3>1. 1 \in Int /\ ReviewRounds \in Int
      BY <1>0
    <3>2. /\ IsFiniteSet(1..ReviewRounds)
          /\ Cardinality(1..ReviewRounds) = IF 1 > ReviewRounds THEN 0 ELSE ReviewRounds - 1 + 1
      BY <3>1, FS_Interval
    <3> QED BY <1>0, <3>2
  <2>8. Cardinality(ConsumedRounds') <= Cardinality(1..ReviewRounds) /\ Cardinality(ConsumedRounds') \in Nat
    BY <2>6, <2>7, FS_Subset, FS_CardinalityType
  <2> QED BY <2>5, <2>7, <2>8
<1> QED BY <1>3, <1>4, <1>5

\* No step uses up more rounds than there are.
LEMMA CountingStep ==
  ASSUME TypeInv, Handling, Counted, Counting, [Next]_vars
  PROVE  Counting'
<1>1. SUFFICES ASSUME ~Managed, used'.retry = 0 PROVE Counting'
  BY DEF Counting
<1>2. used.retry = 0
  BY <1>1, NotUsed DEF Bounds
<1>3. CASE Enqueue \/ EnqueueConflict
  <2>1. Cardinality(ConsumedRounds') <= ReviewRoundCap
    BY <1>1, <1>2, <1>3, CountRises
  <2>2. step' # "enqueue" /\ running' = running /\ running \in 0..njobs
    BY <1>3 DEF Enqueue, EnqueueConflict, Return, HandlerFrame, TypeInv, OtherType
  <2>3. /\ njobs \in Nat /\ 1..njobs' = 1..njobs \cup {njobs + 1} /\ status'[njobs + 1] = "queued"
        /\ \A j \in 1..njobs : status'[j] = status[j]
    <3>1. CASE Enqueue
      BY <3>1, NewJob, NewRow
    <3>2. CASE EnqueueConflict
      <4>1. event.job \in 0..njobs
        BY DEF TypeInv, MailType
      <4> QED BY <3>2, <4>1, NewConflict, NewRow
    <3> QED BY <1>3, <3>1, <3>2
  <2> QED BY <1>1, <1>2, <2>1, <2>2, <2>3 DEF Counting, ReviewRoundCap
<1>4. CASE ~(Enqueue \/ EnqueueConflict)
  <2>1. /\ ConsumedRounds' \subseteq ConsumedRounds
        /\ \A j \in 1..njobs' : status'[j] # "retrying"
        /\ running' # 0 => status'[running'] = "launched"
    BY <1>1, <1>4, CountFalls
  <2>2. /\ IsFiniteSet(ConsumedRounds) /\ Cardinality(ConsumedRounds) \in Nat
        /\ ReviewRoundCap \in Nat
    BY RoundsFinite, ConstantsAssumption DEF ReviewRoundCap
  <2>3. Cardinality(ConsumedRounds') <= Cardinality(ConsumedRounds) /\ Cardinality(ConsumedRounds') \in Nat
    BY <2>1, <2>2, FS_Subset, FS_CardinalityType
  <2>4. Cardinality(ConsumedRounds) <= ReviewRoundCap
    BY <1>1, <1>2 DEF Counting
  <2>5. ASSUME step' = "enqueue", event'.kind \in {"opened", "activity"}
        PROVE  Cardinality(ConsumedRounds) < ReviewRoundCap
    <3>1. CASE step = "enqueue" /\ event' = event
      BY <1>1, <1>2, <2>5, <3>1 DEF Counting
    <3>2. ASSUME NEW e \in mail, ReceiveExternal(e), step = "idle" PROVE Cardinality(ConsumedRounds) < ReviewRoundCap
      BY <2>2, <2>5, <3>2 DEF ReceiveExternal, handlerVars, RoundsExhausted
    <3>3. \/ step = "enqueue" /\ event' = event
          \/ \E e \in mail : ReceiveExternal(e) /\ step = "idle"
      BY <1>1, <1>4, <2>5 DEF Next, vars, HandlerStep, Receive, ReceiveClosed, ReceiveManaged, ReceiveExternal,
         ReceiveComment, ReceiveVerdict, ReceiveRequest, CheckOpen, MergePullRequest,
         MergeRefused, RecordVerdict, HandlerRaises, WorkerStep, WorkerFrame, Launch, Relaunch, Complete, AgentPosts,
         Retry, Fail, WorldFrame, OutsiderOpens, Activity, RequestResolution, PersonCloses, PersonReopens, Lose,
         Redeliver, Crash, Return, Continue, Handling, handlerVars
    <3> QED BY <3>1, <3>2, <3>3
  <2>6. ReviewRoundCap' = ReviewRoundCap
    BY DEF ReviewRoundCap
  <2> QED BY <1>1, <2>1, <2>2, <2>3, <2>4, <2>5, <2>6 DEF Counting
<1> QED BY <1>3, <1>4

\* Rounds an outside contribution has used stay within its limit, although pushes and
\* the fixes' comments both ask for the next one.
THEOREM ConsumedBounded == Spec => []ConsumedRoundsBounded
<1> DEFINE Inv == /\ TypeInv /\ Answers /\ Handling /\ MergeIsApproved /\ Recorded
                  /\ Counted /\ Counting
<1>1. Init => Inv
  <2> SUFFICES ASSUME Init PROVE Counted /\ Counting
    BY InitLoop
  <2>1. 1 \in Jobs
    BY ConstantsAssumption DEF Jobs
  <2>2. ReviewJobs = {} /\ (~Managed => njobs = 0)
    BY <2>1 DEF Init, ReviewJobs
  <2>3. ConsumedRounds = {} /\ Cardinality(ConsumedRounds) = 0
    BY <2>2, FS_EmptySet DEF ConsumedRounds
  <2>4. Kind = "untracked" => ~Managed
    BY DEF Managed
  <2>5. ReviewRoundCap >= 0
    BY ConstantsAssumption DEF ReviewRoundCap
  <2> QED BY <2>2, <2>3, <2>4, <2>5 DEF Init, Counted, Counting
<1>2. Inv /\ [Next]_vars => Inv'
  BY TypeStep, AnswersStep, HandlingStep, MergeStep, RecordStep, CountedStep, CountingStep
<1>3. Inv => ConsumedRoundsBounded
  BY DEF Counting, ConsumedRoundsBounded
<1> HIDE DEF Inv
<1> QED BY <1>1, <1>2, <1>3, PTL DEF Spec

---------------------------------------------------------------------------
(***************************************************************************)
(* The rounds of dani's own pull request: in which order they come.        *)
(***************************************************************************)

\* A resolution is asked for by a webhook of its own, and a push on dani's own pull
\* request asks for nothing.
Requests ==
  /\ used.request = 0 => \A e \in Known : e.kind # "request"
  /\ Managed /\ step = "enqueue" => event.kind # "activity"

\* Only a person sends such a webhook, and a push never makes a handler enqueue.
LEMMA RequestsStep ==
  ASSUME TypeInv, Handling, Requests, [Next]_vars
  PROVE  Requests'
<1>1. ASSUME used'.request = 0, NEW e \in Known', e.kind = "request" PROVE FALSE
  <2>1. used.request = 0 /\ ~Use("request")
    BY <1>1, NotUsed DEF Bounds
  <2>2. ~RequestResolution /\ e \notin Known /\ e # NoEvent
    BY <1>1, <2>1 DEF RequestResolution, Requests, NoEvent
  <2>3. ASSUME NEW j \in Jobs, AgentPosts(j) PROVE FALSE
    <3>0. PICK v : Send(Event("opened", j, v, TRUE)) \/ Send(Event("comment", j, v, FALSE))
      BY <2>3 DEF AgentPosts
    <3>1. PICK k \in {"opened", "comment"}, open \in BOOLEAN : Send(Event(k, j, v, open))
      BY <3>0
    <3>2. Event(k, j, v, open).kind # "request"
      BY EventFields
    <3>3. Known' = Known \cup {Event(k, j, v, open)}
      BY <2>3, <3>1 DEF AgentPosts, handlerVars, Send, Known
    <3> QED BY <3>2, <3>3, <1>1, <2>2
  <2>4. ASSUME NEW k \in {"opened", "activity", "request", "closed"}, NEW j \in {0, 1}, NEW open \in BOOLEAN,
               k = "request" => RequestResolution,
               Known' \subseteq Known \cup {NoEvent, Event(k, j, "none", open)}
        PROVE  FALSE
    <3>1. Event(k, j, "none", open).kind = k
      BY EventFields
    <3> QED BY <3>1, <1>1, <2>2, <2>4
  <2> QED BY <1>1, <2>2, <2>3, <2>4, KnownSteps
<1>2. ASSUME Managed, step' = "enqueue", event'.kind = "activity" PROVE FALSE
  <2>1. CASE step = "enqueue" /\ event' = event
    BY <1>2, <2>1 DEF Requests
  <2>2. CASE step = "check" /\ event' = event
    BY <1>2, <2>2 DEF Handling
  <2>3. CASE \E e \in mail : \/ ReceiveClosed(e) \/ ReceiveManaged(e) \/ ReceiveExternal(e)
                             \/ ReceiveComment(e) \/ ReceiveVerdict(e) \/ ReceiveRequest(e)
    BY <1>2, <2>3 DEF Receive, ReceiveClosed, ReceiveManaged, ReceiveExternal, ReceiveComment, ReceiveVerdict,
         ReceiveRequest, Continue, handlerVars
  <2>4. \/ step = "enqueue" /\ event' = event
        \/ step = "check" /\ event' = event
        \/ \E e \in mail : \/ ReceiveClosed(e) \/ ReceiveManaged(e) \/ ReceiveExternal(e)
                           \/ ReceiveComment(e) \/ ReceiveVerdict(e) \/ ReceiveRequest(e)
    BY <1>2 DEF Next, vars, HandlerStep, CheckOpen, Enqueue, EnqueueConflict, MergePullRequest,
         MergeRefused, RecordVerdict, HandlerRaises, WorkerStep, WorkerFrame, Launch, Relaunch, Complete, AgentPosts,
         Retry, Fail, WorldFrame, OutsiderOpens, Activity, RequestResolution, PersonCloses, PersonReopens, Lose,
         Redeliver, Crash, Return, handlerVars
  <2> QED BY <2>1, <2>2, <2>3, <2>4
<1> QED BY <1>1, <1>2 DEF Requests

---------------------------------------------------------------------------
\* The row of the last round's fix.
LastFix == 2 * ReviewRounds + 1

\* The rows of dani's own pull request, unless somebody asks for a resolution or the first
\* webhook comes again: reviews and fixes in turn, each led to by the comment of the one
\* before, then verdicts and resolutions.
InLine ==
  Managed /\ used.request = 0 /\ used.openedAgain = 0 =>
    /\ \A r \in 1..ReviewRounds :
         /\ 2 * r <= njobs => stage[2 * r] = "review_round" /\ round[2 * r] = r
         /\ 2 * r + 1 <= njobs => stage[2 * r + 1] = "implementation" /\ round[2 * r + 1] = r
    /\ \A j \in 1..njobs : j > LastFix => stage[j] \in {"final_verdict", "merge_conflict_resolution"}
    /\ \A j \in 2..njobs : j <= LastFix + 1 => cause[j] = j - 1 /\ (j > 2 => HasPosted(j - 1))

\* A row is the first, a review, a fix, or later.
LEMMA Places ==
  ASSUME NEW j \in Nat \ {0}
  PROVE  \/ j = 1 \/ j > LastFix
         \/ \E r \in 1..ReviewRounds : j = 2 * r \/ j = 2 * r + 1
<1>1. ReviewRounds \in Nat /\ LastFix = 2 * ReviewRounds + 1
  BY ConstantsAssumption DEF LastFix
<1>2. SUFFICES ASSUME j # 1, j <= LastFix PROVE \E r \in 1..ReviewRounds : j = 2 * r \/ j = 2 * r + 1
  BY <1>1
<1>3. \E r \in Nat : j = 2 * r \/ j = 2 * r + 1
  <2>1. j \div 2 \in Nat /\ (j = 2 * (j \div 2) \/ j = 2 * (j \div 2) + 1)
    BY SMT
  <2> QED BY <2>1
<1>4. PICK r \in Nat : j = 2 * r \/ j = 2 * r + 1
  BY <1>3
<1>5. r \in 1..ReviewRounds
  BY <1>1, <1>2, <1>4
<1> QED BY <1>4, <1>5

\* The largest round of the reviews is that of the last one.
LEMMA Latest ==
  ASSUME TypeInv, NEW j \in ReviewJobs, \A k \in ReviewJobs : round[k] <= round[j]
  PROVE  LatestReviewRound = round[j]
<1>1. njobs \in Nat /\ \A k \in 1..njobs : k \in Jobs /\ round[k] \in 0..njobs
  BY ConstantsAssumption DEF TypeInv, RowType, Jobs
<1> DEFINE T == {round[k] : k \in ReviewJobs} \cup {0}
<1>2. T \in SUBSET (0..njobs) /\ round[j] \in T /\ \A x \in T : x <= round[j]
  BY <1>1 DEF ReviewJobs
<1>3. \E x \in T : \A y \in T : x >= y
  BY <1>2
<1>4. Max(T) \in T /\ \A y \in T : Max(T) >= y
  BY <1>3 DEF Max
<1>5. LatestReviewRound = Max(T)
  BY DEF LatestReviewRound, MaxOf
<1> HIDE DEF T
<1>6. Max(T) \in Nat /\ round[j] \in Nat
  <2>1. T \subseteq Nat
    BY <1>1, <1>2
  <2> QED BY <1>2, <1>4, <2>1
<1> QED BY <1>2, <1>4, <1>5, <1>6

\* So a verdict's row comes after the last fix.
LEMMA VerdictsLater ==
  ASSUME TypeInv, Answers, InLine, Managed, used.request = 0, used.openedAgain = 0,
         NEW j \in 1..njobs, stage[j] \in {"final_verdict", "merge_conflict_resolution"}
  PROVE  j > LastFix
<1>1. j \in Nat \ {0}
  BY DEF TypeInv, RowType
<1>2. CASE j = 1
  BY <1>2 DEF Answers, FirstJob
<1>3. ASSUME NEW r \in 1..ReviewRounds, j = 2 * r \/ j = 2 * r + 1 PROVE FALSE
  <2>1. j \in Nat /\ njobs \in Nat /\ j <= njobs
    BY DEF TypeInv, RowType
  <2>2. (j = 2 * r => stage[j] = "review_round") /\ (j = 2 * r + 1 => stage[j] = "implementation")
    BY <2>1 DEF InLine
  <2> QED BY <1>3, <2>2
<1> QED BY <1>1, <1>2, <1>3, Places

\* What a row in line has to be is kept by what adds a row in line.
LEMMA InLineGrows ==
  ASSUME TypeInv, InLine, Managed, used.request = 0, used.openedAgain = 0, [Next]_vars,
         njobs' = njobs + 1,
         \A r \in 1..ReviewRounds :
           /\ njobs + 1 = 2 * r => stage'[njobs + 1] = "review_round" /\ round'[njobs + 1] = r
           /\ njobs + 1 = 2 * r + 1 => stage'[njobs + 1] = "implementation" /\ round'[njobs + 1] = r,
         njobs + 1 > LastFix => stage'[njobs + 1] \in {"final_verdict", "merge_conflict_resolution"},
         njobs + 1 <= LastFix + 1 => cause'[njobs + 1] = njobs /\ (njobs > 1 => HasPosted(njobs))
  PROVE  InLine'
<1>1. /\ njobs \in Nat /\ ReviewRounds \in Nat /\ LastFix = 2 * ReviewRounds + 1
      /\ \A j \in 1..njobs : stage'[j] = stage[j] /\ round'[j] = round[j] /\ cause'[j] = cause[j]
      /\ posted \subseteq posted'
  BY RowsStay, ConstantsAssumption DEF LastFix
<1>2. \A j : HasPosted(j) => HasPosted(j)'
  BY <1>1 DEF HasPosted
<1>3. ASSUME NEW r \in 1..ReviewRounds
      PROVE  /\ 2 * r <= njobs' => stage'[2 * r] = "review_round" /\ round'[2 * r] = r
             /\ 2 * r + 1 <= njobs' => stage'[2 * r + 1] = "implementation" /\ round'[2 * r + 1] = r
  <2>1. CASE 2 * r <= njobs
    <3>1. stage'[2 * r] = "review_round" /\ round'[2 * r] = r
      <4>1. 2 * r \in 1..njobs
        BY <1>1, <2>1
      <4> QED BY <1>1, <2>1, <4>1 DEF InLine
    <3>2. CASE 2 * r + 1 <= njobs
      <4>1. 2 * r + 1 \in 1..njobs
        BY <1>1, <3>2
      <4> QED BY <1>1, <3>1, <3>2, <4>1 DEF InLine
    <3>3. CASE 2 * r + 1 = njobs + 1
      BY <3>1, <3>3
    <3> QED BY <1>1, <3>1, <3>2, <3>3
  <2>2. CASE 2 * r = njobs + 1
    BY <1>1, <2>2
  <2> QED BY <1>1, <2>1, <2>2
<1>4. ASSUME NEW j \in 1..njobs', j > LastFix
      PROVE  stage'[j] \in {"final_verdict", "merge_conflict_resolution"}
  <2>1. CASE j \in 1..njobs
    BY <1>1, <1>4, <2>1 DEF InLine
  <2>2. CASE j = njobs + 1
    BY <1>4, <2>2
  <2> QED BY <1>1, <2>1, <2>2
<1>5. ASSUME NEW j \in 2..njobs', j <= LastFix + 1
      PROVE  cause'[j] = j - 1 /\ (j > 2 => HasPosted(j - 1)')
  <2>1. CASE j \in 2..njobs
    BY <1>1, <1>2, <1>5, <2>1 DEF InLine
  <2>2. CASE j = njobs + 1
    BY <1>1, <1>2, <1>5, <2>2
  <2> QED BY <1>1, <2>1, <2>2
<1>6. LastFix' = LastFix
  BY DEF LastFix
<1>7. InLine'
  BY <1>3, <1>4, <1>5, <1>6 DEF InLine
<1> QED BY <1>7

\* A comment, or the first webhook, leads to the next row in line.
LEMMA InLineStep ==
  ASSUME TypeInv, Answers, Handling, OpenedOnce, AllSucceeded, Requests, InLine, [Next]_vars
  PROVE  InLine'
<1>1. SUFFICES ASSUME Managed, used'.request = 0, used'.openedAgain = 0 PROVE InLine'
  BY DEF InLine
<1>2. used.request = 0 /\ used.openedAgain = 0
  BY <1>1, NotUsed DEF Bounds
<1>3. /\ njobs \in Nat \ {0} /\ njobs' \in {njobs, njobs + 1}
      /\ \A j \in 1..njobs : stage'[j] = stage[j] /\ round'[j] = round[j] /\ cause'[j] = cause[j]
      /\ posted \subseteq posted' /\ ReviewRounds \in Nat \ {0} /\ LastFix = 2 * ReviewRounds + 1
  BY <1>1, RowsStay, ConstantsAssumption DEF LastFix, TypeInv, RowType
<1>4. CASE njobs' = njobs
  <2>1. \A j : HasPosted(j) => HasPosted(j)'
    BY <1>3 DEF HasPosted
  <2>2. \A r \in 1..ReviewRounds : /\ 2 * r <= njobs => 2 * r \in 1..njobs
                                   /\ 2 * r + 1 <= njobs => 2 * r + 1 \in 1..njobs
    BY <1>3
  <2> QED BY <1>1, <1>2, <1>3, <1>4, <2>1, <2>2 DEF InLine, LastFix
<1>5. ASSUME njobs' = njobs + 1, NEW c \in 1..njobs, cause'[njobs + 1] = c, ~Succeeded(c), c <= LastFix
      PROVE  c = njobs
  <2>1. SUFFICES ASSUME c < njobs PROVE FALSE
    BY <1>3
  <2>2. c + 1 \in 2..njobs /\ c + 1 <= LastFix + 1 /\ c + 1 \in 1..njobs
    BY <1>3, <1>5, <2>1
  <2>3. cause[c + 1] = c
    BY <1>1, <1>2, <2>2, <1>3 DEF InLine
  <2> QED BY <2>2, <2>3, <1>3, <1>5 DEF AllSucceeded
<1>6. CASE EnqueueConflict
  <2>1. /\ njobs' = njobs + 1 /\ stage'[njobs + 1] = "merge_conflict_resolution"
        /\ event.job \in 1..njobs /\ stage[event.job] = "final_verdict"
    <3>1. event.job \in 0..njobs
      BY DEF TypeInv, MailType
    <3> QED BY <1>6, <3>1, NewConflict, NewRow DEF EnqueueConflict, Handling, Approves, IsVerdict
  <2>2. njobs > LastFix
    BY <1>1, <1>2, <1>3, <2>1, VerdictsLater
  <2>3. /\ njobs + 1 > LastFix + 1
        /\ \A r \in 1..ReviewRounds : njobs + 1 # 2 * r /\ njobs + 1 # 2 * r + 1
    BY <1>3, <2>2
  <2> QED BY <1>1, <1>2, <2>1, <2>3, <1>3, InLineGrows
<1>7. CASE Enqueue
  <2>1. /\ njobs' = njobs + 1 /\ stage'[njobs + 1] = NextStage(event) /\ round'[njobs + 1] = NextRound(event)
        /\ cause'[njobs + 1] = CauseOf(event) /\ step = "enqueue"
    BY <1>7, NewJob, NewRow DEF Enqueue
  <2>2. event.kind \in {"opened", "comment"}
    BY <1>1, <1>2, <2>1 DEF Requests, Known, TypeInv, OtherType
  <2>3. CASE event.kind = "opened"
    <3>1. CauseOf(event) = 1 /\ 1 \in 1..njobs
      BY <1>1, <1>3, <2>3 DEF CauseOf, Answers, Known, Says
    <3>2. ~Succeeded(1)
      BY <1>1, <2>1, <3>1, NewSuccessor
    <3>3. njobs = 1
      BY <1>3, <1>5, <2>1, <3>1, <3>2
    <3>4. stage'[2] = "review_round" /\ round'[2] = 1 /\ cause'[2] = 1
      BY <1>1, <2>1, <2>3, <3>1, <3>3 DEF NextStage, NextRound
    <3>5. /\ \A r \in 1..ReviewRounds : 2 # 2 * r + 1 /\ (2 = 2 * r => r = 1)
          /\ ~(2 > LastFix)
      BY <1>3
    <3> QED BY <1>1, <1>2, <2>1, <3>3, <3>4, <3>5, InLineGrows
  <2>4. CASE event.kind = "comment"
    <3>1. PICK c : c = event.job
      OBVIOUS
    <3>2. /\ c \in 1..njobs /\ c # 1 /\ HasPosted(c) /\ stage[c] # "final_verdict" /\ CauseOf(event) = c
      BY <1>1, <2>1, <2>4, <3>1 DEF CauseOf, Answers, Known, Says, Posted, HasPosted, Handling, IsVerdict, TypeInv, MailType, RowType
    <3>3. ~Succeeded(c)
      BY <1>1, <2>1, <3>2, NewSuccessor
    <3>4. c <= LastFix => c = njobs
      BY <1>5, <2>1, <3>2, <3>3
    <3>5. CASE c > LastFix
      <4>1. stage[c] = "merge_conflict_resolution" /\ njobs > LastFix
        BY <1>1, <1>2, <1>3, <3>2, <3>5 DEF InLine
      <4>2. NextStage(event) = "final_verdict"
        BY <2>4, <3>1, <4>1 DEF NextStage
      <4>3. /\ njobs + 1 > LastFix + 1
            /\ \A r \in 1..ReviewRounds : njobs + 1 # 2 * r /\ njobs + 1 # 2 * r + 1
        BY <1>3, <4>1
      <4> QED BY <1>1, <1>2, <1>3, <2>1, <4>2, <4>3, InLineGrows
    <3>6. ASSUME NEW q \in 1..ReviewRounds, c = 2 * q PROVE InLine'
      <4>1. c <= LastFix /\ njobs = 2 * q
        BY <1>3, <3>4, <3>6
      <4>2. stage[c] = "review_round" /\ round[c] = q
        BY <1>1, <1>2, <3>6, <4>1 DEF InLine
      <4>3. NextStage(event) = "implementation" /\ NextRound(event) = q
        BY <2>4, <3>1, <4>2 DEF NextStage, NextRound
      <4>4. /\ \A r \in 1..ReviewRounds : njobs + 1 # 2 * r /\ (njobs + 1 = 2 * r + 1 => r = q)
            /\ ~(njobs + 1 > LastFix)
        BY <1>3, <4>1
      <4> QED BY <1>1, <1>2, <1>3, <2>1, <3>2, <3>4, <4>1, <4>3, <4>4, InLineGrows
    <3>7. ASSUME NEW q \in 1..ReviewRounds, c = 2 * q + 1 PROVE InLine'
      <4>1. c <= LastFix /\ njobs = 2 * q + 1 /\ 2 * q \in 1..njobs
        BY <1>3, <3>4, <3>7
      <4>2. stage[c] = "implementation" /\ stage[2 * q] = "review_round" /\ round[2 * q] = q
        BY <1>1, <1>2, <3>7, <4>1 DEF InLine
      <4>3. LatestReviewRound = q
        <5>1. ASSUME NEW k \in ReviewJobs PROVE round[k] <= q
          <6>1. k \in Nat \ {0} /\ k <= njobs /\ stage[k] = "review_round"
            BY <1>3 DEF ReviewJobs
          <6>2. k # 1 /\ ~(k > LastFix)
            BY <1>1, <1>3, <4>1, <6>1 DEF Answers, FirstJob
          <6>3. PICK r \in 1..ReviewRounds : k = 2 * r \/ k = 2 * r + 1
            BY <6>1, <6>2, Places
          <6>4. k = 2 * r /\ round[k] = r
            BY <1>1, <1>2, <6>1, <6>3 DEF InLine
          <6> QED BY <4>1, <6>1, <6>4
        <5>2. 2 * q \in ReviewJobs
          BY <4>1, <4>2 DEF ReviewJobs
        <5> QED BY <4>2, <5>1, <5>2, Latest
      <4>4. CASE q < ReviewRounds
        <5>1. NextStage(event) = "review_round" /\ NextRound(event) = q + 1
          BY <2>4, <3>1, <4>2, <4>3, <4>4 DEF NextStage, NextRound
        <5>2. /\ \A r \in 1..ReviewRounds : njobs + 1 # 2 * r + 1 /\ (njobs + 1 = 2 * r => r = q + 1)
              /\ ~(njobs + 1 > LastFix)
          BY <1>3, <4>1, <4>4
        <5> QED BY <1>1, <1>2, <1>3, <2>1, <3>2, <3>4, <4>1, <5>1, <5>2, InLineGrows
      <4>5. CASE q = ReviewRounds
        <5>1. NextStage(event) = "final_verdict"
          BY <1>3, <2>4, <3>1, <4>2, <4>3, <4>5 DEF NextStage
        <5>2. \A r \in 1..ReviewRounds : njobs + 1 # 2 * r + 1 /\ njobs + 1 # 2 * r
          BY <1>3, <4>1, <4>5
        <5> QED BY <1>1, <1>2, <1>3, <2>1, <3>2, <3>4, <4>1, <5>1, <5>2, InLineGrows
      <4> QED BY <1>3, <4>4, <4>5
    <3>8. c \in Nat \ {0}
      BY <1>3, <3>2
    <3> QED BY <3>2, <3>5, <3>6, <3>7, <3>8, Places
  <2> QED BY <2>2, <2>3, <2>4
<1> QED BY <1>3, <1>4, <1>6, <1>7, JobsGrow

\* dani's own pull request is merged only after every round, unless a person asked for a
\* conflict's resolution or its first webhook came again: whatever else comes twice, fails,
\* is retried or cut short.
THEOREM EveryRound == Spec => []EveryRoundBeforeMerge
<1> DEFINE Inv == /\ TypeInv /\ Answers /\ Handling /\ MergeIsApproved /\ Recorded
                  /\ OpenedOnce /\ AllSucceeded /\ OneSuccessor /\ Requests /\ InLine
<1>1. Init => Inv
  <2> SUFFICES ASSUME Init PROVE Requests /\ InLine
    BY InitLoop, InitSuccessor
  <2>1. Requests
    BY DEF Init, Requests, Known, NoEvent
  <2>2. LastFix > 1 /\ \A r \in 1..ReviewRounds : 2 * r > 1 /\ 2 * r + 1 > 1
    BY ConstantsAssumption DEF LastFix
  <2>3. InLine
    <3>1. SUFFICES ASSUME Managed PROVE InLine
      BY DEF InLine
    <3>2. njobs = 1
      BY <3>1 DEF Init
    <3> QED BY <2>2, <3>2, ConstantsAssumption DEF InLine, LastFix
  <2> QED BY <2>1, <2>3
<1>2. Inv /\ [Next]_vars => Inv'
  BY TypeStep, AnswersStep, HandlingStep, MergeStep, RecordStep, OpenedStep, SuccessorStep, RequestsStep, InLineStep
<1>3. Inv => EveryRoundBeforeMerge
  <2> SUFFICES ASSUME Inv, Managed, mergedBy # 0, used.request = 0, used.openedAgain = 0,
                      NEW r \in 1..ReviewRounds
               PROVE  \A s \in {"review_round", "implementation"} :
                        \E j \in 1..njobs : stage[j] = s /\ round[j] = r /\ HasPosted(j)
    BY DEF EveryRoundBeforeMerge, EveryRoundDone
  <2>1. mergedBy \in 1..njobs /\ stage[mergedBy] = "final_verdict" /\ njobs \in Nat
    BY DEF MergeIsApproved, TypeInv, OtherType, RowType
  <2>2. njobs > LastFix
    BY <2>1, VerdictsLater, ConstantsAssumption DEF LastFix
  <2>3. 2 * r \in 1..njobs /\ 2 * r + 1 \in 1..njobs /\ 2 * r + 1 \in 2..njobs /\ 2 * r + 2 \in 2..njobs
        /\ 2 * r + 1 <= LastFix + 1 /\ 2 * r + 2 <= LastFix + 1 /\ 2 * r + 1 > 2 /\ 2 * r + 2 > 2
        /\ (2 * r + 1) - 1 = 2 * r /\ (2 * r + 2) - 1 = 2 * r + 1
    BY <2>1, <2>2, ConstantsAssumption DEF LastFix
  <2>4. stage[2 * r] = "review_round" /\ round[2 * r] = r /\ HasPosted(2 * r)
    BY <2>3 DEF InLine
  <2>5. stage[2 * r + 1] = "implementation" /\ round[2 * r + 1] = r /\ HasPosted(2 * r + 1)
    BY <2>3 DEF InLine
  <2> QED BY <2>3, <2>4, <2>5
<1> HIDE DEF Inv
<1> QED BY <1>1, <1>2, <1>3, PTL DEF Spec

---------------------------------------------------------------------------
(***************************************************************************)
(* A loop that stops: why it does.                                         *)
(***************************************************************************)

\* Webhooks are well formed: the first one says that the pull request is open, and a
\* verdict's comment holds a verdict.
Formed(e) ==
  /\ e.kind = "opened" => e.open /\ e.verdict = "none"
  /\ e.kind = "activity" => e.job \in {0, 1}
  /\ IsVerdict(e) => e.verdict \in Verdicts
WellFormed == \A e \in Known : Formed(e)

\* Who sends a webhook forms it well, and what it says of a row does not change.
LEMMA FormedStep ==
  ASSUME TypeInv, Answers, WellFormed, [Next]_vars
  PROVE  WellFormed'
<1>1. njobs \in Nat /\ \A j \in 1..njobs : stage'[j] = stage[j]
  BY RowsStay
<1>2. ASSUME NEW e \in Known PROVE Formed(e)'
  <2>1. e.kind = "comment" => e.job \in 1..njobs
    BY <1>1, <1>2 DEF TypeInv, MailType, Known
  <2>2. Formed(e)
    BY <1>2 DEF WellFormed
  <2> QED BY <2>1, <2>2, <1>1 DEF Formed, IsVerdict
<1>3. Formed(NoEvent)'
  BY DEF Formed, IsVerdict, NoEvent
<1>4. CASE Known' \subseteq Known \cup {NoEvent}
  BY <1>2, <1>3, <1>4 DEF WellFormed
<1>5. ASSUME NEW j \in Jobs, AgentPosts(j) PROVE WellFormed'
  <2>1. j \in 1..njobs /\ UNCHANGED <<stage, event>>
    BY <1>5, <1>1 DEF AgentPosts, Jobs, TypeInv, OtherType, rowVars, handlerVars
  <2>2. PICK v \in (IF stage[j] = "final_verdict" THEN Verdicts ELSE {"none"}) :
          IF Managed /\ j = 1 THEN Send(Event("opened", j, v, TRUE)) ELSE Send(Event("comment", j, v, FALSE))
    BY <1>5 DEF AgentPosts
  <2>3. CASE Managed /\ j = 1
    <3>0. PICK e : e = Event("opened", j, v, TRUE)
      OBVIOUS
    <3>1. e.kind = "opened" /\ e.open = TRUE /\ e.verdict = v
      BY <3>0, EventFields
    <3>2. Known' \subseteq Known \cup {e}
      BY <3>0, <2>1, <2>2, <2>3 DEF Known, Send
    <3>3. v = "none"
      BY <2>2, <2>3 DEF Answers, FirstJob
    <3>4. Formed(e)'
      BY <3>1, <3>3 DEF Formed, IsVerdict
    <3> QED BY <3>2, <3>4, <1>2 DEF WellFormed
  <2>4. CASE ~(Managed /\ j = 1)
    <3>0. PICK e : e = Event("comment", j, v, FALSE)
      OBVIOUS
    <3>1. e.kind = "comment" /\ e.job = j /\ e.verdict = v
      BY <3>0, EventFields
    <3>2. Known' \subseteq Known \cup {e}
      BY <3>0, <2>1, <2>2, <2>4 DEF Known, Send
    <3>3. Formed(e)'
      BY <3>1, <2>1, <2>2 DEF Formed, IsVerdict
    <3> QED BY <3>2, <3>3, <1>2 DEF WellFormed
  <2> QED BY <2>3, <2>4
<1>6. ASSUME NEW k \in {"opened", "activity", "request", "closed"}, NEW j \in {0, 1}, NEW open \in BOOLEAN,
             k = "opened" => open,
             Known' \subseteq Known \cup {NoEvent, Event(k, j, "none", open)}
      PROVE  WellFormed'
  <2>0. PICK e : e = Event(k, j, "none", open)
    OBVIOUS
  <2>1. e.kind = k /\ e.job = j /\ e.verdict = "none" /\ e.open = open
    BY <2>0, EventFields
  <2>2. Formed(e)'
    BY <2>1, <1>6 DEF Formed, IsVerdict
  <2>3. Known' \subseteq Known \cup {NoEvent, e}
    BY <1>6, <2>0
  <2> QED BY <2>2, <2>3, <1>2, <1>3 DEF WellFormed
<1> QED BY <1>4, <1>5, <1>6, KnownSteps

---------------------------------------------------------------------------
\* No webhook is forgotten: it is on its way or it was delivered.
LEMMA MailStays ==
  [Next]_vars => mail \cup delivered \subseteq mail' \cup delivered'
  BY DEF Next, vars, HandlerStep, HandlerFrame, Receive, ReceiveClosed, ReceiveManaged, ReceiveExternal,
         ReceiveComment, ReceiveVerdict, ReceiveRequest, CheckOpen, Enqueue, EnqueueConflict, MergePullRequest,
         MergeRefused, RecordVerdict, HandlerRaises, WorkerStep, WorkerFrame, Launch, Relaunch, Complete, AgentPosts,
         Retry, Fail, WorldFrame, OutsiderOpens, Activity, RequestResolution, PersonCloses, PersonReopens, Lose,
         Redeliver, Crash, mailVars, Send

\* Each comment has a webhook.
Posts ==
  \A p \in posted :
    /\ p[1] \in 1..njobs
    /\ ~(Managed /\ p[1] = 1) =>
         \E e \in mail \cup delivered : e.kind = "comment" /\ e.job = p[1] /\ e.verdict = p[2]

\* A comment is posted by the running job, and its webhook sent at once.
LEMMA PostsStep ==
  ASSUME TypeInv, Posts, [Next]_vars
  PROVE  Posts'
<1>1. njobs \in Nat /\ njobs' \in {njobs, njobs + 1}
  BY RowsStay
<1>2. ASSUME NEW p \in posted
      PROVE  /\ p[1] \in 1..njobs'
             /\ ~(Managed /\ p[1] = 1) =>
                  \E e \in mail' \cup delivered' : e.kind = "comment" /\ e.job = p[1] /\ e.verdict = p[2]
  <2>1. /\ p[1] \in 1..njobs
        /\ ~(Managed /\ p[1] = 1) =>
             \E e \in mail \cup delivered : e.kind = "comment" /\ e.job = p[1] /\ e.verdict = p[2]
    BY <1>2 DEF Posts
  <2> QED BY <1>1, <2>1, MailStays
<1>3. CASE posted' = posted
  BY <1>2, <1>3 DEF Posts
<1>4. ASSUME NEW j \in Jobs, AgentPosts(j) PROVE Posts'
  <2>1. j \in 1..njobs /\ njobs' = njobs
    BY <1>4, <1>1 DEF AgentPosts, Jobs, TypeInv, OtherType, rowVars
  <2>2. PICK v, n : /\ posted' = posted \cup {<<j, v, n>>}
                    /\ ~(Managed /\ j = 1) => Send(Event("comment", j, v, FALSE))
    BY <1>4 DEF AgentPosts
  <2>3. ASSUME ~(Managed /\ j = 1)
        PROVE  \E e \in mail' \cup delivered' : e.kind = "comment" /\ e.job = j /\ e.verdict = v
    <3>0. PICK e : e = Event("comment", j, v, FALSE)
      OBVIOUS
    <3>1. e.kind = "comment" /\ e.job = j /\ e.verdict = v
      BY <3>0, EventFields
    <3>2. e \in mail'
      BY <2>2, <2>3, <3>0 DEF Send
    <3> QED BY <3>1, <3>2
  <2> QED BY <1>2, <2>1, <2>2, <2>3 DEF Posts
<1>5. posted' = posted \/ \E j \in Jobs : AgentPosts(j)
  BY DEF Next, vars, HandlerStep, HandlerFrame, Receive, ReceiveClosed, ReceiveManaged, ReceiveExternal,
         ReceiveComment, ReceiveVerdict, ReceiveRequest, CheckOpen, Enqueue, EnqueueConflict, MergePullRequest,
         MergeRefused, RecordVerdict, HandlerRaises, WorkerStep, Launch, Relaunch, Complete,
         Retry, Fail, WorldFrame, OutsiderOpens, Activity, RequestResolution, PersonCloses, PersonReopens, Lose,
         Redeliver, Crash, githubVars
<1> QED BY <1>3, <1>4, <1>5

\* What led to a row came before it.
CauseBefore == \A j \in 1..njobs : cause[j] < j

\* A new row is led to by the event of an older one.
LEMMA CauseStep ==
  ASSUME TypeInv, Handling, CauseBefore, [Next]_vars
  PROVE  CauseBefore'
<1>1. /\ njobs \in Nat /\ njobs' \in {njobs, njobs + 1} /\ \A j \in 1..njobs : cause'[j] = cause[j]
  BY RowsStay
<1>2. CASE Enqueue \/ EnqueueConflict
  <2>1. 1..njobs' = 1..njobs \cup {njobs + 1} /\ cause'[njobs + 1] \in 0..njobs
    <3>1. event.job \in 0..njobs
      BY DEF TypeInv, MailType
    <3> QED BY <1>2, <3>1, NewJob, NewConflict, NewRow
  <2> QED BY <1>1, <2>1 DEF CauseBefore
<1>3. CASE ~(Enqueue \/ EnqueueConflict)
  BY <1>1, <1>3, JobsGrow DEF CauseBefore
<1> QED BY <1>2, <1>3

---------------------------------------------------------------------------
\* What excuses a loop that stops.
Trouble == {"fail", "close", "error", "crash", "lose"}
Calm == \A b \in Trouble : used[b] = 0

\* The steps that are left when none of it happens.
CalmStep ==
  \/ \E e \in mail : \/ ReceiveClosed(e) \/ ReceiveManaged(e) \/ ReceiveExternal(e)
                     \/ ReceiveComment(e) \/ ReceiveVerdict(e) \/ ReceiveRequest(e)
  \/ CheckOpen \/ Enqueue \/ MergePullRequest \/ MergeRefused \/ EnqueueConflict \/ RecordVerdict
  \/ \E j \in Jobs : Launch(j) \/ Relaunch(j) \/ Complete(j) \/ AgentPosts(j) \/ Retry(j)
  \/ OutsiderOpens \/ Activity \/ RequestResolution \/ PersonReopens
  \/ \E e \in delivered : Redeliver(e)
  \/ UNCHANGED vars

\* While none of the bounds that count trouble is used, none of its steps was taken.
LEMMA Calmly ==
  ASSUME TypeInv, [Next]_vars, Calm'
  PROVE  Calm /\ CalmStep /\ ~PersonCloses
<1>1. Trouble \subseteq DOMAIN Bounds /\ \A b \in Trouble : used'[b] = 0
  BY DEF Calm, Trouble, Bounds
<1>2. \A b \in Trouble : used[b] = 0 /\ ~Use(b)
  BY <1>1, NotUsed
<1>3. ~(\E j \in Jobs : Fail(j)) /\ ~HandlerRaises /\ ~Crash /\ ~PersonCloses /\ ~(\E e \in mail : Lose(e))
  BY <1>2 DEF Trouble, Fail, HandlerRaises, Crash, PersonCloses, Lose
<1> QED BY <1>2, <1>3 DEF Calm, CalmStep, Next, HandlerStep, WorkerStep

\* Nothing has begun before the pull request is open, its opening has a webhook, and
\* only dani closes it, by a merge.
Begun ==
  Calm =>
    /\ pr # "closed" /\ (pr # "merged" => ~terminal)
    /\ \A e \in Known : e.kind = "closed" => pr = "merged"
    /\ pr = "none" => /\ mail \cup delivered = {} /\ event.kind = "none" /\ processed = {}
                      /\ njobs = IF Managed THEN 1 ELSE 0
    /\ pr # "none" => \E e \in mail \cup delivered : e.kind = "opened"

\* The steps before the opening are those that queue or run its job, and they tell nobody.
LEMMA BegunStep ==
  ASSUME TypeInv, Begun, [Next]_vars
  PROVE  Begun'
<1>1. SUFFICES ASSUME Calm' PROVE Begun'
  BY DEF Begun
<1>2. /\ Calm /\ CalmStep /\ ~PersonCloses
      /\ pr # "closed" /\ (pr # "merged" => ~terminal)
      /\ \A e \in Known : e.kind = "closed" => pr = "merged"
  BY <1>1, Calmly DEF Begun
<1>3. pr' # "closed"
  BY <1>2 DEF CalmStep, vars, HandlerFrame, Receive, ReceiveClosed, ReceiveManaged, ReceiveExternal,
         ReceiveComment, ReceiveVerdict, ReceiveRequest, CheckOpen, Enqueue, EnqueueConflict, MergePullRequest,
         MergeRefused, RecordVerdict, WorkerFrame, Launch, Relaunch, Complete, AgentPosts,
         Retry, WorldFrame, OutsiderOpens, Activity, RequestResolution, PersonReopens, Redeliver, githubVars
<1>4. ASSUME NEW f \in Known', f.kind = "closed" PROVE pr' = "merged"
  <2>1. NoEvent.kind = "none" /\ (f \in Known => pr' = "merged")
    BY <1>2, <1>4, StepFrame DEF NoEvent
  <2>2. ASSUME NEW j \in Jobs, AgentPosts(j) PROVE f \in Known
    <3>0. PICK v : Send(Event("opened", j, v, TRUE)) \/ Send(Event("comment", j, v, FALSE))
      BY <2>2 DEF AgentPosts
    <3>1. PICK k \in {"opened", "comment"}, open \in BOOLEAN : Send(Event(k, j, v, open))
      BY <3>0
    <3>2. Event(k, j, v, open).kind # "closed"
      BY EventFields
    <3>3. Known' = Known \cup {Event(k, j, v, open)}
      BY <2>2, <3>1 DEF AgentPosts, handlerVars, Send, Known
    <3> QED BY <3>2, <3>3, <1>4
  <2>3. ASSUME NEW k \in {"opened", "activity", "request", "closed"}, NEW j \in {0, 1}, NEW open \in BOOLEAN,
               k = "closed" => pr' \in {"closed", "merged"},
               Known' \subseteq Known \cup {NoEvent, Event(k, j, "none", open)}
        PROVE  pr' = "merged"
    <3>1. Event(k, j, "none", open).kind = k
      BY EventFields
    <3> QED BY <3>1, <1>3, <2>1, <2>3, <1>4
  <2> QED BY <2>1, <2>2, <2>3, <1>4, KnownSteps
<1>5. pr' # "merged" => ~terminal'
  <2>1. CASE \E e \in mail : ReceiveClosed(e)
    <3>1. PICK e \in mail : ReceiveClosed(e)
      BY <2>1
    <3>2. pr' = "merged"
      BY <3>1, <1>2 DEF ReceiveClosed, Receive, Known
    <3> QED BY <3>2
  <2>2. CASE ~\E e \in mail : ReceiveClosed(e)
    <3>1. terminal' = terminal
      BY <2>2, <1>2 DEF CalmStep, vars, HandlerFrame, Receive, ReceiveManaged, ReceiveExternal,
         ReceiveComment, ReceiveVerdict, ReceiveRequest, CheckOpen, Enqueue, EnqueueConflict, MergePullRequest,
         MergeRefused, RecordVerdict, WorkerFrame, Launch, Relaunch, Complete, AgentPosts,
         Retry, WorldFrame, OutsiderOpens, Activity, RequestResolution, PersonReopens, Redeliver, fileVars
    <3> QED BY <3>1, <1>2, StepFrame
  <2> QED BY <2>1, <2>2
<1>6. CASE pr = "none"
  <2>1. /\ mail = {} /\ delivered = {} /\ event.kind = "none" /\ processed = {} /\ step = "idle"
        /\ njobs = IF Managed THEN 1 ELSE 0
    BY <1>2, <1>6 DEF Begun, TypeInv, OtherType
  <2>2. \A j \in Jobs : AgentPosts(j) => Managed /\ j = 1
    <3> SUFFICES ASSUME NEW j \in Jobs, AgentPosts(j) PROVE Managed /\ j = 1
      OBVIOUS
    <3>1. running = j /\ running \in 0..njobs /\ j \in Nat \ {0}
      BY ConstantsAssumption DEF AgentPosts, TypeInv, OtherType, Jobs
    <3> QED BY <3>1, <2>1
  <2>3. \/ \E j \in Jobs : AgentPosts(j)
        \/ OutsiderOpens
        \/ UNCHANGED <<pr, mail, delivered, event, processed, njobs>>
    BY <1>2, <1>6, <2>1 DEF CalmStep, vars, Receive, ReceiveClosed, ReceiveManaged, ReceiveExternal,
         ReceiveComment, ReceiveVerdict, ReceiveRequest, CheckOpen, Enqueue, EnqueueConflict, MergePullRequest,
         MergeRefused, RecordVerdict, WorkerFrame, Launch, Relaunch, Complete, Retry, Activity, RequestResolution,
         PersonReopens, Redeliver, githubVars, mailVars, handlerVars, fileVars, rowVars
  <2>4. ASSUME NEW j \in Jobs, AgentPosts(j)
        PROVE  pr' # "none" /\ \E e \in mail' \cup delivered' : e.kind = "opened"
    <3>1. PICK v : pr' = "open" /\ Send(Event("opened", j, v, TRUE))
      BY <2>2, <2>4 DEF AgentPosts
    <3>2. PICK e : e = Event("opened", j, v, TRUE)
      OBVIOUS
    <3>3. e.kind = "opened" /\ e \in mail'
      BY <3>1, <3>2, EventFields DEF Send
    <3> QED BY <3>1, <3>3
  <2>5. ASSUME OutsiderOpens
        PROVE  pr' # "none" /\ \E e \in mail' \cup delivered' : e.kind = "opened"
    <3>1. PICK e : e = Event("opened", 0, "none", TRUE)
      OBVIOUS
    <3>2. e.kind = "opened" /\ e \in mail' /\ pr' = "open"
      BY <2>5, <3>1, EventFields DEF OutsiderOpens, Send
    <3> QED BY <3>2
  <2>6. CASE \E j \in Jobs : AgentPosts(j)
    BY <1>3, <1>4, <1>5, <2>4, <2>6 DEF Begun
  <2>7. CASE OutsiderOpens
    BY <1>3, <1>4, <1>5, <2>5, <2>7 DEF Begun
  <2>8. CASE UNCHANGED <<pr, mail, delivered, event, processed, njobs>>
    BY <1>3, <1>4, <1>5, <1>6, <2>1, <2>8 DEF Begun
  <2> QED BY <2>3, <2>6, <2>7, <2>8
<1>7. CASE pr # "none"
  <2>1. pr' # "none" /\ \E e \in mail' \cup delivered' : e.kind = "opened"
    BY <1>2, <1>7, StepFrame, MailStays DEF Begun
  <2> QED BY <1>3, <1>4, <1>5, <2>1 DEF Begun
<1> QED BY <1>6, <1>7

---------------------------------------------------------------------------
\* When nothing goes wrong no job fails, and a job is completed by its comment, the
\* first implementation by its pull request.
Rows ==
  Calm =>
    \A j \in 1..njobs :
      /\ status[j] \in Active \cup {"completed"}
      /\ status[j] = "completed" /\ ~(Managed /\ j = 1) => HasPosted(j)

\* Webhooks that say a job is completed are the first implementation's.
LEMMA RowsStep ==
  ASSUME TypeInv, Answers, WellFormed, Rows, [Next]_vars
  PROVE  Rows'
<1>1. SUFFICES ASSUME Calm' PROVE Rows'
  BY DEF Rows
<1>2. /\ Calm /\ CalmStep
      /\ \A j \in 1..njobs : /\ status[j] \in Active \cup {"completed"}
                             /\ status[j] = "completed" /\ ~(Managed /\ j = 1) => HasPosted(j)
  BY <1>1, Calmly DEF Rows
<1>3. njobs \in Nat /\ posted \subseteq posted' /\ status \in [Jobs -> Statuses] /\ 1..njobs \subseteq Jobs
  BY RowsStay, ConstantsAssumption DEF TypeInv, RowType, Jobs
<1>4. \A j : HasPosted(j) => HasPosted(j)'
  BY <1>3 DEF HasPosted
<1>5. ASSUME NEW i, njobs' = njobs,
             \/ status' \in {status, [status EXCEPT ![i] = "launched"], [status EXCEPT ![i] = "retrying"]}
             \/ /\ status' = [status EXCEPT ![i] = "completed"]
                /\ HasPosted(i) \/ (Managed /\ i = 1) \/ i \notin 1..njobs
      PROVE  Rows'
  <2>1. \A j \in 1..njobs : /\ status'[j] \in {status[j], "launched", "retrying", "completed"}
                            /\ status'[j] = "completed" /\ ~(Managed /\ j = 1) => status[j] = "completed" \/ HasPosted(j)
    BY <1>3, <1>5
  <2> QED BY <1>2, <1>4, <1>5, <2>1 DEF Rows, Active
<1>6. CASE Enqueue \/ EnqueueConflict
  <2>1. /\ njobs' = njobs + 1 /\ status'[njobs + 1] = "queued"
        /\ \A j \in 1..njobs : status'[j] = status[j]
    <3>1. PICK s, r, c : EnqueueJob(s, r, c)
      BY <1>6 DEF Enqueue, EnqueueConflict
    <3> QED BY <3>1, <1>3, ConstantsAssumption DEF EnqueueJob, Jobs
  <2>2. 1..njobs' = 1..njobs \cup {njobs + 1}
    BY <1>3, <2>1
  <2> QED BY <1>2, <1>4, <2>1, <2>2 DEF Rows, Active
<1>7. ASSUME NEW e \in mail, ReceiveManaged(e) PROVE Rows'
  <2>1. e.job \in {0, 1}
    <3>1. e \in Known /\ e.kind \in {"opened", "activity"} /\ Managed
      BY <1>7 DEF Known, ReceiveManaged
    <3> QED BY <3>1 DEF WellFormed, Formed, Answers, Says
  <2>2. Managed /\ njobs' = njobs /\ (status' = status \/ status' = [status EXCEPT ![e.job] = "completed"])
    BY <1>7 DEF ReceiveManaged
  <2> QED BY <1>5, <2>1, <2>2
<1>8. ASSUME NEW j \in Jobs, Launch(j) \/ Relaunch(j) \/ Complete(j) \/ Retry(j) PROVE Rows'
  <2>1. njobs' = njobs
    BY <1>8 DEF Launch, Relaunch, Complete, Retry, WorkerFrame
  <2>2. \/ status' = [status EXCEPT ![j] = "launched"] \/ status' = [status EXCEPT ![j] = "retrying"]
        \/ status' = [status EXCEPT ![j] = "completed"] /\ HasPosted(j)
    BY <1>8 DEF Launch, Relaunch, Complete, Retry
  <2> QED BY <1>5, <2>1, <2>2
<1>9. CASE UNCHANGED <<njobs, status>>
  BY <1>5, <1>9
<1> QED
  BY <1>2, <1>6, <1>7, <1>8, <1>9 DEF CalmStep, vars, Receive, ReceiveClosed, ReceiveExternal,
     ReceiveComment, ReceiveVerdict, ReceiveRequest, CheckOpen, MergePullRequest, MergeRefused, RecordVerdict,
     AgentPosts, WorldFrame, OutsiderOpens, Activity, RequestResolution, PersonReopens, Redeliver, rowVars

\* What a delivered webhook has led to: a later row or the handler that will add one; a
\* rejection leads nowhere, and an approval that dani may not merge is left to a human.
Answered(e) ==
  \/ njobs > e.job
  \/ step # "idle" /\ event = e
  \/ e.verdict = "REJECT" \/ (e.verdict = "APPROVE" /\ ~OwnerAuthor)

\* On an open pull request every opening and every comment that was delivered is
\* answered, and so is every one that was recorded, for it is not looked at again.
Told ==
  Calm /\ pr = "open" /\ Kind # "untracked" =>
    /\ \A e \in delivered : e.kind \in {"opened", "comment"} => Answered(e)
    /\ \A j \in 1..njobs :
         <<"job", j, "none">> \in processed /\ stage[j] # "final_verdict" =>
           njobs > j \/ (step \in {"check", "enqueue"} /\ event.kind = "comment" /\ event.job = j)
    /\ ~Managed /\ (\E i \in Nat : <<"opened", i, "none">> \in processed) => njobs > 0 \/ step = "enqueue"

\* The effect of an approval on an open pull request is a later row.
LEMMA OpenEffect ==
  ASSUME TypeInv, MergeIsApproved, CauseBefore, pr = "open", NEW j \in 1..njobs, HasEffect(j)
  PROVE  ~OwnerAuthor \/ njobs > j
<1>1. njobs \in Nat /\ cause \in [Jobs -> 0..njobs] /\ 1..njobs \subseteq Jobs /\ j \in Nat \ {0}
  BY ConstantsAssumption DEF TypeInv, RowType, Jobs
<1>2. mergedBy # j
  BY <1>1 DEF MergeIsApproved
<1>3. ASSUME NEW k \in 1..njobs, cause[k] = j PROVE njobs > j
  BY <1>1, <1>3 DEF CauseBefore
<1> QED BY <1>2, <1>3 DEF HasEffect

\* A handler that receives a webhook has to answer only this one.
LEMMA ReceiveTold ==
  ASSUME TypeInv, Told, Calm, pr = "open", Kind # "untracked", NEW e \in mail, Receive(e),
         UNCHANGED <<njobs, stage>>,
         e.kind \in {"opened", "comment"} => Answered(e)',
         \A j \in 1..njobs :
           <<"job", j, "none">> \in processed' =>
             <<"job", j, "none">> \in processed \/ (step' = "check" /\ event' = e /\ e.kind = "comment" /\ e.job = j),
         ~Managed => \A i \in Nat : <<"opened", i, "none">> \in processed' =>
                       <<"opened", i, "none">> \in processed \/ njobs > 0 \/ step' = "enqueue"
  PROVE  Told'
<1>1. step = "idle" /\ delivered' = delivered \cup {e}
  BY DEF Receive
<1>2. \A d \in delivered : d.kind \in {"opened", "comment"} => Answered(d)'
  BY <1>1 DEF Told, Answered
<1>3. \A j \in 1..njobs' :
        <<"job", j, "none">> \in processed' /\ stage'[j] # "final_verdict" =>
          njobs' > j \/ (step' \in {"check", "enqueue"} /\ event'.kind = "comment" /\ event'.job = j)
  BY <1>1 DEF Told
<1>4. ~Managed /\ (\E i \in Nat : <<"opened", i, "none">> \in processed') => njobs' > 0 \/ step' = "enqueue"
  BY <1>1 DEF Told
<1> QED BY <1>1, <1>2, <1>3, <1>4 DEF Told

\* Every webhook that arrives at a quiet handler is answered, or was before.
LEMMA ReceivesTold ==
  ASSUME TypeInv, Answers, MergeIsApproved, Recorded, WellFormed, CauseBefore, Begun, Told,
         Calm, pr = "open", Kind # "untracked", NEW e \in mail,
         \/ ReceiveClosed(e) \/ ReceiveManaged(e) \/ ReceiveExternal(e)
         \/ ReceiveComment(e) \/ ReceiveVerdict(e) \/ ReceiveRequest(e)
  PROVE  Told'
<1>1. /\ njobs \in Nat /\ e \in Known /\ Formed(e) /\ Says(e) /\ e.id \in Nat /\ e.job \in 0..njobs
      /\ e.kind = "comment" => e.job \in 1..njobs
  BY DEF TypeInv, RowType, MailType, Events, Known, WellFormed, Answers
<1>2. /\ Receive(e) /\ UNCHANGED <<njobs, stage>> /\ step = "idle"
      /\ ~terminal /\ e.kind # "closed"
  BY <1>1 DEF Receive, rowVars, Begun, Known, ReceiveClosed, ReceiveManaged, ReceiveExternal, ReceiveComment, ReceiveVerdict,
         ReceiveRequest
<1>3. CASE ReceiveManaged(e)
  <2>1. UNCHANGED processed /\ Managed /\ e.kind \in {"opened", "activity"}
    BY <1>3 DEF ReceiveManaged, fileVars
  <2>2. e.kind = "opened" => step' = "enqueue" /\ event' = e
    BY <1>1, <1>2, <1>3 DEF ReceiveManaged, Continue, Formed
  <2> QED BY <1>2, <2>1, <2>2, ReceiveTold DEF Answered
<1>4. CASE ReceiveExternal(e)
  <2>1. ~Managed /\ e.kind \in {"opened", "activity"} /\ KeyOf(e) = <<e.kind, e.id, "none">>
    BY <1>4 DEF ReceiveExternal, KeyOf
  <2>2. RoundsExhausted => njobs > 0
    <3>1. SUFFICES ASSUME RoundsExhausted, njobs = 0 PROVE FALSE
      BY <1>1
    <3>2. ConsumedRounds = {}
      BY <3>1 DEF ConsumedRounds, ReviewJobs
    <3>3. Cardinality(ConsumedRounds) = 0
      BY <3>2, FS_EmptySet
    <3> QED BY <3>1, <3>3, ConstantsAssumption DEF RoundsExhausted, ReviewRoundCap
  <2>3. \/ UNCHANGED <<processed, step, event>> /\ (~e.open \/ KeyOf(e) \in processed)
        \/ /\ processed' = processed \cup {KeyOf(e)}
           /\ njobs > 0 \/ (step' = "enqueue" /\ event' = e)
    BY <1>2, <1>4, <2>2 DEF ReceiveExternal, handlerVars, Continue
  <2>4. ASSUME e.kind = "opened" PROVE Answered(e)'
    <3>1. e.open /\ e.job = 0
      BY <1>1, <2>1, <2>4 DEF Formed, Says
    <3>2. KeyOf(e) \in processed => njobs > 0
      BY <1>1, <1>2, <2>1, <2>4 DEF Told
    <3> QED BY <1>2, <2>3, <3>1, <3>2 DEF Answered
  <2>5. \A j \in 1..njobs : <<"job", j, "none">> \in processed' => <<"job", j, "none">> \in processed
    BY <2>1, <2>3
  <2>6. \A i \in Nat : <<"opened", i, "none">> \in processed' =>
          <<"opened", i, "none">> \in processed \/ njobs > 0 \/ step' = "enqueue"
    BY <2>3
  <2> QED BY <1>2, <2>1, <2>4, <2>5, <2>6, ReceiveTold
<1>5. CASE ReceiveComment(e)
  <2>1. /\ e.kind = "comment" /\ stage[e.job] # "final_verdict" /\ e.verdict = "none"
        /\ KeyOf(e) = <<"job", e.job, "none">>
    BY <1>1, <1>5 DEF ReceiveComment, KeyOf, Says
  <2>2. \/ UNCHANGED processed /\ KeyOf(e) \in processed
        \/ processed' = processed \cup {KeyOf(e)} /\ step' = "check" /\ event' = e
    BY <1>5 DEF ReceiveComment, Continue
  <2>3. KeyOf(e) \in processed => njobs > e.job
    BY <1>1, <1>2, <2>1 DEF Told
  <2>4. Answered(e)'
    BY <1>2, <2>2, <2>3 DEF Answered
  <2>5. \A j \in 1..njobs :
           <<"job", j, "none">> \in processed' =>
             <<"job", j, "none">> \in processed \/ (step' = "check" /\ event' = e /\ e.kind = "comment" /\ e.job = j)
    BY <2>1, <2>2
  <2>6. \A i \in Nat : <<"opened", i, "none">> \in processed' => <<"opened", i, "none">> \in processed
    BY <2>1, <2>2
  <2> QED BY <1>2, <2>4, <2>5, <2>6, ReceiveTold
<1>6. CASE ReceiveVerdict(e)
  <2>1. /\ e.kind = "comment" /\ stage[e.job] = "final_verdict" /\ e.verdict \in Verdicts /\ UNCHANGED processed
        /\ KeyOf(e) = <<"job", e.job, e.verdict>>
    BY <1>1, <1>6 DEF ReceiveVerdict, KeyOf, Formed, IsVerdict, fileVars
  <2>2. Answered(e)'
    <3>1. CASE e.verdict = "REJECT"
      BY <3>1 DEF Answered
    <3>2. CASE e.verdict = "APPROVE" /\ KeyOf(e) \in processed
      <4>1. HasEffect(e.job)
        BY <1>1, <2>1, <3>2 DEF Recorded, RecordedVerdictHasEffect, HasEffect
      <4>2. ~OwnerAuthor \/ njobs > e.job
        BY <1>1, <2>1, <4>1, OpenEffect
      <4> QED BY <1>2, <3>2, <4>2 DEF Answered
    <3>3. CASE e.verdict = "APPROVE" /\ KeyOf(e) \notin processed
      BY <1>6, <3>3 DEF ReceiveVerdict, Continue, Answered
    <3> QED BY <2>1, <3>1, <3>2, <3>3 DEF Verdicts
  <2> QED BY <1>2, <2>1, <2>2, ReceiveTold
<1>7. CASE ReceiveRequest(e)
  <2>1. e.kind = "request" /\ processed' \subseteq processed \cup {<<"request", e.id, "none">>}
    BY <1>7 DEF ReceiveRequest, KeyOf
  <2> QED BY <1>2, <2>1, ReceiveTold
<1> QED BY <1>2, <1>3, <1>4, <1>5, <1>6, <1>7 DEF ReceiveClosed

\* What a handler has taken up it answers, and only a handler makes an answer out of date.
LEMMA ToldStep ==
  ASSUME TypeInv, Answers, Handling, MergeIsApproved, Recorded, WellFormed, CauseBefore, Begun, Told, [Next]_vars
  PROVE  Told'
<1>1. SUFFICES ASSUME Calm', pr' = "open", Kind # "untracked" PROVE Told'
  BY DEF Told
<1>2. Calm /\ CalmStep
  BY <1>1, Calmly
<1>3. pr \in {"none", "open"}
  BY <1>1, <1>2, StepFrame DEF Begun, TypeInv, OtherType
<1>4. /\ njobs \in Nat /\ \A e \in delivered \cup {event} : e.job \in 0..njobs
      /\ event.kind = "comment" => event.job \in 1..njobs
  BY DEF TypeInv, RowType, MailType
<1>5. CASE pr = "none"
  <2>1. mail = {} /\ delivered = {} /\ processed = {} /\ step = "idle"
    BY <1>2, <1>5 DEF Begun, TypeInv, OtherType
  <2>2. delivered' = {} /\ processed' = {}
    BY <1>2, <2>1 DEF CalmStep, vars, Receive, ReceiveClosed, ReceiveManaged, ReceiveExternal,
         ReceiveComment, ReceiveVerdict, ReceiveRequest, CheckOpen, Enqueue, EnqueueConflict, MergePullRequest,
         MergeRefused, RecordVerdict, WorkerFrame, Launch, Relaunch, Complete, AgentPosts, Retry, WorldFrame,
         OutsiderOpens, Activity, RequestResolution, PersonReopens, Redeliver, mailVars, fileVars, Send
  <2> QED BY <2>2 DEF Told
<1>6. CASE pr = "open"
  <2>0. /\ \A e \in delivered : e.kind \in {"opened", "comment"} => Answered(e)
        /\ \A j \in 1..njobs :
             <<"job", j, "none">> \in processed /\ stage[j] # "final_verdict" =>
               njobs > j \/ (step \in {"check", "enqueue"} /\ event.kind = "comment" /\ event.job = j)
        /\ ~Managed /\ (\E i \in Nat : <<"opened", i, "none">> \in processed) => njobs > 0 \/ step = "enqueue"
    BY <1>1, <1>2, <1>6 DEF Told
  <2>1. CASE \E e \in mail : \/ ReceiveClosed(e) \/ ReceiveManaged(e) \/ ReceiveExternal(e)
                             \/ ReceiveComment(e) \/ ReceiveVerdict(e) \/ ReceiveRequest(e)
    BY <1>1, <1>2, <1>6, <2>1, ReceivesTold
  <2>2. CASE CheckOpen
    <3>1. /\ UNCHANGED <<njobs, stage, processed, delivered, event>> /\ step = "check"
          /\ step' \in {"enqueue", "merge", "record"} /\ (~IsVerdict(event) => step' = "enqueue")
      BY <1>6, <2>2 DEF CheckOpen, rowVars, fileVars, mailVars
    <3>2. \A e \in delivered : e.kind \in {"opened", "comment"} => Answered(e)'
      BY <2>0, <3>1 DEF Answered
    <3>3. \A j \in 1..njobs :
            <<"job", j, "none">> \in processed /\ stage[j] # "final_verdict" =>
              njobs > j \/ (step' \in {"check", "enqueue"} /\ event.kind = "comment" /\ event.job = j)
      BY <2>0, <3>1 DEF IsVerdict
    <3> QED BY <2>0, <3>1, <3>2, <3>3 DEF Told
  <2>3. CASE Enqueue \/ EnqueueConflict
    <3>1. njobs' = njobs + 1 /\ UNCHANGED <<processed, delivered>>
      BY <2>3 DEF Enqueue, EnqueueConflict, EnqueueJob, fileVars, mailVars
    <3>2. \A e \in delivered : Answered(e)'
      BY <1>4, <3>1 DEF Answered
    <3>3. \A j \in 1..njobs' : <<"job", j, "none">> \in processed => njobs' > j
      BY <1>4, <3>1 DEF Recorded
    <3> QED BY <1>4, <3>1, <3>2, <3>3 DEF Told
  <2>4. CASE MergePullRequest
    BY <1>1, <2>4 DEF MergePullRequest
  <2>5. CASE MergeRefused
    <3>1. UNCHANGED <<njobs, stage, processed, delivered, event>> /\ step = "merge" /\ step' = "conflict"
      BY <2>5 DEF MergeRefused, rowVars, fileVars, mailVars
    <3>2. \A e \in delivered : e.kind \in {"opened", "comment"} => Answered(e)'
      BY <2>0, <3>1 DEF Answered
    <3> QED BY <2>0, <3>1, <3>2 DEF Told
  <2>6. CASE RecordVerdict
    <3>1. /\ UNCHANGED <<njobs, stage, delivered>> /\ step = "record"
          /\ processed' = processed \cup {KeyOf(event)}
      BY <2>6 DEF RecordVerdict, rowVars, mailVars
    <3>2. event.kind = "comment" /\ event.verdict = "APPROVE" /\ HasEffect(event.job)
          /\ KeyOf(event) = <<"job", event.job, "APPROVE">>
      BY <3>1 DEF Handling, Approves, IsVerdict, KeyOf
    <3>3. ~OwnerAuthor \/ njobs > event.job
      BY <1>4, <1>6, <3>2, OpenEffect
    <3>4. \A e \in delivered : e.kind \in {"opened", "comment"} => Answered(e)'
      BY <2>0, <3>1, <3>2, <3>3 DEF Answered
    <3>5. /\ \A j : <<"job", j, "none">> \in processed' => <<"job", j, "none">> \in processed
          /\ \A i : <<"opened", i, "none">> \in processed' => <<"opened", i, "none">> \in processed
      BY <3>1, <3>2
    <3> QED BY <2>0, <3>1, <3>4, <3>5 DEF Told
  <2>7. CASE UNCHANGED <<njobs, stage, processed, step, event>> /\ delivered' \subseteq delivered
    <3>1. \A e \in delivered : e.kind \in {"opened", "comment"} => Answered(e)'
      BY <2>0, <2>7 DEF Answered
    <3> QED BY <2>0, <2>7, <3>1 DEF Told
  <2>8. ASSUME NEW j \in Jobs, Launch(j) \/ Relaunch(j) \/ Complete(j) \/ AgentPosts(j) \/ Retry(j)
        PROVE  UNCHANGED <<njobs, stage, processed, step, event>> /\ delivered' \subseteq delivered
    BY <2>8 DEF WorkerFrame, Launch, Relaunch, Complete, AgentPosts, Retry, rowVars, fileVars, handlerVars, mailVars, Send
  <2>9. CASE \/ OutsiderOpens \/ Activity \/ RequestResolution \/ PersonReopens
             \/ \E e \in delivered : Redeliver(e)
             \/ UNCHANGED vars
    <3>1. UNCHANGED <<njobs, stage, processed, step, event>> /\ delivered' \subseteq delivered
      BY <2>9 DEF vars, WorldFrame, OutsiderOpens, Activity, RequestResolution, PersonReopens, Redeliver, rowVars,
         fileVars, handlerVars, mailVars, Send
    <3> QED BY <2>7, <3>1
  <2> QED BY <1>2, <2>1, <2>2, <2>3, <2>4, <2>5, <2>6, <2>7, <2>8, <2>9 DEF CalmStep
<1> QED BY <1>3, <1>5, <1>6

\* A loop that stops on an open pull request has a reason its people can see, whatever
\* webhooks come twice or late, comments are posted again and jobs retried.
THEOREM StopsForAReason == Spec => []StoppedForAReason
<1> DEFINE Inv == /\ TypeInv /\ Answers /\ Handling /\ MergeIsApproved /\ Recorded
                  /\ WellFormed /\ Posts /\ CauseBefore /\ Begun /\ Rows /\ Told
<1>1. Init => Inv
  <2> SUFFICES ASSUME Init PROVE WellFormed /\ Posts /\ CauseBefore /\ Begun /\ Rows /\ Told
    BY InitLoop
  <2>1. Known = {NoEvent} /\ Formed(NoEvent)
    BY DEF Init, Known, NoEvent, Formed, IsVerdict
  <2>2. Begun
    BY <2>1 DEF Init, Begun, NoEvent
  <2>3. Rows /\ CauseBefore
    BY ConstantsAssumption DEF Init, Rows, CauseBefore, Active, Jobs
  <2> QED BY <2>1, <2>2, <2>3 DEF Init, WellFormed, Posts, Told
<1>2. Inv /\ [Next]_vars => Inv'
  BY TypeStep, AnswersStep, HandlingStep, MergeStep, RecordStep, FormedStep, PostsStep, CauseStep, BegunStep,
     RowsStep, ToldStep
<1>3. Inv => StoppedForAReason
  <2> SUFFICES ASSUME Inv, Quiescent, pr = "open", Kind # "untracked",
                      \A j \in 1..njobs : status[j] # "failed" /\ ~Posted(j, "REJECT"),
                      ~OwnerAuthor => \A j \in 1..njobs : ~Posted(j, "APPROVE"),
                      \A b \in Trouble : ~(used[b] > 0)
               PROVE  FALSE
    BY DEF StoppedForAReason, Trouble
  <2>1. Calm
    BY DEF Calm, Trouble, Bounds, TypeInv, OtherType
  <2>2. njobs \in Nat /\ mail = {} /\ step = "idle" /\ \A j \in 1..njobs : status[j] \notin Active
    BY DEF Quiescent, TypeInv, RowType
  <2>3. \A e \in delivered : e.kind \in {"opened", "comment"} => Answered(e)
    BY <2>1 DEF Told
  <2>4. njobs > (IF Managed THEN 1 ELSE 0)
    <3>1. PICK e \in delivered : e.kind = "opened"
      BY <2>1, <2>2 DEF Begun
    <3>2. e.verdict = "none" /\ e.job = IF Managed THEN 1 ELSE 0
      BY <3>1 DEF WellFormed, Formed, Answers, Says, Known
    <3> QED BY <2>2, <2>3, <3>1, <3>2 DEF Answered
  <2>5. PICK p \in posted : p[1] = njobs
    <3>1. njobs \in 1..njobs /\ ~(Managed /\ njobs = 1)
      BY <2>2, <2>4
    <3> QED BY <2>1, <2>2, <3>1 DEF Rows, HasPosted
  <2>6. PICK e \in delivered : e.kind = "comment" /\ e.job = njobs /\ e.verdict = p[2]
    BY <2>2, <2>4, <2>5 DEF Posts
  <2>7. p[2] = "REJECT" \/ (p[2] = "APPROVE" /\ ~OwnerAuthor)
    BY <2>2, <2>3, <2>6 DEF Answered
  <2>8. njobs \in 1..njobs /\ Posted(njobs, p[2])
    BY <2>2, <2>4, <2>5 DEF Posted
  <2> QED BY <2>7, <2>8
<1> HIDE DEF Inv
<1> QED BY <1>1, <1>2, <1>3, PTL DEF Spec
=============================================================================
