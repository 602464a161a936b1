------------------------ MODULE JobRecoveryProofs ------------------------
(***************************************************************************)
(* What JobLifecycle says about recoveries, restarts and the sweep, proved *)
(* for every number of jobs, sessions, crashes and restarts.               *)
(***************************************************************************)
EXTENDS JobOutcomeProofs, JobLifecycleRefinement, FiniteSetTheorems

---------------------------------------------------------------------------
(***************************************************************************)
(* What holds of rows and worker wherever a recovery comes in.             *)
(***************************************************************************)

\* A row is there from its creation on, and what names a row names one that is there.
RowsThere ==
  /\ \A j \in Jobs : status[j] = "absent" <=> j \notin 1..njobs
  /\ \A e \in restartTodo : e[1] \in 1..njobs
  /\ \A s \in 1..nsess : sessJob[s] \in 1..njobs

\* A recovery job comes after its source, and only a recovery job has one to end.
RecoveryKinds ==
  /\ pc \in {"complete", "failSource"} => stage[cur] = RecoveryStage
  /\ pc = "markRecovering" => stage[cur] \in IssueCommentStages
  /\ \A r \in 1..njobs : stage[r] = RecoveryStage => source[r] < r

\* Nothing is superseded before the first restart_issue.
NoRestart == restarts = 0 => restart = "idle" /\ restartTodo = {}

Rows == RowsThere /\ RecoveryKinds /\ NoRestart

\* Every action keeps rows and recoveries in order.
LEMMA RowsThereStep == TypeInv /\ Posted /\ Rows /\ [Next]_vars => Rows'
<1> SUFFICES ASSUME TypeInv, Posted, Rows, [Next]_vars PROVE Rows'
  OBVIOUS
<1>a. /\ JobRows /\ SessionRows /\ WorkerType /\ BootType /\ HandlerType
      /\ njobs \in Nat /\ nsess \in Nat /\ 1..njobs \subseteq Jobs /\ 1..nsess \subseteq Sessions
      /\ restarts \in Nat
  BY ConstantsAssumption DEF TypeInv, TypeOK, JobRows, SessionRows, BoundType, Jobs, Sessions
<1>b. /\ pc # "idle" => cur \in 1..njobs
      /\ boot \in {"complete", "closeCompleted", "closeRequeued"} => bootJob \in 1..njobs
  BY HeldRows
<1>c. /\ 1..njobs \subseteq (1..njobs)'
      /\ \A j \in 1..njobs : stage'[j] = stage[j] /\ source'[j] = source[j]
  BY RowsStep DEF RowsStay
<1>d. /\ pc \in {"succeed", "complete", "failSource", "failed"} /\ stage[cur] = RecoveryStage =>
           source[cur] \in 1..njobs
      /\ \A j \in 1..njobs : stage[j] = RecoveryStage => source[j] \in 1..njobs
      /\ \A j \in prEvents : j \in 1..njobs
  BY <1>b DEF Posted, RecoveryRows, OpenedRows
<1>e. \A j \in 1..njobs : \A s \in {"queued", "launched", "retrying", "recovering", "failed",
                                    "completed", "superseded"} :
        njobs' = njobs /\ status' = [status EXCEPT ![j] = s] =>
          \A k \in Jobs : status'[k] = "absent" <=> k \notin 1..njobs'
  BY <1>a DEF Rows, RowsThere, JobRows
<1>f. njobs' = njobs /\ status' = status =>
        \A k \in Jobs : status'[k] = "absent" <=> k \notin 1..njobs'
  BY DEF Rows, RowsThere
<1>g. restartTodo' \subseteq restartTodo => \A e \in restartTodo' : e[1] \in 1..njobs'
  BY <1>c DEF Rows, RowsThere
<1>h. nsess' = nsess /\ sessJob' = sessJob => \A s \in 1..nsess' : sessJob'[s] \in 1..njobs'
  BY <1>c DEF Rows, RowsThere
<1>i. \/ pc' \notin {"complete", "failSource", "markRecovering"}
      \/ pc' = pc /\ cur' = cur
      => /\ pc' \in {"complete", "failSource"} => stage'[cur'] = RecoveryStage
         /\ pc' = "markRecovering" => stage'[cur'] \in IssueCommentStages
  <2>1. CASE pc' \notin {"complete", "failSource", "markRecovering"}
    BY <2>1
  <2>2. CASE pc' \in {"complete", "failSource", "markRecovering"} /\ pc' = pc /\ cur' = cur
    BY <2>2, <1>b, <1>c DEF Rows, RecoveryKinds
  <2> QED BY <2>1, <2>2
<1>j. njobs' = njobs => \A r \in 1..njobs' : stage'[r] = RecoveryStage => source'[r] < r
  BY <1>c DEF Rows, RecoveryKinds
<1>k. restarts' = restarts /\ restart' = restart /\ restartTodo' = restartTodo => NoRestart'
  BY DEF Rows, NoRestart
<1>l. \A st, src : CreateJob(st, src) /\ (st = RecoveryStage => src \in 1..njobs) =>
        /\ \A k \in Jobs : status'[k] = "absent" <=> k \notin 1..njobs'
        /\ \A r \in 1..njobs' : stage'[r] = RecoveryStage => source'[r] < r
  <2>1. SUFFICES ASSUME NEW st, NEW src, CreateJob(st, src), st = RecoveryStage => src \in 1..njobs
                 PROVE  /\ \A k \in Jobs : status'[k] = "absent" <=> k \notin 1..njobs'
                        /\ \A r \in 1..njobs' : stage'[r] = RecoveryStage => source'[r] < r
    OBVIOUS
  <2>2. /\ njobs' = njobs + 1 /\ njobs + 1 \in Jobs
        /\ \A k \in Jobs : k \in 1..njobs' <=> k \in 1..njobs \/ k = njobs + 1
        /\ stage'[njobs + 1] = st /\ source'[njobs + 1] = src
        /\ status'[njobs + 1] = "queued" /\ \A k \in Jobs : k # njobs + 1 => status'[k] = status[k]
    BY <2>1, <1>a, ConstantsAssumption DEF CreateJob, JobRows, Jobs
  <2>3. \A k \in Jobs : status'[k] = "absent" <=> k \notin 1..njobs'
    BY <2>2 DEF Rows, RowsThere
  <2>4. \A r \in 1..njobs' : stage'[r] = RecoveryStage => source'[r] < r
    <3>1. \A r \in 1..njobs : stage'[r] = RecoveryStage => source'[r] < r
      BY <1>c DEF Rows, RecoveryKinds
    <3>2. st = RecoveryStage => src < njobs + 1
      BY <1>a, <2>1
    <3>3. \A r \in 1..njobs' : r \in 1..njobs \/ r = njobs + 1
      BY <1>a, <2>2
    <3> QED BY <2>2, <3>1, <3>2, <3>3
  <2> QED BY <2>3, <2>4
<1> USE DEF jobVars, sessVars, queueVars, workVars, bootVars, restartVars, worldVars, boundVars, Rows, RowsThere, RecoveryKinds
<1>1. CASE Dequeue
  BY <1>1, <1>b, <1>d, <1>e, <1>f, <1>g, <1>h, <1>i, <1>j, <1>k DEF Dequeue
<1>2. CASE Launch
  BY <1>2, <1>b, <1>d, <1>e, <1>f, <1>g, <1>h, <1>i, <1>j, <1>k DEF Launch, WorkerFrame, Goto
<1>3. CASE CreateSession
  <2>1. cur \in 1..njobs /\ nsess + 1 \in Sessions /\ sessJob \in [Sessions -> 0..MaxJobs]
    BY <1>3, <1>a, <1>b, ConstantsAssumption DEF CreateSession, SessionRows, Sessions
  <2>2. /\ nsess' = nsess + 1 /\ sessJob'[nsess + 1] = cur
        /\ \A s \in 1..nsess : s # nsess + 1 /\ sessJob'[s] = sessJob[s]
        /\ \A s \in 1..nsess' : s \in 1..nsess \/ s = nsess + 1
    BY <1>3, <2>1, <1>a DEF CreateSession
  <2>3. \A s \in 1..nsess' : sessJob'[s] \in 1..njobs'
    BY <2>1, <2>2, <1>c
  <2> QED BY <1>3, <2>3, <1>b, <1>f, <1>g, <1>i, <1>j, <1>k DEF CreateSession, WorkerFrame, Goto
<1>4. CASE LinkSession
  BY <1>4, <1>b, <1>d, <1>e, <1>f, <1>g, <1>h, <1>i, <1>j, <1>k DEF LinkSession, WorkerFrame, Goto, SetStatus
<1>5. CASE WaitEnds
  BY <1>5, <1>b, <1>d, <1>e, <1>f, <1>g, <1>h, <1>i, <1>j, <1>k DEF WaitEnds, WorkerFrame, Goto
<1>6. CASE VerifySideEffect
  BY <1>6, <1>b, <1>d, <1>e, <1>f, <1>g, <1>h, <1>i, <1>j, <1>k DEF VerifySideEffect, WorkerFrame, Goto
<1>7. CASE FinalizeSession
  BY <1>7, <1>b, <1>d, <1>e, <1>f, <1>g, <1>h, <1>i, <1>j, <1>k DEF FinalizeSession, WorkerFrame, Goto, AfterSession
<1>8. CASE RecheckRecovery
  BY <1>8, <1>b, <1>d, <1>e, <1>f, <1>g, <1>h, <1>i, <1>j, <1>k DEF RecheckRecovery, WorkerFrame, Goto
<1>9. CASE RelinkSession
  BY <1>9, <1>b, <1>d, <1>e, <1>f, <1>g, <1>h, <1>i, <1>j, <1>k DEF RelinkSession, WorkerFrame, Goto, SetStatus
<1>10. CASE CompleteSource
  <2>1. source[cur] \in 1..njobs /\ cur' = cur /\ stage'[cur'] = RecoveryStage /\ pc' = "complete"
    BY <1>10, <1>b, <1>c, <1>d DEF CompleteSource, WorkerFrame, Goto
  <2> QED BY <1>10, <2>1, <1>e, <1>g, <1>h, <1>j, <1>k DEF CompleteSource, WorkerFrame
<1>11. CASE CompleteJob
  BY <1>11, <1>b, <1>d, <1>e, <1>f, <1>g, <1>h, <1>i, <1>j, <1>k DEF CompleteJob, WorkerReturns, Done, SetStatus
<1>12. CASE CapacityButPosted
  BY <1>12, <1>b, <1>d, <1>e, <1>f, <1>g, <1>h, <1>i, <1>j, <1>k DEF CapacityButPosted, WorkerFrame, Goto
<1>13. CASE CapacityRetry
  BY <1>13, <1>b, <1>d, <1>e, <1>f, <1>g, <1>h, <1>i, <1>j, <1>k DEF CapacityRetry, WorkerFrame, Goto, SetStatus
<1>14. CASE CapacityExhausted
  BY <1>14, <1>b, <1>d, <1>e, <1>f, <1>g, <1>h, <1>i, <1>j, <1>k DEF CapacityExhausted, Done, Goto, SetStatus
<1>15. CASE FailJob
  BY <1>15, <1>b, <1>d, <1>e, <1>f, <1>g, <1>h, <1>i, <1>j, <1>k DEF FailJob, WorkerReturns, Done, SetStatus
<1>16. CASE JoinRecovery
  BY <1>16, <1>b, <1>d, <1>e, <1>f, <1>g, <1>h, <1>i, <1>j, <1>k DEF JoinRecovery, WorkerReturns, Done, SetStatus
<1>17. CASE EnqueueRecovery
  <2>1. cur \in 1..njobs /\ stage[cur] \in IssueCommentStages /\ CreateJob(RecoveryStage, cur)
    BY <1>17, <1>b DEF EnqueueRecovery, CanRecover
  <2>2. cur' = cur /\ stage'[cur'] \in IssueCommentStages /\ pc' = "markRecovering"
    BY <1>17, <2>1, <1>c DEF EnqueueRecovery, Goto
  <2> QED BY <1>17, <2>1, <2>2, <1>g, <1>h, <1>k, <1>l DEF EnqueueRecovery
<1>18. CASE MarkRecovering
  BY <1>18, <1>b, <1>d, <1>e, <1>f, <1>g, <1>h, <1>i, <1>j, <1>k DEF MarkRecovering, WorkerReturns, Done, SetStatus
<1>19. CASE FailRecovery
  <2>1. cur' = cur /\ stage'[cur'] = RecoveryStage /\ pc' = "failSource"
    BY <1>19, <1>b, <1>c DEF FailRecovery, WorkerFrame, Goto
  <2> QED BY <1>19, <2>1, <1>b, <1>e, <1>g, <1>h, <1>j, <1>k DEF FailRecovery, WorkerFrame, SetStatus
<1>20. CASE FailSource
  <2>1. source[cur] \in 1..njobs
    BY <1>20, <1>d DEF FailSource
  <2> QED BY <1>20, <2>1, <1>e, <1>g, <1>h, <1>i, <1>j, <1>k DEF FailSource, WorkerReturns, Done
<1>21. CASE BootStart
  BY <1>21, <1>b, <1>d, <1>e, <1>f, <1>g, <1>h, <1>i, <1>j, <1>k DEF BootStart, BootFrame
<1>22. CASE BootSubmit
  BY <1>22, <1>b, <1>d, <1>e, <1>f, <1>g, <1>h, <1>i, <1>j, <1>k DEF BootSubmit, BootFrame, BootNext
<1>23. CASE BootVerifySeen
  <2>1. PICK j \in bootVerify : IF stage[j] = RecoveryStage
                                THEN status' = [status EXCEPT ![source[j]] = "completed"]
                                ELSE status' = status
    BY <1>23 DEF BootVerifySeen
  <2>2. j \in 1..njobs /\ njobs' = njobs
    BY <1>23, <1>a DEF BootType, BootVerifySeen
  <2>3. \A k \in Jobs : status'[k] = "absent" <=> k \notin 1..njobs'
    BY <2>1, <2>2, <1>d, <1>e, <1>f
  <2> QED BY <1>23, <2>3, <1>g, <1>h, <1>i, <1>j, <1>k DEF BootVerifySeen, BootFrame
<1>24. CASE BootComplete
  BY <1>24, <1>b, <1>d, <1>e, <1>f, <1>g, <1>h, <1>i, <1>j, <1>k DEF BootComplete, BootFrame, SetStatus
<1>25. CASE BootRequeue
  <2>1. PICK j \in bootVerify : status' = [status EXCEPT ![j] = "queued"]
    BY <1>25 DEF BootRequeue, SetStatus
  <2>2. j \in 1..njobs
    BY <1>a DEF BootType
  <2> QED BY <1>25, <2>1, <2>2, <1>e, <1>g, <1>h, <1>i, <1>j, <1>k DEF BootRequeue, BootFrame
<1>26. CASE BootCloseSession
  BY <1>26, <1>b, <1>d, <1>e, <1>f, <1>g, <1>h, <1>i, <1>j, <1>k DEF BootCloseSession, BootFrame, ReconcileSession
<1>27. CASE SweepReadSessions
  BY <1>27, <1>b, <1>d, <1>e, <1>f, <1>g, <1>h, <1>i, <1>j, <1>k DEF SweepReadSessions, BootFrame
<1>28. CASE SweepReadJobs
  BY <1>28, <1>b, <1>d, <1>e, <1>f, <1>g, <1>h, <1>i, <1>j, <1>k DEF SweepReadJobs, BootFrame, SessionStatusFor
<1>29. CASE SweepSession
  BY <1>29, <1>b, <1>d, <1>e, <1>f, <1>g, <1>h, <1>i, <1>j, <1>k DEF SweepSession, BootFrame, ReconcileSession
<1>30. CASE BootDone
  BY <1>30, <1>b, <1>d, <1>e, <1>f, <1>g, <1>h, <1>i, <1>j, <1>k DEF BootDone, BootFrame
<1>31. CASE RestartBegin
  <2>1. restarts' # 0 /\ \A e \in restartTodo' : e[1] \in 1..njobs'
    BY <1>31, <1>a DEF RestartBegin
  <2> QED BY <1>31, <2>1, <1>f, <1>h, <1>i, <1>j DEF RestartBegin, RestartFrame, NoRestart
<1>32. CASE RestartSupersede
  <2>1. PICK e \in restartTodo : status' = [status EXCEPT ![e[1]] = "superseded"]
    BY <1>32 DEF RestartSupersede, SetStatus
  <2>2. e[1] \in 1..njobs /\ restarts # 0
    BY <1>32 DEF RestartSupersede, NoRestart
  <2> QED BY <1>32, <2>1, <2>2, <1>e, <1>g, <1>h, <1>i, <1>j DEF RestartSupersede, RestartFrame, NoRestart
<1>33. CASE RestartCloseSession
  <2>1. restarts # 0 /\ restarts' = restarts /\ restartTodo' \subseteq restartTodo
    BY <1>33 DEF RestartCloseSession, RestartFrame, NoRestart
  <2> QED BY <1>33, <2>1, <1>f, <1>g, <1>h, <1>i, <1>j DEF RestartCloseSession, RestartFrame, NoRestart
<1>34. CASE RestartEnqueue
  <2>1. restarts # 0 /\ restarts' = restarts
    BY <1>34 DEF RestartEnqueue, RestartFrame, NoRestart
  <2>2. "issue_request" # RecoveryStage
    BY DEF RecoveryStage
  <2> QED BY <1>34, <2>1, <2>2, <1>g, <1>h, <1>i, <1>l DEF RestartEnqueue, RestartFrame, NoRestart
<1>35. CASE AgentPost
  BY <1>35, <1>b, <1>d, <1>e, <1>f, <1>g, <1>h, <1>i, <1>j, <1>k DEF AgentPost
<1>36. CASE Crash
  <2>1. restartTodo' = {} /\ restart' = "idle" /\ pc' = "idle"
    BY <1>36 DEF Crash, Done
  <2> QED BY <1>36, <2>1, <1>f, <1>h, <1>i, <1>j DEF Crash, NoRestart
<1>37. CASE \E st \in Arrivals : Arrive(st)
  <2>1. PICK st \in Arrivals : Arrive(st)
    BY <1>37
  <2>2. st # RecoveryStage
    BY ConstantsAssumption
  <2> QED BY <2>1, <2>2, <1>g, <1>h, <1>i, <1>k, <1>l DEF Arrive, HandlerFrame
<1>38. CASE \E j \in Jobs : PullRequestOpened(j)
  <2>1. PICK j \in prEvents : PullRequestOpened(j)
    BY <1>38 DEF PullRequestOpened
  <2> QED BY <2>1, <1>d, <1>e, <1>g, <1>h, <1>i, <1>j, <1>k DEF PullRequestOpened, HandlerFrame, SetStatus
<1>39. CASE EnqueueReview
  <2>1. "review_round" # RecoveryStage
    BY DEF RecoveryStage
  <2> QED BY <1>39, <2>1, <1>g, <1>h, <1>i, <1>k, <1>l DEF EnqueueReview, HandlerFrame
<1>40. CASE \E j \in Jobs : LoseEvent(j)
  BY <1>40, <1>b, <1>d, <1>e, <1>f, <1>g, <1>h, <1>i, <1>j, <1>k DEF LoseEvent, WorldFrame
<1>41. CASE \E e \in orphans : OrphanPosts(e)
  BY <1>41, <1>b, <1>d, <1>e, <1>f, <1>g, <1>h, <1>i, <1>j, <1>k DEF OrphanPosts, WorldFrame
<1>42. CASE \E e \in orphans : OrphanExits(e)
  BY <1>42, <1>b, <1>d, <1>e, <1>f, <1>g, <1>h, <1>i, <1>j, <1>k DEF OrphanExits, WorldFrame
<1>43. CASE UNCHANGED vars
  BY <1>43, <1>b, <1>d, <1>e, <1>f, <1>g, <1>h, <1>i, <1>j, <1>k DEF vars
<1> QED
  BY <1>1, <1>2, <1>3, <1>4, <1>5, <1>6, <1>7, <1>8, <1>9, <1>10, <1>11, <1>12, <1>13, <1>14,
     <1>15, <1>16, <1>17, <1>18, <1>19, <1>20, <1>21, <1>22, <1>23, <1>24, <1>25, <1>26, <1>27,
     <1>28, <1>29, <1>30, <1>31, <1>32, <1>33, <1>34, <1>35, <1>36, <1>37, <1>38, <1>39, <1>40,
     <1>41, <1>42, <1>43 DEF Next, WorkerStep, BootStep, RestartStep

---------------------------------------------------------------------------
(***************************************************************************)
(* Superseded jobs.                                                        *)
(***************************************************************************)

\* Who may still write the row of job j: the run that holds it, a recovery of it, its
\* pull request's event, or the boot loop.
MayWrite(j) ==
  \/ Up /\ cur # 0 /\ (j = cur \/ j = source[cur])
  \/ j \in prEvents
  \/ bootJob' # 0 /\ (j = bootJob' \/ j = source[bootJob'])

LetGo == \A j \in Jobs : status[j] = "superseded" =>
  /\ cur' = j => cur = j
  /\ status'[j] # "superseded" => MayWrite(j)

\* No action takes up a superseded row.
LEMMA SupersededStep == TypeInv /\ Rows /\ [Next]_vars => LetGo
<1> SUFFICES ASSUME TypeInv, Rows, [Next]_vars PROVE LetGo
  OBVIOUS
<1>a. JobRows /\ WorkerType /\ BootType /\ 0 \notin Jobs /\ njobs \in Nat
  BY ConstantsAssumption DEF TypeInv, TypeOK, JobRows, Jobs
<1>b. /\ pc # "idle" => cur # 0
      /\ boot \in {"complete", "closeCompleted", "closeRequeued"} => bootJob # 0
  BY HeldRows
<1>c. (cur' = cur \/ cur' = 0) /\ status' = status => LetGo
  BY <1>a DEF LetGo
<1>d. (cur' = cur \/ cur' = 0) /\ Up /\ pc # "idle" =>
        \A s : \/ status' = [status EXCEPT ![cur] = s]
               \/ status' = [status EXCEPT ![source[cur]] = s]
               => LetGo
  BY <1>a, <1>b DEF LetGo, MayWrite, JobRows
<1>e. cur' = cur => \A st, src : CreateJob(st, src) => LetGo
  <2>1. njobs + 1 \notin 1..njobs
    BY <1>a
  <2>2. njobs + 1 \in Jobs => status[njobs + 1] = "absent"
    BY <2>1 DEF Rows, RowsThere
  <2> QED BY <1>a, <2>2 DEF LetGo, CreateJob, JobRows
<1> USE DEF jobVars, sessVars, queueVars, workVars, bootVars, restartVars, worldVars, boundVars
<1>1. CASE Dequeue
  <2>1. status' = status /\ (cur' = cur \/ status[cur'] # "superseded")
    BY <1>1 DEF Dequeue
  <2> QED BY <2>1 DEF LetGo
<1>2. CASE Launch
  BY <1>2, <1>b, <1>c DEF Launch, WorkerFrame, Goto
<1>3. CASE CreateSession
  BY <1>3, <1>b, <1>c DEF CreateSession, WorkerFrame, Goto
<1>4. CASE LinkSession
  BY <1>4, <1>d DEF LinkSession, WorkerFrame, SetStatus
<1>5. CASE WaitEnds
  BY <1>5, <1>b, <1>c DEF WaitEnds, WorkerFrame, Goto
<1>6. CASE VerifySideEffect
  BY <1>6, <1>b, <1>c DEF VerifySideEffect, WorkerFrame, Goto
<1>7. CASE FinalizeSession
  BY <1>7, <1>b, <1>c DEF FinalizeSession, WorkerFrame, Goto, AfterSession
<1>8. CASE RecheckRecovery
  BY <1>8, <1>b, <1>c DEF RecheckRecovery, WorkerFrame, Goto
<1>9. CASE RelinkSession
  BY <1>9, <1>d DEF RelinkSession, WorkerFrame, SetStatus
<1>10. CASE CompleteSource
  BY <1>10, <1>d DEF CompleteSource, WorkerFrame
<1>11. CASE CompleteJob
  BY <1>11, <1>d DEF CompleteJob, WorkerReturns, Done, SetStatus
<1>12. CASE CapacityButPosted
  BY <1>12, <1>b, <1>c DEF CapacityButPosted, WorkerFrame, Goto
<1>13. CASE CapacityRetry
  BY <1>13, <1>d DEF CapacityRetry, WorkerFrame, SetStatus
<1>14. CASE CapacityExhausted
  BY <1>14, <1>d DEF CapacityExhausted, Done, SetStatus
<1>15. CASE FailJob
  BY <1>15, <1>d DEF FailJob, WorkerReturns, Done, SetStatus
<1>16. CASE JoinRecovery
  BY <1>16, <1>d DEF JoinRecovery, WorkerReturns, Done, SetStatus
<1>17. CASE EnqueueRecovery
  BY <1>17, <1>e DEF EnqueueRecovery
<1>18. CASE MarkRecovering
  BY <1>18, <1>d DEF MarkRecovering, WorkerReturns, Done, SetStatus
<1>19. CASE FailRecovery
  BY <1>19, <1>d DEF FailRecovery, WorkerFrame, SetStatus
<1>20. CASE FailSource
  BY <1>20, <1>d DEF FailSource, WorkerReturns, Done
<1>21. CASE BootStart
  BY <1>21, <1>b, <1>c DEF BootStart, BootFrame
<1>22. CASE BootSubmit
  BY <1>22, <1>b, <1>c DEF BootSubmit, BootFrame, BootNext
<1>23. CASE BootVerifySeen
  <2>1. PICK j \in bootVerify :
          /\ bootJob' = j
          /\ status' = status \/ status' = [status EXCEPT ![source[j]] = "completed"]
    BY <1>23 DEF BootVerifySeen
  <2>2. j # 0 /\ cur' = cur
    BY <1>23, <1>a DEF BootType, BootVerifySeen, BootFrame
  <2> QED BY <2>1, <2>2, <1>a DEF LetGo, MayWrite, JobRows
<1>24. CASE BootComplete
  BY <1>24, <1>a, <1>b DEF BootComplete, BootFrame, SetStatus, LetGo, MayWrite, JobRows
<1>25. CASE BootRequeue
  <2>1. PICK j \in bootVerify : bootJob' = j /\ status' = [status EXCEPT ![j] = "queued"]
    BY <1>25 DEF BootRequeue, SetStatus
  <2>2. j # 0 /\ cur' = cur
    BY <1>25, <1>a DEF BootType, BootRequeue, BootFrame
  <2> QED BY <2>1, <2>2, <1>a DEF LetGo, MayWrite, JobRows
<1>26. CASE BootCloseSession
  BY <1>26, <1>b, <1>c DEF BootCloseSession, BootFrame, ReconcileSession
<1>27. CASE SweepReadSessions
  BY <1>27, <1>b, <1>c DEF SweepReadSessions, BootFrame
<1>28. CASE SweepReadJobs
  BY <1>28, <1>b, <1>c DEF SweepReadJobs, BootFrame, SessionStatusFor
<1>29. CASE SweepSession
  BY <1>29, <1>b, <1>c DEF SweepSession, BootFrame, ReconcileSession
<1>30. CASE BootDone
  BY <1>30, <1>b, <1>c DEF BootDone, BootFrame
<1>31. CASE RestartBegin
  BY <1>31, <1>b, <1>c DEF RestartBegin, RestartFrame
<1>32. CASE RestartSupersede
  <2>1. PICK e \in restartTodo : status' = [status EXCEPT ![e[1]] = "superseded"]
    BY <1>32 DEF RestartSupersede, SetStatus
  <2> QED BY <1>32, <2>1, <1>a DEF RestartSupersede, RestartFrame, LetGo, JobRows
<1>33. CASE RestartCloseSession
  BY <1>33, <1>b, <1>c DEF RestartCloseSession, RestartFrame, ReconcileSession
<1>34. CASE RestartEnqueue
  BY <1>34, <1>c, <1>e DEF RestartEnqueue, RestartFrame
<1>35. CASE AgentPost
  BY <1>35, <1>b, <1>c DEF AgentPost
<1>36. CASE Crash
  BY <1>36, <1>b, <1>c DEF Crash, Done
<1>37. CASE \E st \in Arrivals : Arrive(st)
  BY <1>37, <1>c, <1>e DEF Arrive, HandlerFrame
<1>38. CASE \E j \in Jobs : PullRequestOpened(j)
  <2>1. PICK j \in prEvents : status' = [status EXCEPT ![j] = "completed"] /\ cur' = cur
    BY <1>38 DEF PullRequestOpened, HandlerFrame, SetStatus
  <2> QED BY <2>1, <1>a DEF LetGo, MayWrite, JobRows
<1>39. CASE EnqueueReview
  BY <1>39, <1>c, <1>e DEF EnqueueReview, HandlerFrame
<1>40. CASE \E j \in Jobs : LoseEvent(j)
  BY <1>40, <1>b, <1>c DEF LoseEvent, WorldFrame
<1>41. CASE \E e \in orphans : OrphanPosts(e)
  BY <1>41, <1>b, <1>c DEF OrphanPosts, WorldFrame
<1>42. CASE \E e \in orphans : OrphanExits(e)
  BY <1>42, <1>b, <1>c DEF OrphanExits, WorldFrame
<1>43. CASE UNCHANGED vars
  BY <1>43, <1>b, <1>c DEF vars
<1> QED
  BY <1>1, <1>2, <1>3, <1>4, <1>5, <1>6, <1>7, <1>8, <1>9, <1>10, <1>11, <1>12, <1>13, <1>14,
     <1>15, <1>16, <1>17, <1>18, <1>19, <1>20, <1>21, <1>22, <1>23, <1>24, <1>25, <1>26, <1>27,
     <1>28, <1>29, <1>30, <1>31, <1>32, <1>33, <1>34, <1>35, <1>36, <1>37, <1>38, <1>39, <1>40,
     <1>41, <1>42, <1>43 DEF Next, WorkerStep, BootStep, RestartStep

---------------------------------------------------------------------------
(***************************************************************************)
(* Without crashes and restarts, a source waits only for a recovery job    *)
(* that is still to end.                                                   *)
(***************************************************************************)

\* The first process has no row to rehydrate.
FirstBoot ==
  crashes = 0 => (boot = "down" => njobs = 0) /\ bootSubmit = {} /\ bootVerify = {}

\* A recovery job of j is pending, or its worker is about to write j's row.
Served(j) ==
  \E r \in RecoveriesOf(j) : status[r] \in Active \/ (r = cur /\ pc \in {"failed", "failSource"})

Waiting == crashes = 0 /\ restarts = 0 =>
  /\ \A j \in Jobs : status[j] = "recovering" => Served(j)
  /\ pc = "markRecovering" => \E r \in RecoveriesOf(cur) : status[r] \in Active
  /\ pc = "complete" => status[source[cur]] # "recovering"

\* No action leaves a source waiting for a recovery job that has ended.
LEMMA WaitingStep ==
  TypeInv /\ Posted /\ Rows /\ FirstBoot /\ Waiting /\ [Next]_vars => FirstBoot' /\ Waiting'
<1> SUFFICES ASSUME TypeInv, Posted, Rows, FirstBoot, Waiting, [Next]_vars, crashes' = 0
             PROVE  FirstBoot' /\ Waiting'
  BY DEF FirstBoot, Waiting
<1> USE DEF jobVars, sessVars, queueVars, workVars, bootVars, restartVars, worldVars, boundVars
<1>a. /\ JobRows /\ WorkerType /\ BootType /\ njobs \in Nat /\ 1..njobs \subseteq Jobs
      /\ crashes \in Nat /\ restarts \in Nat
  BY ConstantsAssumption DEF TypeInv, TypeOK, JobRows, BoundType, Jobs
<1>b. /\ pc # "idle" => cur \in 1..njobs
      /\ boot \in {"complete", "closeCompleted", "closeRequeued"} => bootJob \in bootVerify
  BY HeldRows DEF TypeInv, Held
<1>c. /\ 1..njobs \subseteq (1..njobs)'
      /\ \A j \in 1..njobs : stage'[j] = stage[j] /\ source'[j] = source[j]
  BY RowsStep DEF RowsStay
<1>d. crashes = 0 /\ (boot = "down" => njobs = 0) /\ bootSubmit = {} /\ bootVerify = {}
  <2>1. crashes = 0
    <3>1. ~Crash
      BY <1>a DEF Crash
    <3> QED BY <3>1 DEF Next, vars, WorkerStep, BootStep, RestartStep, Dequeue, Launch, WorkerFrame,
           CreateSession, LinkSession, WaitEnds, VerifySideEffect, FinalizeSession, RecheckRecovery,
           RelinkSession, CompleteSource, CompleteJob, WorkerReturns, CapacityButPosted,
           CapacityRetry, CapacityExhausted, FailJob, JoinRecovery, EnqueueRecovery, MarkRecovering,
           FailRecovery, FailSource, BootFrame, BootStart, BootSubmit, BootVerifySeen, BootComplete,
           BootRequeue, BootCloseSession, SweepReadSessions, SweepReadJobs, SweepSession, BootDone,
           RestartBegin, RestartSupersede, RestartCloseSession, RestartEnqueue, AgentPost, Arrive,
           HandlerFrame, PullRequestOpened, EnqueueReview, LoseEvent, WorldFrame, OrphanPosts,
           OrphanExits
  <2> QED BY <2>1 DEF FirstBoot
<1>e. ASSUME restarts = 0
      PROVE  /\ \A j \in Jobs : status[j] = "recovering" => Served(j)
             /\ pc = "markRecovering" => \E r \in RecoveriesOf(cur) : status[r] \in Active
             /\ pc = "complete" => status[source[cur]] # "recovering"
             /\ restart = "idle"
  BY <1>d, <1>e DEF Waiting, Rows, NoRestart
\* A recovery job stays one, of the same source; its source is none.
<1>f. /\ \A j : RecoveriesOf(j) \subseteq RecoveriesOf(j)'
      /\ \A j : \A r \in RecoveriesOf(j) : /\ r \in 1..njobs /\ r \in Jobs /\ source[r] = j
                                           /\ stage[r] = RecoveryStage
      /\ \A r \in 1..njobs : stage[r] = RecoveryStage =>
            source[r] \in 1..njobs /\ stage[source[r]] # RecoveryStage
  BY <1>a, <1>c DEF RecoveriesOf, Posted, RecoveryRows, IssueCommentStages, RecoveryStage
<1>g. UNCHANGED <<njobs, boot, bootSubmit, bootVerify>> => FirstBoot'
  BY <1>d DEF FirstBoot
<1>h. boot # "down" /\ UNCHANGED <<boot, bootSubmit, bootVerify>> => FirstBoot'
  BY <1>d DEF FirstBoot
<1>i. ASSUME status' = status, restarts' = restarts, pc' \notin {"markRecovering", "complete"} \/ (pc' = pc /\ cur' = cur),
             pc \notin {"failed", "failSource"} \/ (pc' = pc /\ cur' = cur)
      PROVE  Waiting'
  <2>1. restarts = 0 => \A j \in Jobs : status[j] = "recovering" => Served(j)'
    BY <1>e, <1>f, <1>i DEF Served
  <2>2. restarts = 0 /\ pc' = "markRecovering" => \E r \in RecoveriesOf(cur)' : status'[r] \in Active
    BY <1>e, <1>f, <1>i
  <2>3. restarts = 0 /\ pc' = "complete" => status'[source'[cur']] # "recovering"
    BY <1>b, <1>c, <1>e, <1>i
  <2> QED BY <1>i, <2>1, <2>2, <2>3 DEF Waiting
\* A row that is no recovery job's is written.
<1>j. ASSUME NEW j \in 1..njobs, stage[j] # RecoveryStage, NEW s, s # "recovering",
             status' = [status EXCEPT ![j] = s], restarts' = restarts,
             pc' \notin {"markRecovering", "complete"} \/ (pc' = pc /\ cur' = cur),
             pc \notin {"failed", "failSource"} \/ (pc' = pc /\ cur' = cur) \/ stage[cur] # RecoveryStage
      PROVE  Waiting'
  <2>1. restarts = 0 => \A k \in Jobs : status'[k] = "recovering" => Served(k)'
    BY <1>a, <1>e, <1>f, <1>j DEF Served, JobRows
  <2>2. restarts = 0 /\ pc' = "markRecovering" => \E r \in RecoveriesOf(cur)' : status'[r] \in Active
    BY <1>a, <1>e, <1>f, <1>j DEF JobRows
  <2>3. restarts = 0 /\ pc' = "complete" => status'[source'[cur']] # "recovering"
    BY <1>a, <1>b, <1>c, <1>e, <1>j DEF JobRows
  <2> QED BY <1>j, <2>1, <2>2, <2>3 DEF Waiting
\* The worker's row is written as pending.
<1>k. ASSUME NEW s \in {"launched", "retrying"}, status' = [status EXCEPT ![cur] = s], cur \in 1..njobs,
             restarts' = restarts, pc \notin {"failed", "failSource"},
             pc' \notin {"markRecovering", "complete"}
      PROVE  Waiting'
  <2>1. restarts = 0 => \A k \in Jobs : status'[k] = "recovering" => Served(k)'
    BY <1>a, <1>e, <1>f, <1>k, ActiveValues DEF Served, JobRows
  <2> QED BY <1>k, <2>1 DEF Waiting
\* A new row is written.
<1>l. ASSUME NEW st, NEW src, CreateJob(st, src), UNCHANGED <<pc, cur, restarts>>
      PROVE  Waiting'
  <2>1. /\ status' = [status EXCEPT ![njobs + 1] = "queued"] /\ njobs + 1 \notin 1..njobs
        /\ \A j \in Jobs : status'[j] # status[j] => status'[j] = "queued"
        /\ \A j \in 1..njobs : status'[j] = status[j]
    BY <1>a, <1>l DEF CreateJob, JobRows
  <2>2. restarts = 0 => \A k \in Jobs : status'[k] = "recovering" => Served(k)'
    BY <1>e, <1>f, <1>l, <2>1 DEF Served
  <2>3. restarts = 0 /\ pc' = "markRecovering" => \E r \in RecoveriesOf(cur)' : status'[r] \in Active
    BY <1>e, <1>f, <1>l, <2>1
  <2>4. restarts = 0 /\ pc' = "complete" => status'[source'[cur']] # "recovering"
    <3>1. pc = "complete" => cur \in 1..njobs /\ source[cur] \in 1..njobs
      BY <1>b, <1>f DEF Rows, RecoveryKinds
    <3> QED BY <1>c, <1>e, <1>l, <2>1, <3>1
  <2> QED BY <1>l, <2>2, <2>3, <2>4 DEF Waiting
<1>1. CASE Dequeue
  BY <1>1, <1>g, <1>i DEF Dequeue
<1>2. CASE Launch
  BY <1>2, <1>g, <1>i DEF Launch, WorkerFrame, Goto
<1>3. CASE CreateSession
  BY <1>3, <1>g, <1>i DEF CreateSession, WorkerFrame, Goto
<1>4. CASE LinkSession
  BY <1>4, <1>b, <1>g, <1>k DEF LinkSession, WorkerFrame, Goto, SetStatus
<1>5. CASE WaitEnds
  BY <1>5, <1>g, <1>i DEF WaitEnds, WorkerFrame, Goto
<1>6. CASE VerifySideEffect
  BY <1>6, <1>g, <1>i DEF VerifySideEffect, WorkerFrame, Goto
<1>7. CASE FinalizeSession
  BY <1>7, <1>g, <1>i DEF FinalizeSession, WorkerFrame, Goto, AfterSession
<1>8. CASE RecheckRecovery
  BY <1>8, <1>g, <1>i DEF RecheckRecovery, WorkerFrame, Goto
<1>9. CASE RelinkSession
  BY <1>9, <1>b, <1>g, <1>k DEF RelinkSession, WorkerFrame, Goto, SetStatus
<1>10. CASE CompleteSource
  <2>1. /\ source[cur] \in 1..njobs /\ stage[source[cur]] # RecoveryStage /\ cur' = cur
        /\ status' = [status EXCEPT ![source[cur]] = "completed"] /\ restarts' = restarts
        /\ pc = "succeed" /\ pc' = "complete"
    BY <1>10, <1>b, <1>f DEF CompleteSource, WorkerFrame, Goto
  <2>2. restarts = 0 => \A k \in Jobs : status'[k] = "recovering" => Served(k)'
    BY <1>a, <1>e, <1>f, <2>1 DEF Served, JobRows
  <2>3. status'[source'[cur']] # "recovering"
    BY <1>a, <1>b, <1>c, <2>1 DEF JobRows
  <2>4. Waiting'
    BY <2>1, <2>2, <2>3 DEF Waiting
  <2> QED BY <1>10, <1>g, <2>4 DEF CompleteSource, WorkerFrame
<1>11. CASE CompleteJob
  <2>1. /\ cur \in 1..njobs /\ status' = [status EXCEPT ![cur] = "completed"] /\ restarts' = restarts
        /\ pc' = "idle" /\ pc \in {"complete", "succeed"}
        /\ stage[cur] = RecoveryStage => pc = "complete"
    BY <1>11, <1>b DEF CompleteJob, WorkerReturns, Done, SetStatus
  <2>2. restarts = 0 => \A k \in Jobs : status'[k] = "recovering" => Served(k)'
    <3>1. SUFFICES ASSUME restarts = 0, NEW k \in Jobs, status'[k] = "recovering" PROVE Served(k)'
      OBVIOUS
    <3>2. status[k] = "recovering"
      BY <2>1, <3>1, <1>a DEF JobRows
    <3>3. PICK r \in RecoveriesOf(k) : status[r] \in Active
      BY <1>e, <2>1, <3>1, <3>2 DEF Served
    <3>4. r # cur
      BY <1>e, <1>f, <2>1, <3>1, <3>2, <3>3
    <3> QED BY <1>a, <1>f, <2>1, <3>3, <3>4 DEF Served, JobRows
  <2>3. Waiting'
    BY <2>1, <2>2 DEF Waiting
  <2> QED BY <1>11, <1>g, <2>3 DEF CompleteJob, WorkerReturns
<1>12. CASE CapacityButPosted
  BY <1>12, <1>g, <1>i DEF CapacityButPosted, WorkerFrame, Goto
<1>13. CASE CapacityRetry
  BY <1>13, <1>b, <1>g, <1>k DEF CapacityRetry, WorkerFrame, Goto, SetStatus
<1>14. CASE CapacityExhausted
  <2>1. /\ cur \in 1..njobs /\ status' = [status EXCEPT ![cur] = "failed"] /\ restarts' = restarts
        /\ pc = "capacity"
    BY <1>14, <1>b DEF CapacityExhausted, SetStatus
  <2>2. CASE stage[cur] # RecoveryStage
    <3>1. pc' = "idle"
      BY <1>14, <2>2 DEF CapacityExhausted, Done
    <3> QED BY <1>14, <1>g, <1>j, <2>1, <2>2, <3>1 DEF CapacityExhausted
  <2>3. CASE stage[cur] = RecoveryStage
    <3>1. pc' = "failed" /\ cur' = cur
      BY <1>14, <2>3 DEF CapacityExhausted, Goto
    <3>2. restarts = 0 => \A k \in Jobs : status'[k] = "recovering" => Served(k)'
      BY <1>a, <1>e, <1>f, <2>1, <3>1 DEF Served, JobRows
    <3>3. Waiting'
      BY <2>1, <3>1, <3>2 DEF Waiting
    <3> QED BY <1>14, <1>g, <3>3 DEF CapacityExhausted
  <2> QED BY <2>2, <2>3
<1>15. CASE FailJob
  BY <1>15, <1>b, <1>g, <1>j DEF FailJob, WorkerReturns, Done, SetStatus
<1>16. CASE JoinRecovery
  <2>1. /\ cur \in 1..njobs /\ status' = [status EXCEPT ![cur] = "recovering"]
        /\ restarts' = restarts /\ pc' = "idle" /\ stage[cur] # RecoveryStage
    BY <1>16, <1>b DEF JoinRecovery, WorkerReturns, Done, SetStatus, CanRecover, Rows, RecoveryKinds,
                    IssueCommentStages, RecoveryStage
  <2>2. restarts = 0 => \E r \in RecoveriesOf(cur) : status[r] \in Active
    BY <1>16 DEF JoinRecovery, HasActiveRecovery
  <2>3. restarts = 0 => \A k \in Jobs : status'[k] = "recovering" => Served(k)'
    <3>1. ASSUME restarts = 0, NEW k \in Jobs, status'[k] = "recovering"
          PROVE  \E r \in RecoveriesOf(k) : status[r] \in Active
      BY <1>a, <1>e, <1>f, <2>1, <2>2, <3>1 DEF Served, JobRows
    <3> QED BY <1>a, <1>f, <2>1, <3>1 DEF Served, JobRows
  <2>4. Waiting'
    BY <2>1, <2>3 DEF Waiting
  <2> QED BY <1>16, <1>g, <2>4 DEF JoinRecovery, WorkerReturns
<1>17. CASE EnqueueRecovery
  <2>1. /\ cur \in 1..njobs /\ stage[cur] # RecoveryStage /\ restarts' = restarts
        /\ pc' = "markRecovering" /\ cur' = cur
        /\ njobs' = njobs + 1 /\ njobs + 1 \in 1..njobs' /\ njobs + 1 \in Jobs /\ njobs + 1 \notin 1..njobs
        /\ stage'[njobs + 1] = RecoveryStage /\ source'[njobs + 1] = cur
        /\ status' = [status EXCEPT ![njobs + 1] = "queued"]
    <3>1. /\ CreateJob(RecoveryStage, cur) /\ pc' = "markRecovering" /\ cur' = cur /\ restarts' = restarts
          /\ cur \in 1..njobs /\ stage[cur] # RecoveryStage
      BY <1>17, <1>b DEF EnqueueRecovery, CanRecover, IssueCommentStages, RecoveryStage, Goto
    <3>2. /\ njobs' = njobs + 1 /\ njobs + 1 \in 1..njobs' /\ njobs + 1 \in Jobs
          /\ njobs + 1 \notin 1..njobs
      BY <1>a, <3>1, ConstantsAssumption DEF CreateJob, Jobs
    <3> QED BY <1>a, <3>1, <3>2 DEF CreateJob, JobRows
  <2>2. restarts = 0 => \A k \in Jobs : status'[k] = "recovering" => Served(k)'
    BY <1>a, <1>e, <1>f, <2>1 DEF Served, JobRows
  <2>3. \E r \in RecoveriesOf(cur)' : status'[r] \in Active
    BY <1>a, <2>1, ActiveValues DEF RecoveriesOf, JobRows
  <2>4. Waiting'
    BY <2>1, <2>2, <2>3 DEF Waiting
  <2> QED BY <1>17, <1>h, <2>4 DEF EnqueueRecovery, Up
<1>18. CASE MarkRecovering
  <2>1. /\ cur \in 1..njobs /\ status' = [status EXCEPT ![cur] = "recovering"]
        /\ restarts' = restarts /\ pc' = "idle" /\ stage[cur] # RecoveryStage
    BY <1>18, <1>b DEF MarkRecovering, WorkerReturns, Done, SetStatus, CanRecover, Rows, RecoveryKinds,
                    IssueCommentStages, RecoveryStage
  <2>2. restarts = 0 => \E r \in RecoveriesOf(cur) : status[r] \in Active
    BY <1>18, <1>e DEF MarkRecovering
  <2>3. restarts = 0 => \A k \in Jobs : status'[k] = "recovering" => Served(k)'
    <3>1. ASSUME restarts = 0, NEW k \in Jobs, status'[k] = "recovering"
          PROVE  \E r \in RecoveriesOf(k) : status[r] \in Active
      BY <1>a, <1>e, <1>f, <2>1, <2>2, <3>1 DEF Served, JobRows
    <3> QED BY <1>a, <1>f, <2>1, <3>1 DEF Served, JobRows
  <2>4. Waiting'
    BY <2>1, <2>3 DEF Waiting
  <2> QED BY <1>18, <1>g, <2>4 DEF MarkRecovering, WorkerReturns
<1>19. CASE FailRecovery
  <2>1. /\ cur \in 1..njobs /\ status' = [status EXCEPT ![cur] = "failed"] /\ restarts' = restarts
        /\ pc' = "failSource" /\ cur' = cur
    BY <1>19, <1>b DEF FailRecovery, WorkerFrame, SetStatus, Goto
  <2>2. restarts = 0 => \A k \in Jobs : status'[k] = "recovering" => Served(k)'
    BY <1>a, <1>e, <1>f, <2>1 DEF Served, JobRows
  <2>3. Waiting'
    BY <2>1, <2>2 DEF Waiting
  <2> QED BY <1>19, <1>g, <2>3 DEF FailRecovery, WorkerFrame
<1>20. CASE FailSource
  <2>1. /\ cur \in 1..njobs /\ stage[cur] = RecoveryStage
        /\ source[cur] \in 1..njobs /\ stage[source[cur]] # RecoveryStage
        /\ status' = [status EXCEPT ![source[cur]] = "failed"] /\ restarts' = restarts /\ pc' = "idle"
    BY <1>20, <1>b, <1>f DEF FailSource, WorkerReturns, Done, Rows, RecoveryKinds
  <2>2. restarts = 0 => \A k \in Jobs : status'[k] = "recovering" => Served(k)'
    <3>1. ASSUME restarts = 0, NEW k \in Jobs, status'[k] = "recovering"
          PROVE  \E r \in RecoveriesOf(k) : status[r] \in Active
      BY <1>a, <1>e, <1>f, <2>1, <3>1 DEF Served, JobRows
    <3> QED BY <1>a, <1>f, <2>1, <3>1 DEF Served, JobRows
  <2>3. Waiting'
    BY <2>1, <2>2 DEF Waiting
  <2> QED BY <1>20, <1>g, <2>3 DEF FailSource, WorkerReturns
<1>21. CASE BootStart
  <2>1. njobs = 0 /\ 1..njobs = {}
    BY <1>21, <1>d DEF BootStart
  <2>2. FirstBoot'
    BY <1>21, <2>1 DEF BootStart, FirstBoot
  <2> QED BY <1>21, <1>i, <2>2 DEF BootStart, BootFrame
<1>22. CASE BootSubmit
  BY <1>22, <1>d DEF BootSubmit
<1>23. CASE BootVerifySeen
  BY <1>23, <1>d DEF BootVerifySeen
<1>24. CASE BootComplete
  BY <1>24, <1>b, <1>d DEF BootComplete
<1>25. CASE BootRequeue
  BY <1>25, <1>d DEF BootRequeue
<1>26. CASE BootCloseSession
  BY <1>26, <1>b, <1>d DEF BootCloseSession
<1>27. CASE SweepReadSessions
  <2>1. FirstBoot'
    BY <1>27, <1>d DEF SweepReadSessions, FirstBoot
  <2> QED BY <1>27, <1>i, <2>1 DEF SweepReadSessions, BootFrame
<1>28. CASE SweepReadJobs
  <2>1. FirstBoot'
    BY <1>28, <1>d DEF SweepReadJobs, FirstBoot
  <2> QED BY <1>28, <1>i, <2>1 DEF SweepReadJobs, BootFrame
<1>29. CASE SweepSession
  BY <1>29, <1>g, <1>i DEF SweepSession, BootFrame, ReconcileSession
<1>30. CASE BootDone
  <2>1. FirstBoot'
    BY <1>30, <1>d DEF BootDone, FirstBoot
  <2> QED BY <1>30, <1>i, <2>1 DEF BootDone, BootFrame
<1>31. CASE RestartBegin
  <2>1. Waiting'
    BY <1>31, <1>a DEF RestartBegin, Waiting
  <2> QED BY <1>31, <1>g, <2>1 DEF RestartBegin, RestartFrame
<1>32. CASE RestartSupersede
  <2>1. restarts' # 0
    BY <1>32, <1>e DEF RestartSupersede, RestartFrame
  <2> QED BY <1>32, <1>g, <2>1 DEF RestartSupersede, RestartFrame, Waiting
<1>33. CASE RestartCloseSession
  <2>1. restarts' # 0
    BY <1>33, <1>e DEF RestartCloseSession, RestartFrame
  <2> QED BY <1>33, <1>g, <2>1 DEF RestartCloseSession, RestartFrame, Waiting
<1>34. CASE RestartEnqueue
  <2>1. restarts' # 0
    BY <1>34, <1>e DEF RestartEnqueue, RestartFrame
  <2> QED BY <1>34, <1>h, <2>1 DEF RestartEnqueue, RestartFrame, Waiting, Serving
<1>35. CASE AgentPost
  BY <1>35, <1>g, <1>i DEF AgentPost
<1>36. CASE Crash
  BY <1>36, <1>a DEF Crash
<1>37. CASE \E st \in Arrivals : Arrive(st)
  BY <1>37, <1>h, <1>l DEF Arrive, HandlerFrame, Serving
<1>38. CASE \E j \in Jobs : PullRequestOpened(j)
  <2>1. PICK j \in prEvents : status' = [status EXCEPT ![j] = "completed"]
    BY <1>38 DEF PullRequestOpened, SetStatus
  <2>2. j \in 1..njobs /\ stage[j] # RecoveryStage
    BY <2>1 DEF Posted, OpenedRows, RecoveryStage
  <2> QED BY <1>38, <1>g, <1>j, <2>1, <2>2 DEF PullRequestOpened, HandlerFrame
<1>39. CASE EnqueueReview
  BY <1>39, <1>h, <1>l DEF EnqueueReview, HandlerFrame, Serving
<1>40. CASE \E j \in Jobs : LoseEvent(j)
  BY <1>40, <1>g, <1>i DEF LoseEvent, WorldFrame
<1>41. CASE \E e \in orphans : OrphanPosts(e)
  BY <1>41, <1>g, <1>i DEF OrphanPosts, WorldFrame
<1>42. CASE \E e \in orphans : OrphanExits(e)
  BY <1>42, <1>g, <1>i DEF OrphanExits, WorldFrame
<1>43. CASE UNCHANGED vars
  BY <1>43, <1>g, <1>i DEF vars
<1> QED
  BY <1>1, <1>2, <1>3, <1>4, <1>5, <1>6, <1>7, <1>8, <1>9, <1>10, <1>11, <1>12, <1>13, <1>14,
     <1>15, <1>16, <1>17, <1>18, <1>19, <1>20, <1>21, <1>22, <1>23, <1>24, <1>25, <1>26, <1>27,
     <1>28, <1>29, <1>30, <1>31, <1>32, <1>33, <1>34, <1>35, <1>36, <1>37, <1>38, <1>39, <1>40,
     <1>41, <1>42, <1>43 DEF Next, WorkerStep, BootStep, RestartStep

---------------------------------------------------------------------------
(***************************************************************************)
(* Without restarts, a missing comment gets one recovery job.  A crash     *)
(* between the enqueue of the recovery job and the write that counts it    *)
(* leaves a source that will run again with the count at zero: then its    *)
(* recovery job has not run and comes after it, so the source still finds  *)
(* it.                                                                     *)
(***************************************************************************)
Live(j) == status[j] \in Active \/ j = cur \/ InQueue(j) \/ j \in bootSubmit \/ j \in bootVerify

\* Recovery job r has not been taken up, and its source is not behind it.
Fresh(r) ==
  /\ status[r] = "queued" /\ r # cur /\ r \notin bootVerify
  /\ InQueue(r) => source[r] \notin bootSubmit /\ source[r] \notin bootVerify
  /\ \A i, k \in DOMAIN queue : queue[i] = r /\ queue[k] = source[r] => k < i

Single == restarts = 0 =>
  \A r \in 1..njobs : stage[r] = RecoveryStage =>
    /\ \A q \in 1..njobs : stage[q] = RecoveryStage /\ source[q] = source[r] => q = r
    /\ recoveryAttempts[source[r]] = 0 /\ Live(source[r]) => Fresh(r)

\* Single of the next state.
LEMMA SingleThen ==
  (\A r \in (1..njobs)' : stage'[r] = RecoveryStage =>
     /\ \A q \in (1..njobs)' : stage'[q] = RecoveryStage /\ source'[q] = source'[r] => q = r
     /\ \A j : j = source'[r] /\ recoveryAttempts'[j] = 0 /\ Live(j)' => Fresh(r)')
  => Single'
<1> SUFFICES ASSUME \A r \in (1..njobs)' : stage'[r] = RecoveryStage =>
               /\ \A q \in (1..njobs)' : stage'[q] = RecoveryStage /\ source'[q] = source'[r] => q = r
               /\ \A j : j = source'[r] /\ recoveryAttempts'[j] = 0 /\ Live(j)' => Fresh(r)'
             PROVE  Single'
  OBVIOUS
<1> QED BY DEF Single, Live

\* What a queue is after a job is put at its end.
LEMMA Appended ==
  ASSUME QueueType, NEW x, queue' = Append(queue, x)
  PROVE  /\ \A j : InQueue(j)' <=> InQueue(j) \/ j = x
         /\ \A i \in DOMAIN queue' : \/ i \in DOMAIN queue /\ queue'[i] = queue[i]
                                     \/ queue'[i] = x /\ \A k \in DOMAIN queue : k < i
         /\ \A i, k \in DOMAIN queue' : i \notin DOMAIN queue /\ k \notin DOMAIN queue => i = k
<1> DEFINE n == Len(queue)
<1>1. /\ n \in Nat /\ DOMAIN queue = 1..n /\ DOMAIN queue' = 1..(n + 1)
      /\ \A i \in 1..n : queue'[i] = queue[i]
      /\ queue'[n + 1] = x
  BY DEF QueueType
<1> HIDE DEF n
<1>2. \A i \in DOMAIN queue' : i \in DOMAIN queue \/ i = n + 1
  BY <1>1
<1>3. \A k \in DOMAIN queue : k < n + 1 /\ k \in DOMAIN queue'
  BY <1>1
<1>4. n + 1 \in DOMAIN queue'
  BY <1>1
<1> QED BY <1>1, <1>2, <1>3, <1>4 DEF InQueue

\* No action enqueues a second recovery job, or runs a recovery job before its source.
LEMMA SingleStep ==
  IInv /\ IInv' /\ Posted /\ Rows /\ Single /\ [Next]_vars => Single'
<1> SUFFICES ASSUME IInv, IInv', Posted, Rows, Single, [Next]_vars, restarts' = 0
             PROVE  Single'
  BY DEF Single
<1> USE DEF jobVars, sessVars, queueVars, workVars, bootVars, restartVars, worldVars, boundVars
<1>a. /\ TypeInv /\ Apart /\ PendingIsServed
      /\ JobRows /\ QueueType /\ WorkerType /\ BootType /\ njobs \in Nat /\ 1..njobs \subseteq Jobs
      /\ restarts \in Nat
  <2>1. TypeInv /\ TypeOK /\ Apart /\ PendingIsServed
    BY DEF IInv, TypeInv
  <2>2. JobRows /\ QueueType /\ WorkerType /\ BootType /\ restarts \in 0..MaxRestarts
    BY <2>1 DEF TypeOK, BoundType
  <2>3. njobs \in Nat /\ 1..njobs \subseteq Jobs /\ restarts \in Nat
    BY <2>2, ConstantsAssumption DEF JobRows, Jobs
  <2> QED BY <2>1, <2>2, <2>3
<1>b. /\ pc # "idle" => cur \in 1..njobs
      /\ pc = "idle" <=> cur = 0
      /\ boot \in {"complete", "closeCompleted", "closeRequeued"} =>
           bootJob \in 1..njobs /\ bootJob \in bootVerify
  BY <1>a, HeldRows DEF TypeInv, Held
<1>c. /\ 1..njobs \subseteq (1..njobs)'
      /\ \A j \in 1..njobs : stage'[j] = stage[j] /\ source'[j] = source[j]
  BY <1>a, RowsStep DEF RowsStay
<1>d. restarts = 0
  <2>1. restarts' = restarts \/ restarts' = restarts + 1
    BY DEF Next, vars, WorkerStep, BootStep, RestartStep, Dequeue, Launch, WorkerFrame,
           CreateSession, LinkSession, WaitEnds, VerifySideEffect, FinalizeSession, RecheckRecovery,
           RelinkSession, CompleteSource, CompleteJob, WorkerReturns, CapacityButPosted,
           CapacityRetry, CapacityExhausted, FailJob, JoinRecovery, EnqueueRecovery, MarkRecovering,
           FailRecovery, FailSource, BootFrame, BootStart, BootSubmit, BootVerifySeen, BootComplete,
           BootRequeue, BootCloseSession, SweepReadSessions, SweepReadJobs, SweepSession, BootDone,
           RestartBegin, RestartSupersede, RestartCloseSession, RestartEnqueue, AgentPost, Arrive,
           HandlerFrame, PullRequestOpened, EnqueueReview, LoseEvent, WorldFrame, OrphanPosts,
           OrphanExits, Crash
  <2> QED BY <2>1, <1>a
<1>e. /\ \A r \in 1..njobs : stage[r] = RecoveryStage =>
           /\ source[r] \in 1..njobs /\ stage[source[r]] # RecoveryStage /\ source[r] < r
           /\ \A q \in 1..njobs : stage[q] = RecoveryStage /\ source[q] = source[r] => q = r
           /\ recoveryAttempts[source[r]] = 0 /\ Live(source[r]) => Fresh(r)
      /\ restart = "idle"
  <2>1. \A r \in 1..njobs : stage[r] = RecoveryStage =>
           source[r] \in 1..njobs /\ stage[source[r]] # RecoveryStage /\ source[r] < r
    BY DEF Posted, RecoveryRows, IssueCommentStages, RecoveryStage, Rows, RecoveryKinds
  <2>2. restart = "idle"
    BY <1>d DEF Rows, NoRestart
  <2> QED BY <1>d, <2>1, <2>2 DEF Single
\* Rows are as many as before, and no recovery job loses what it needs.
<1>f. ASSUME njobs' = njobs,
             \A j \in 1..njobs : recoveryAttempts'[j] = 0 => recoveryAttempts[j] = 0,
             \A j \in 1..njobs : Live(j)' => Live(j),
             \A r \in 1..njobs : stage[r] = RecoveryStage /\ Live(source[r]) /\ Fresh(r) => Fresh(r)'
      PROVE  Single'
  <2>1. ASSUME NEW r \in 1..njobs, stage'[r] = RecoveryStage
        PROVE  /\ \A q \in 1..njobs : stage'[q] = RecoveryStage /\ source'[q] = source'[r] => q = r
               /\ \A j : j = source'[r] /\ recoveryAttempts'[j] = 0 /\ Live(j)' => Fresh(r)'
    BY <1>c, <1>e, <1>f, <2>1
  <2> QED BY <1>f, <2>1, SingleThen
\* The queue stays as it is, and so do the boot loop's rows.
<1>g. ASSUME UNCHANGED <<njobs, queue, bootSubmit, bootVerify>>, cur' = cur \/ cur' = 0,
             \A j \in 1..njobs : recoveryAttempts'[j] = 0 => recoveryAttempts[j] = 0,
             \A j \in 1..njobs : status'[j] \in Active => Live(j),
             \A r \in 1..njobs : stage[r] = RecoveryStage /\ status[r] = "queued" /\ r # cur
                                 /\ r \notin bootVerify => status'[r] = "queued"
      PROVE  Single'
  <2>1. \A j \in 1..njobs : Live(j)' => Live(j)
    BY <1>a, <1>g DEF Live, InQueue
  <2>2. \A r \in 1..njobs : stage[r] = RecoveryStage /\ Fresh(r) => Fresh(r)'
    <3>1. SUFFICES ASSUME NEW r \in 1..njobs, stage[r] = RecoveryStage, Fresh(r) PROVE Fresh(r)'
      OBVIOUS
    <3>2. r # 0 /\ source'[r] = source[r]
      BY <1>a, <1>c
    <3>3. status'[r] = "queued" /\ r # cur'
      BY <1>g, <3>1, <3>2 DEF Fresh
    <3> QED BY <1>g, <3>1, <3>2, <3>3 DEF Fresh, InQueue
  <2> QED BY <1>f, <1>g, <2>1, <2>2
<1>h. status' = status =>
        /\ \A j \in 1..njobs : status'[j] \in Active => Live(j)
        /\ \A r \in 1..njobs : stage[r] = RecoveryStage /\ status[r] = "queued" /\ r # cur
                               /\ r \notin bootVerify => status'[r] = "queued"
  BY DEF Live
<1>i. \A s : status' = [status EXCEPT ![cur] = s] =>
        /\ \A j \in 1..njobs : status'[j] \in Active => Live(j)
        /\ \A r \in 1..njobs : stage[r] = RecoveryStage /\ status[r] = "queued" /\ r # cur
                               /\ r \notin bootVerify => status'[r] = "queued"
  BY <1>a DEF Live, JobRows
\* The row written is no recovery job's, and is pending no more.
<1>j. \A t \in 1..njobs : \A s \in {"completed", "failed"} :
        stage[t] # RecoveryStage /\ status' = [status EXCEPT ![t] = s] =>
          /\ \A j \in 1..njobs : status'[j] \in Active => Live(j)
          /\ \A r \in 1..njobs : stage[r] = RecoveryStage /\ status[r] = "queued" /\ r # cur
                                 /\ r \notin bootVerify => status'[r] = "queued"
  BY <1>a, ActiveValues DEF Live, JobRows
<1>k. \A t \in bootVerify : \A s : status' = [status EXCEPT ![t] = s] =>
        /\ \A j \in 1..njobs : status'[j] \in Active => Live(j)
        /\ \A r \in 1..njobs : stage[r] = RecoveryStage /\ status[r] = "queued" /\ r # cur
                               /\ r \notin bootVerify => status'[r] = "queued"
  BY <1>a DEF Live, JobRows
<1>l. recoveryAttempts' = recoveryAttempts \/ (\E t : recoveryAttempts' = [recoveryAttempts EXCEPT ![t] = 1])
        => \A j \in 1..njobs : recoveryAttempts'[j] = 0 => recoveryAttempts[j] = 0
  BY <1>a DEF JobRows
\* A new row that is no recovery job's.
<1>m. ASSUME NEW st, NEW src, CreateJob(st, src), UNCHANGED <<cur, bootSubmit, bootVerify>>
      PROVE  /\ njobs' = njobs + 1 /\ njobs + 1 \notin 1..njobs /\ njobs + 1 \in Jobs
             /\ njobs + 1 \in 1..njobs'
             /\ \A r \in 1..njobs' : r \in 1..njobs \/ r = njobs + 1
             /\ stage'[njobs + 1] = st /\ source'[njobs + 1] = src /\ status'[njobs + 1] = "queued"
             /\ recoveryAttempts' = recoveryAttempts
             /\ \A j \in 1..njobs : Live(j)' => Live(j)
             /\ \A r \in 1..njobs : stage[r] = RecoveryStage /\ Fresh(r) => Fresh(r)'
  <2>1. /\ njobs' = njobs + 1 /\ njobs + 1 \notin 1..njobs /\ njobs + 1 \in Jobs
        /\ njobs + 1 \in 1..njobs'
        /\ \A r \in 1..njobs' : r \in 1..njobs \/ r = njobs + 1
    BY <1>a, <1>m, ConstantsAssumption DEF CreateJob, Jobs
  <2>2. /\ stage'[njobs + 1] = st /\ source'[njobs + 1] = src /\ status'[njobs + 1] = "queued"
        /\ \A j \in 1..njobs : status'[j] = status[j]
        /\ recoveryAttempts' = recoveryAttempts /\ queue' = Append(queue, njobs + 1)
    BY <1>a, <1>m, <2>1 DEF CreateJob, JobRows
  <2>3. /\ \A j : InQueue(j)' <=> InQueue(j) \/ j = njobs + 1
        /\ \A i \in DOMAIN queue' : \/ i \in DOMAIN queue /\ queue'[i] = queue[i]
                                    \/ queue'[i] = njobs + 1
    BY <1>a, <2>2, Appended
  <2>4. \A j \in 1..njobs : Live(j)' => Live(j)
    BY <1>m, <2>1, <2>2, <2>3 DEF Live
  <2>5. ASSUME NEW r \in 1..njobs, stage[r] = RecoveryStage, Fresh(r)
        PROVE  Fresh(r)'
    <3>1. r # njobs + 1 /\ source[r] # njobs + 1 /\ source'[r] = source[r] /\ status'[r] = "queued"
      BY <1>c, <1>e, <2>1, <2>2, <2>5 DEF Fresh
    <3>2. \A i, k \in DOMAIN queue' : queue'[i] = r /\ queue'[k] = source[r] => k < i
      BY <2>3, <2>5, <3>1 DEF Fresh
    <3> QED BY <1>m, <2>3, <2>5, <3>1, <3>2 DEF Fresh
  <2> QED BY <2>1, <2>2, <2>4, <2>5
<1>n. ASSUME NEW st, NEW src, CreateJob(st, src), UNCHANGED <<cur, bootSubmit, bootVerify>>,
             st # RecoveryStage
      PROVE  Single'
  <2>1. ASSUME NEW r \in 1..njobs', stage'[r] = RecoveryStage
        PROVE  /\ \A q \in 1..njobs' : stage'[q] = RecoveryStage /\ source'[q] = source'[r] => q = r
               /\ \A j : j = source'[r] /\ recoveryAttempts'[j] = 0 /\ Live(j)' => Fresh(r)'
    BY <1>c, <1>e, <1>m, <1>n, <2>1
  <2> QED BY <2>1, SingleThen
<1>1. CASE Dequeue
  <2> DEFINE n == Len(queue)
  <2>1. /\ n \in Nat \ {0} /\ DOMAIN queue = 1..n /\ Head(queue) = queue[1]
        /\ DOMAIN queue' = 1..(n - 1) /\ \A i \in 1..(n - 1) : queue'[i] = queue[i + 1]
    BY <1>1, <1>a, EmptySeq DEF Dequeue, QueueType
  <2> HIDE DEF n
  <2>2. /\ \A i \in DOMAIN queue' : i + 1 \in DOMAIN queue /\ queue'[i] = queue[i + 1]
        /\ 1 \in DOMAIN queue /\ \A i \in DOMAIN queue' : i + 1 # 1 /\ i \in Nat
        /\ \A k \in DOMAIN queue : ~(k < 1)
    BY <2>1
  <2>3. \A j : InQueue(j)' => InQueue(j) /\ j # queue[1]
    BY <1>a, <2>2 DEF InQueue, Apart
  <2>4. /\ cur = 0 /\ (cur' = cur \/ cur' = queue[1]) /\ Up
        /\ UNCHANGED <<njobs, status, recoveryAttempts, bootSubmit, bootVerify>>
    BY <1>1, <1>b, <2>1 DEF Dequeue
  <2>5. \A j \in 1..njobs : Live(j)' => Live(j)
    BY <2>2, <2>3, <2>4, <1>a DEF Live, InQueue
  \* A recovery job that is next has no live source.
  <2>6. ASSUME NEW r \in 1..njobs, stage[r] = RecoveryStage, r = queue[1], Live(source[r]), Fresh(r)
        PROVE  FALSE
    <3>1. source[r] \in 1..njobs /\ source[r] # 0 /\ source[r] \in Jobs
      BY <1>a, <1>e, <2>6
    <3>2. ~InQueue(source[r])
      BY <2>2, <2>6 DEF Fresh, InQueue
    <3>3. InQueue(r)
      BY <2>2, <2>6 DEF InQueue
    <3>4. source[r] \notin bootSubmit /\ source[r] \notin bootVerify
      BY <2>6, <3>3 DEF Fresh
    <3>5. status[source[r]] \notin Active
      BY <1>a, <2>4, <3>1, <3>2, <3>4 DEF PendingIsServed
    <3> QED BY <2>4, <2>6, <3>1, <3>2, <3>4, <3>5 DEF Live
  <2>7. ASSUME NEW r \in 1..njobs, stage[r] = RecoveryStage, Live(source[r]), Fresh(r)
        PROVE  Fresh(r)'
    <3>1. r # queue[1] /\ r # 0 /\ source'[r] = source[r]
      BY <1>a, <1>c, <2>6, <2>7
    <3>2. \A i, k \in DOMAIN queue' : queue'[i] = r /\ queue'[k] = source[r] => k < i
      <4>1. \A i, k \in DOMAIN queue' : queue'[i] = r /\ queue'[k] = source[r] => k + 1 < i + 1
        BY <2>2, <2>7 DEF Fresh
      <4> QED BY <2>2, <4>1
    <3> QED BY <2>3, <2>4, <2>7, <3>1, <3>2 DEF Fresh
  <2> QED BY <1>f, <2>4, <2>5, <2>7
<1>2. CASE Launch
  BY <1>2, <1>g, <1>h, <1>l DEF Launch, WorkerFrame, Goto
<1>3. CASE CreateSession
  BY <1>3, <1>g, <1>h, <1>l DEF CreateSession, WorkerFrame, Goto
<1>4. CASE LinkSession
  BY <1>4, <1>g, <1>i, <1>l DEF LinkSession, WorkerFrame, SetStatus
<1>5. CASE WaitEnds
  BY <1>5, <1>g, <1>h, <1>l DEF WaitEnds, WorkerFrame, Goto
<1>6. CASE VerifySideEffect
  BY <1>6, <1>g, <1>h, <1>l DEF VerifySideEffect, WorkerFrame, Goto
<1>7. CASE FinalizeSession
  BY <1>7, <1>g, <1>h, <1>l DEF FinalizeSession, WorkerFrame, Goto, AfterSession
<1>8. CASE RecheckRecovery
  BY <1>8, <1>g, <1>h, <1>l DEF RecheckRecovery, WorkerFrame, Goto
<1>9. CASE RelinkSession
  BY <1>9, <1>g, <1>i, <1>l DEF RelinkSession, WorkerFrame, SetStatus
<1>10. CASE CompleteSource
  <2>1. source[cur] \in 1..njobs /\ stage[source[cur]] # RecoveryStage
    BY <1>10, <1>b, <1>e DEF CompleteSource
  <2> QED BY <1>10, <2>1, <1>g, <1>j, <1>l DEF CompleteSource, WorkerFrame
<1>11. CASE CompleteJob
  BY <1>11, <1>g, <1>i, <1>l DEF CompleteJob, WorkerReturns, Done, SetStatus
<1>12. CASE CapacityButPosted
  BY <1>12, <1>g, <1>h, <1>l DEF CapacityButPosted, WorkerFrame, Goto
<1>13. CASE CapacityRetry
  BY <1>13, <1>g, <1>i, <1>l DEF CapacityRetry, WorkerFrame, SetStatus
<1>14. CASE CapacityExhausted
  BY <1>14, <1>g, <1>i, <1>l DEF CapacityExhausted, Done, SetStatus
<1>15. CASE FailJob
  BY <1>15, <1>g, <1>i, <1>l DEF FailJob, WorkerReturns, Done, SetStatus
<1>16. CASE JoinRecovery
  BY <1>16, <1>g, <1>i, <1>l DEF JoinRecovery, WorkerReturns, Done, SetStatus
<1>17. CASE EnqueueRecovery
  <2>1. /\ CreateJob(RecoveryStage, cur) /\ UNCHANGED <<cur, bootSubmit, bootVerify>>
        /\ cur \in 1..njobs /\ ~HasActiveRecovery(cur) /\ recoveryAttempts[cur] = 0
    BY <1>17, <1>a, <1>b DEF EnqueueRecovery, CanRecover, MaxRecoveryAttempts, JobRows
  <2>2. \A q \in 1..njobs : stage[q] = RecoveryStage => source[q] # cur
    <3>1. SUFFICES ASSUME NEW q \in 1..njobs, stage[q] = RecoveryStage, source[q] = cur PROVE FALSE
      OBVIOUS
    <3>2. status[q] \in Active
      BY <1>e, <2>1, <3>1, ActiveValues DEF Live, Fresh
    <3>3. q \in RecoveriesOf(cur) /\ \A p \in RecoveriesOf(cur) : p <= q
      BY <1>e, <3>1 DEF RecoveriesOf
    <3> QED BY <2>1, <3>2, <3>3 DEF HasActiveRecovery
  <2>3. /\ queue' = Append(queue, njobs + 1) /\ source'[njobs + 1] = cur
        /\ cur \notin bootSubmit /\ cur \notin bootVerify /\ ~InQueue(cur)
        /\ cur # njobs + 1 /\ njobs + 1 \notin bootVerify
    <3>1. cur # njobs + 1 /\ njobs + 1 \notin bootVerify
      BY <1>a, <1>m, <2>1 DEF BootType
    <3>2. queue' = Append(queue, njobs + 1) /\ source'[njobs + 1] = cur
      BY <1>m, <2>1 DEF CreateJob
    <3> QED BY <1>a, <2>1, <3>1, <3>2 DEF Apart, InQueue
  <2>4. ASSUME NEW r, r = njobs + 1
        PROVE  Fresh(r)'
    <3>1. \A k \in DOMAIN queue' : queue'[k] # cur
      BY <1>a, <2>3, Appended DEF InQueue
    <3>2. njobs' = njobs + 1 /\ status'[njobs + 1] = "queued"
      BY <1>m, <2>1
    <3>3. source'[r] = cur
      BY <2>3, <2>4
    <3> QED BY <2>1, <2>3, <2>4, <3>1, <3>2, <3>3 DEF Fresh, InQueue
  <2>5. ASSUME NEW r \in 1..njobs', stage'[r] = RecoveryStage
        PROVE  /\ \A q \in 1..njobs' : stage'[q] = RecoveryStage /\ source'[q] = source'[r] => q = r
               /\ \A j : j = source'[r] /\ recoveryAttempts'[j] = 0 /\ Live(j)' => Fresh(r)'
    <3>1. CASE r \in 1..njobs
      BY <1>c, <1>e, <1>m, <2>1, <2>2, <2>3, <2>5, <3>1 DEF Live
    <3>2. CASE r = njobs + 1
      BY <1>c, <1>m, <2>1, <2>2, <2>3, <2>4, <3>2
    <3> QED BY <1>m, <2>1, <3>1, <3>2
  <2> QED BY <2>5, SingleThen
<1>18. CASE MarkRecovering
  BY <1>18, <1>g, <1>i, <1>l DEF MarkRecovering, WorkerReturns, Done, SetStatus
<1>19. CASE FailRecovery
  BY <1>19, <1>g, <1>i, <1>l DEF FailRecovery, WorkerFrame, SetStatus
<1>20. CASE FailSource
  <2>1. source[cur] \in 1..njobs /\ stage[source[cur]] # RecoveryStage
    BY <1>20, <1>b, <1>e DEF FailSource, Rows, RecoveryKinds
  <2> QED BY <1>20, <2>1, <1>g, <1>j, <1>l DEF FailSource, WorkerReturns, Done
<1>21. CASE BootStart
  <2>1. /\ UNCHANGED <<njobs, status, recoveryAttempts, cur, queue>> /\ cur = 0 /\ queue = <<>>
        /\ bootSubmit' = {j \in 1..njobs : status[j] \in {"queued", "retrying"}}
        /\ bootVerify' = {j \in 1..njobs : status[j] = "launched"}
    BY <1>21, <1>a DEF BootStart, BootFrame, Apart
  <2>2. \A j : ~InQueue(j)'
    BY <2>1 DEF InQueue
  <2>3. \A j \in 1..njobs : Live(j)' => Live(j)
    BY <1>a, <2>1, <2>2, ActiveValues DEF Live
  <2>4. ASSUME NEW r \in 1..njobs, Fresh(r)
        PROVE  Fresh(r)'
    <3>1. DOMAIN queue' = {}
      BY <2>1
    <3>2. status'[r] = "queued" /\ r # cur' /\ r \notin bootVerify'
      BY <2>1, <2>4 DEF Fresh
    <3> QED BY <2>2, <3>1, <3>2 DEF Fresh
  <2> QED BY <1>f, <2>1, <2>3, <2>4
<1>22. CASE BootSubmit
  <2>1. PICK x \in bootSubmit :
          /\ \A k \in bootSubmit \cup bootVerify : x <= k
          /\ queue' = Append(queue, x) /\ bootSubmit' = bootSubmit \ {x}
    BY <1>22 DEF BootSubmit, BootNext, Submit
  <2>2. /\ UNCHANGED <<njobs, status, recoveryAttempts, cur, bootVerify>> /\ x \in 1..njobs
        /\ ~InQueue(x) /\ x # cur /\ x \notin bootVerify
    BY <1>22, <1>a, <2>1 DEF BootSubmit, BootFrame, BootType, Apart, InQueue
  <2>3. /\ \A j : InQueue(j)' <=> InQueue(j) \/ j = x
        /\ \A i \in DOMAIN queue' : \/ i \in DOMAIN queue /\ queue'[i] = queue[i]
                                    \/ queue'[i] = x /\ \A k \in DOMAIN queue : k < i
    BY <1>a, <2>1, Appended
  <2>4. \A j \in 1..njobs : Live(j)' => Live(j)
    BY <2>1, <2>2, <2>3 DEF Live
  <2>5. ASSUME NEW r \in 1..njobs, stage[r] = RecoveryStage, Fresh(r)
        PROVE  Fresh(r)'
    <3>1. source[r] < r /\ source[r] \in 1..njobs /\ source'[r] = source[r]
      BY <1>c, <1>e, <2>5
    <3>2. CASE x = r
      <4>1. source[r] \notin bootSubmit /\ source[r] \notin bootVerify
        BY <1>a, <2>1, <3>1, <3>2
      <4>2. \A i, k \in DOMAIN queue' : queue'[i] = r /\ queue'[k] = source[r] => k < i
        BY <2>2, <2>3, <3>1, <3>2 DEF InQueue
      <4> QED BY <2>1, <2>2, <2>5, <3>1, <4>1, <4>2 DEF Fresh
    <3>3. CASE x # r
      <4>1. InQueue(r) => source[r] # x
        BY <2>1, <2>5 DEF Fresh
      <4>2. \A i, k \in DOMAIN queue' : queue'[i] = r /\ queue'[k] = source[r] => k < i
        BY <2>3, <2>5, <3>3, <4>1 DEF Fresh, InQueue
      <4> QED BY <2>1, <2>2, <2>3, <2>5, <3>1, <3>3, <4>2 DEF Fresh
    <3> QED BY <3>2, <3>3
  <2> QED BY <1>f, <2>2, <2>4, <2>5
<1>23. CASE BootVerifySeen
  <2>1. PICK j \in bootVerify :
          IF stage[j] = RecoveryStage
          THEN /\ status' = [status EXCEPT ![source[j]] = "completed"]
               /\ recoveryAttempts' = [recoveryAttempts EXCEPT ![source[j]] = 1]
          ELSE UNCHANGED <<status, recoveryAttempts>>
    BY <1>23 DEF BootVerifySeen
  <2>2. UNCHANGED <<njobs, queue, bootSubmit, bootVerify, cur>>
    BY <1>23 DEF BootVerifySeen, BootFrame
  <2>3. CASE stage[j] = RecoveryStage
    <3>1. j \in 1..njobs
      BY <1>a DEF BootType
    <3>2. source[j] \in 1..njobs /\ stage[source[j]] # RecoveryStage
      BY <1>e, <2>3, <3>1
    <3> QED BY <2>1, <2>2, <2>3, <3>2, <1>g, <1>j, <1>l
  <2>4. CASE stage[j] # RecoveryStage
    BY <2>1, <2>2, <2>4, <1>g, <1>h, <1>l
  <2> QED BY <2>3, <2>4
<1>24. CASE BootComplete
  BY <1>24, <1>b, <1>g, <1>k, <1>l DEF BootComplete, BootFrame, SetStatus
<1>25. CASE BootRequeue
  BY <1>25, <1>g, <1>k, <1>l DEF BootRequeue, BootFrame, SetStatus
<1>26. CASE BootCloseSession
  <2>1. /\ UNCHANGED <<njobs, status, recoveryAttempts, cur, bootSubmit>>
        /\ bootVerify' = bootVerify \ {bootJob} /\ bootJob \in bootVerify /\ bootJob \in 1..njobs
        /\ queue' = queue \/ queue' = Append(queue, bootJob)
    BY <1>26, <1>b DEF BootCloseSession, BootFrame, Submit
  <2>2. /\ \A j : InQueue(j)' => InQueue(j) \/ j = bootJob
        /\ \A j : InQueue(j) => InQueue(j)'
        /\ \A i \in DOMAIN queue' : \/ i \in DOMAIN queue /\ queue'[i] = queue[i]
                                    \/ queue'[i] = bootJob /\ \A k \in DOMAIN queue : k < i
    BY <1>a, <2>1, Appended DEF InQueue
  <2>3. \A j \in 1..njobs : Live(j)' => Live(j)
    BY <2>1, <2>2 DEF Live
  <2>4. ASSUME NEW r \in 1..njobs, stage[r] = RecoveryStage, Fresh(r)
        PROVE  Fresh(r)'
    <3>1. r # bootJob /\ source'[r] = source[r] /\ (InQueue(r) => source[r] # bootJob)
      BY <1>c, <2>1, <2>4 DEF Fresh
    <3>2. \A i, k \in DOMAIN queue' : queue'[i] = r /\ queue'[k] = source[r] => k < i
      BY <2>2, <2>4, <3>1 DEF Fresh, InQueue
    <3> QED BY <2>1, <2>2, <2>4, <3>1, <3>2 DEF Fresh
  <2> QED BY <1>f, <2>1, <2>3, <2>4
<1>27. CASE SweepReadSessions
  BY <1>27, <1>g, <1>h, <1>l DEF SweepReadSessions, BootFrame
<1>28. CASE SweepReadJobs
  BY <1>28, <1>g, <1>h, <1>l DEF SweepReadJobs, BootFrame, SessionStatusFor
<1>29. CASE SweepSession
  BY <1>29, <1>g, <1>h, <1>l DEF SweepSession, BootFrame, ReconcileSession
<1>30. CASE BootDone
  BY <1>30, <1>g, <1>h, <1>l DEF BootDone, BootFrame
<1>31. CASE RestartBegin
  BY <1>31, <1>a DEF RestartBegin
<1>32. CASE RestartSupersede
  BY <1>32, <1>e DEF RestartSupersede
<1>33. CASE RestartCloseSession
  BY <1>33, <1>e DEF RestartCloseSession
<1>34. CASE RestartEnqueue
  BY <1>34, <1>e DEF RestartEnqueue
<1>35. CASE AgentPost
  BY <1>35, <1>g, <1>h, <1>l DEF AgentPost
<1>36. CASE Crash
  <2>1. /\ UNCHANGED <<njobs, status, recoveryAttempts>> /\ cur' = 0 /\ queue' = <<>>
        /\ bootSubmit' = {} /\ bootVerify' = {} /\ DOMAIN queue' = {}
    BY <1>36 DEF Crash, Done
  <2>2. \A j \in 1..njobs : Live(j)' => Live(j)
    BY <1>a, <2>1 DEF Live, InQueue
  <2>3. \A r \in 1..njobs : Fresh(r) => Fresh(r)'
    BY <1>a, <2>1 DEF Fresh, InQueue
  <2> QED BY <1>f, <2>1, <2>2, <2>3
<1>37. CASE \E st \in Arrivals : Arrive(st)
  <2>1. PICK st \in Arrivals : CreateJob(st, 0)
    BY <1>37 DEF Arrive
  <2>2. st # RecoveryStage
    BY ConstantsAssumption
  <2> QED BY <1>37, <2>1, <2>2, <1>n DEF Arrive, HandlerFrame
<1>38. CASE \E j \in Jobs : PullRequestOpened(j)
  <2>1. PICK j \in prEvents : status' = [status EXCEPT ![j] = "completed"]
    BY <1>38 DEF PullRequestOpened, SetStatus
  <2>2. j \in 1..njobs /\ stage[j] # RecoveryStage
    BY <2>1 DEF Posted, OpenedRows, RecoveryStage
  <2> QED BY <1>38, <1>g, <1>j, <1>l, <2>1, <2>2 DEF PullRequestOpened, HandlerFrame
<1>39. CASE EnqueueReview
  BY <1>39, <1>n DEF EnqueueReview, HandlerFrame, RecoveryStage
<1>40. CASE \E j \in Jobs : LoseEvent(j)
  BY <1>40, <1>g, <1>h, <1>l DEF LoseEvent, WorldFrame
<1>41. CASE \E e \in orphans : OrphanPosts(e)
  BY <1>41, <1>g, <1>h, <1>l DEF OrphanPosts, WorldFrame
<1>42. CASE \E e \in orphans : OrphanExits(e)
  BY <1>42, <1>g, <1>h, <1>l DEF OrphanExits, WorldFrame
<1>43. CASE UNCHANGED vars
  BY <1>43, <1>g, <1>h, <1>l DEF vars
<1> QED
  BY <1>1, <1>2, <1>3, <1>4, <1>5, <1>6, <1>7, <1>8, <1>9, <1>10, <1>11, <1>12, <1>13, <1>14,
     <1>15, <1>16, <1>17, <1>18, <1>19, <1>20, <1>21, <1>22, <1>23, <1>24, <1>25, <1>26, <1>27,
     <1>28, <1>29, <1>30, <1>31, <1>32, <1>33, <1>34, <1>35, <1>36, <1>37, <1>38, <1>39, <1>40,
     <1>41, <1>42, <1>43 DEF Next, WorkerStep, BootStep, RestartStep

---------------------------------------------------------------------------
(***************************************************************************)
(* The sweep at the end of the rehydration.                                *)
(***************************************************************************)

\* Session s may stay launched: this process runs its job or a recovery of it, or its
\* job waits for one.
Excused(s) ==
  \/ sessJob[s] \in submitted \/ status[sessJob[s]] = "recovering"
  \/ \E r \in submitted : source[r] = sessJob[s]

Sweeping == restarts = 0 => \A s \in 1..epoch : sessStatus[s] = "launched" =>
  /\ boot = "sweep" => s \in sweepSeen
  /\ boot = "sweeping" => Excused(s) \/ \E e \in sweepTodo : e[1] = s
  /\ boot = "done" => Excused(s)

\* Only what waits for an issue comment is recovering.
AwaitsComment == \A j \in Jobs : status[j] = "recovering" => stage[j] \in IssueCommentStages

Swept ==
  /\ boot \in {"sweep", "sweeping", "done"} => bootSubmit = {} /\ bootVerify = {}
  /\ AwaitsComment /\ Sweeping

\* The sweep reads every session that must be closed, and no later action leaves one
\* without an excuse.
LEMMA SweptStep == IInv /\ Posted /\ Rows /\ Swept /\ [Next]_vars => Swept'
<1> SUFFICES ASSUME IInv, Posted, Rows, Swept, [Next]_vars PROVE Swept'
  OBVIOUS
<1> USE DEF jobVars, sessVars, queueVars, workVars, bootVars, restartVars, worldVars, boundVars
<1>a. /\ TypeInv /\ Apart /\ PendingIsServed
      /\ JobRows /\ SessionRows /\ QueueType /\ WorkerType /\ BootType
      /\ njobs \in Nat /\ 1..njobs \subseteq Jobs /\ restarts \in Nat
      /\ nsess \in Nat /\ epoch \in Nat /\ 1..epoch \subseteq 1..nsess /\ 1..nsess \subseteq Sessions
  <2>1. TypeInv /\ TypeOK /\ Apart /\ PendingIsServed
    BY DEF IInv, TypeInv
  <2>2. /\ JobRows /\ SessionRows /\ QueueType /\ WorkerType /\ BootType
        /\ restarts \in 0..MaxRestarts /\ epoch \in 0..nsess
    BY <2>1 DEF TypeOK, BoundType
  <2>3. /\ njobs \in Nat /\ 1..njobs \subseteq Jobs /\ restarts \in Nat
        /\ nsess \in Nat /\ epoch \in Nat /\ 1..epoch \subseteq 1..nsess /\ 1..nsess \subseteq Sessions
    BY <2>2, ConstantsAssumption DEF JobRows, SessionRows, Jobs, Sessions
  <2> QED BY <2>1, <2>2, <2>3
<1>b. /\ pc # "idle" => cur \in 1..njobs /\ cur \in submitted
      /\ boot \in {"complete", "closeCompleted", "closeRequeued"} => bootJob \in bootVerify
      /\ \A j \in prEvents : stage[j] = "implementation"
  BY <1>a, HeldRows DEF TypeInv, Held, Apart, Posted, OpenedRows
<1>c. /\ 1..njobs \subseteq (1..njobs)'
      /\ \A j \in 1..njobs : stage'[j] = stage[j] /\ source'[j] = source[j]
      /\ \A j \in Jobs : status[j] = "recovering" => j \in 1..njobs
      /\ \A s \in 1..epoch : sessJob[s] \in 1..njobs
  BY <1>a, RowsStep DEF RowsStay, Rows, RowsThere
\* No row becomes recovering.
<1>d. (\A j \in 1..njobs : status'[j] = "recovering" => status[j] = "recovering")
      /\ (\A j \in Jobs : j \notin 1..njobs => status'[j] # "recovering") => AwaitsComment'
  BY <1>c DEF Swept, AwaitsComment
\* The excuses stay, and no session is launched again.
<1>e. ASSUME UNCHANGED <<epoch, boot, sweepSeen, sweepTodo>>, restarts' = 0 => restarts = 0,
             submitted \subseteq submitted',
             \A s \in 1..epoch : sessJob'[s] = sessJob[s]
                                 /\ (sessStatus'[s] = "launched" => sessStatus[s] = "launched"),
             \A j \in 1..njobs : status[j] = "recovering" =>
               status'[j] = "recovering" \/ j \in submitted \/ \E r \in submitted : source[r] = j
      PROVE  Sweeping'
  <2>1. \A s \in 1..epoch : Excused(s) => Excused(s)'
    <3>1. SUFFICES ASSUME NEW s \in 1..epoch, Excused(s) PROVE Excused(s)'
      OBVIOUS
    <3>2. sessJob'[s] = sessJob[s] /\ sessJob[s] \in 1..njobs
      BY <1>c, <1>e
    <3>3. \A r \in submitted : r \in submitted' /\ source'[r] = source[r]
      BY <1>a, <1>c, <1>e DEF QueueType
    <3> QED BY <1>e, <3>1, <3>2, <3>3 DEF Excused
  <2>2. ASSUME restarts' = 0, NEW s \in 1..epoch, sessStatus'[s] = "launched"
        PROVE  /\ boot = "sweep" => s \in sweepSeen
               /\ boot = "sweeping" => Excused(s)' \/ \E e \in sweepTodo : e[1] = s
               /\ boot = "done" => Excused(s)'
    BY <1>e, <2>1, <2>2 DEF Swept, Sweeping
  <2> QED BY <1>e, <2>2 DEF Sweeping
\* Rows of the worker's job, or of its source.
<1>f. ASSUME pc # "idle",
             NEW s, s # "recovering",
             \/ status' = [status EXCEPT ![cur] = s]
             \/ status' = [status EXCEPT ![source[cur]] = s]
      PROVE  /\ \A j \in 1..njobs : status'[j] = "recovering" => status[j] = "recovering"
             /\ \A j \in Jobs : j \notin 1..njobs => status'[j] # "recovering"
             /\ \A j \in 1..njobs : status[j] = "recovering" =>
                  status'[j] = "recovering" \/ j \in submitted \/ \E r \in submitted : source[r] = j
  BY <1>a, <1>b, <1>c, <1>f DEF JobRows
<1>g. ASSUME status' = status
      PROVE  /\ \A j \in 1..njobs : status'[j] = "recovering" => status[j] = "recovering"
             /\ \A j \in Jobs : j \notin 1..njobs => status'[j] # "recovering"
             /\ \A j \in 1..njobs : status[j] = "recovering" =>
                  status'[j] = "recovering" \/ j \in submitted \/ \E r \in submitted : source[r] = j
  BY <1>c, <1>g
<1>h. ASSUME NEW st, NEW src, CreateJob(st, src)
      PROVE  /\ \A j \in 1..njobs : status'[j] = "recovering" => status[j] = "recovering"
             /\ \A j \in Jobs : j \notin 1..njobs => status'[j] # "recovering"
             /\ \A j \in 1..njobs : status[j] = "recovering" =>
                  status'[j] = "recovering" \/ j \in submitted \/ \E r \in submitted : source[r] = j
             /\ submitted \subseteq submitted'
  <2>1. njobs + 1 \notin 1..njobs /\ njobs + 1 \in Jobs
    BY <1>a, <1>h, ConstantsAssumption DEF CreateJob, Jobs
  <2>2. \A j \in Jobs : status'[j] = status[j] \/ (j = njobs + 1 /\ status'[j] = "queued")
    BY <1>a, <1>h DEF CreateJob, JobRows
  <2> QED BY <1>a, <1>c, <1>h, <2>1, <2>2 DEF CreateJob
\* Sessions that were closed stay closed.
<1>i. UNCHANGED <<sessJob, sessStatus>> =>
        \A s \in 1..epoch : sessJob'[s] = sessJob[s]
                            /\ (sessStatus'[s] = "launched" => sessStatus[s] = "launched")
  OBVIOUS
<1>j. ASSUME sessJob' = sessJob, NEW t, NEW s \in {"completed", "failed"},
             sessStatus' = sessStatus \/ sessStatus' = [sessStatus EXCEPT ![t] = s]
      PROVE  \A u \in 1..epoch : sessJob'[u] = sessJob[u]
                                 /\ (sessStatus'[u] = "launched" => sessStatus[u] = "launched")
  BY <1>a, <1>j DEF SessionRows
<1>k. UNCHANGED <<boot, bootSubmit, bootVerify>> =>
        (boot' \in {"sweep", "sweeping", "done"} => bootSubmit' = {} /\ bootVerify' = {})
  BY DEF Swept
\* The sweep has not begun.
<1>l. boot' \notin {"sweep", "sweeping", "done"} =>
        Sweeping' /\ (boot' \in {"sweep", "sweeping", "done"} => bootSubmit' = {} /\ bootVerify' = {})
  BY DEF Sweeping
<1> USE DEF Swept
<1>1. CASE Dequeue
  BY <1>1, <1>d, <1>e, <1>g, <1>i, <1>k DEF Dequeue
<1>2. CASE Launch
  BY <1>2, <1>d, <1>e, <1>g, <1>i, <1>k DEF Launch, WorkerFrame, Goto
<1>3. CASE CreateSession
  <2>1. \A s \in 1..epoch : s \in Sessions /\ s # nsess + 1
    BY <1>a
  <2>2. \A s \in 1..epoch : sessJob'[s] = sessJob[s] /\ sessStatus'[s] = sessStatus[s]
    BY <1>3, <1>a, <2>1 DEF CreateSession, SessionRows
  <2> QED BY <1>3, <2>2, <1>d, <1>e, <1>g, <1>k DEF CreateSession, WorkerFrame
<1>4. CASE LinkSession
  BY <1>4, <1>d, <1>e, <1>f, <1>i, <1>k DEF LinkSession, WorkerFrame, SetStatus
<1>5. CASE WaitEnds
  BY <1>5, <1>d, <1>e, <1>g, <1>i, <1>k DEF WaitEnds, WorkerFrame, Goto
<1>6. CASE VerifySideEffect
  BY <1>6, <1>d, <1>e, <1>g, <1>i, <1>k DEF VerifySideEffect, WorkerFrame, Goto
<1>7. CASE FinalizeSession
  <2>1. sessJob' = sessJob /\ \E s \in {"completed", "failed"} : sessStatus' = [sessStatus EXCEPT ![sess] = s]
    BY <1>7 DEF FinalizeSession
  <2>2. status' = status /\ UNCHANGED <<epoch, boot, sweepSeen, sweepTodo, restarts, submitted, bootSubmit, bootVerify>>
    BY <1>7 DEF FinalizeSession, WorkerFrame
  <2> QED BY <2>1, <2>2, <1>d, <1>e, <1>g, <1>j, <1>k
<1>8. CASE RecheckRecovery
  BY <1>8, <1>d, <1>e, <1>g, <1>i, <1>k DEF RecheckRecovery, WorkerFrame, Goto
<1>9. CASE RelinkSession
  BY <1>9, <1>d, <1>e, <1>f, <1>i, <1>k DEF RelinkSession, WorkerFrame, SetStatus
<1>10. CASE CompleteSource
  BY <1>10, <1>d, <1>e, <1>f, <1>i, <1>k DEF CompleteSource, WorkerFrame, SetStatus
<1>11. CASE CompleteJob
  BY <1>11, <1>d, <1>e, <1>f, <1>i, <1>k DEF CompleteJob, WorkerReturns, SetStatus
<1>12. CASE CapacityButPosted
  BY <1>12, <1>d, <1>e, <1>g, <1>i, <1>k DEF CapacityButPosted, WorkerFrame, Goto
<1>13. CASE CapacityRetry
  BY <1>13, <1>d, <1>e, <1>f, <1>i, <1>k DEF CapacityRetry, WorkerFrame, SetStatus
<1>14. CASE CapacityExhausted
  BY <1>14, <1>d, <1>e, <1>f, <1>i, <1>k DEF CapacityExhausted, SetStatus
<1>15. CASE FailJob
  BY <1>15, <1>d, <1>e, <1>f, <1>i, <1>k DEF FailJob, WorkerReturns, SetStatus
<1>16. CASE JoinRecovery
  <2>1. /\ cur \in 1..njobs /\ cur \in Jobs /\ stage[cur] \in IssueCommentStages /\ pc # "idle"
        /\ status' = [status EXCEPT ![cur] = "recovering"]
    BY <1>16, <1>a, <1>b DEF JoinRecovery, SetStatus, CanRecover
  <2>2. AwaitsComment'
    <3>1. \A j \in Jobs : status'[j] = "recovering" => status[j] = "recovering" \/ j = cur
      BY <1>a, <2>1 DEF JobRows
    <3> QED BY <1>c, <2>1, <3>1 DEF AwaitsComment
  <2>3. \A j \in 1..njobs : status[j] = "recovering" => status'[j] = "recovering"
    BY <1>a, <2>1 DEF JobRows
  <2> QED BY <1>16, <2>2, <2>3, <1>e, <1>i, <1>k DEF JoinRecovery, WorkerReturns
<1>17. CASE EnqueueRecovery
  BY <1>17, <1>d, <1>e, <1>h, <1>i, <1>k DEF EnqueueRecovery
<1>18. CASE MarkRecovering
  <2>1. /\ cur \in 1..njobs /\ cur \in Jobs /\ stage[cur] \in IssueCommentStages /\ pc # "idle"
        /\ status' = [status EXCEPT ![cur] = "recovering"]
    BY <1>18, <1>a, <1>b DEF MarkRecovering, SetStatus, Rows, RecoveryKinds
  <2>2. AwaitsComment'
    <3>1. \A j \in Jobs : status'[j] = "recovering" => status[j] = "recovering" \/ j = cur
      BY <1>a, <2>1 DEF JobRows
    <3> QED BY <1>c, <2>1, <3>1 DEF AwaitsComment
  <2>3. \A j \in 1..njobs : status[j] = "recovering" => status'[j] = "recovering"
    BY <1>a, <2>1 DEF JobRows
  <2> QED BY <1>18, <2>2, <2>3, <1>e, <1>i, <1>k DEF MarkRecovering, WorkerReturns
<1>19. CASE FailRecovery
  BY <1>19, <1>d, <1>e, <1>f, <1>i, <1>k DEF FailRecovery, WorkerFrame, SetStatus
<1>20. CASE FailSource
  BY <1>20, <1>d, <1>e, <1>f, <1>i, <1>k DEF FailSource, WorkerReturns, SetStatus
<1>21. CASE BootStart
  BY <1>21, <1>d, <1>g, <1>l DEF BootStart
<1>22. CASE BootSubmit
  BY <1>22, <1>d, <1>g, <1>l DEF BootSubmit, BootNext
<1>23. CASE BootVerifySeen
  <2>1. PICK j \in bootVerify : status' = status \/ status' = [status EXCEPT ![source[j]] = "completed"]
    BY <1>23 DEF BootVerifySeen
  <2>2. \A k \in Jobs : status'[k] = "recovering" => status[k] = "recovering"
    BY <1>a, <2>1 DEF JobRows
  <2> QED BY <1>23, <2>2, <1>a, <1>c, <1>d, <1>l DEF BootVerifySeen
<1>24. CASE BootComplete
  <2>1. \A k \in Jobs : status'[k] = "recovering" => status[k] = "recovering"
    BY <1>24, <1>a DEF BootComplete, SetStatus, JobRows
  <2> QED BY <1>24, <2>1, <1>a, <1>c, <1>d, <1>l DEF BootComplete
<1>25. CASE BootRequeue
  <2>1. \A k \in Jobs : status'[k] = "recovering" => status[k] = "recovering"
    BY <1>25, <1>a DEF BootRequeue, SetStatus, JobRows
  <2> QED BY <1>25, <2>1, <1>a, <1>c, <1>d, <1>l DEF BootRequeue
<1>26. CASE BootCloseSession
  BY <1>26, <1>d, <1>g, <1>l DEF BootCloseSession
<1>27. CASE SweepReadSessions
  <2>1. Sweeping'
    BY <1>27, <1>a DEF SweepReadSessions, BootFrame, Sweeping
  <2> QED BY <1>27, <2>1, <1>d, <1>g DEF SweepReadSessions
<1>28. CASE SweepReadJobs
  <2>1. /\ boot = "sweep" /\ boot' = "sweeping" /\ bootSubmit = {} /\ bootVerify = {} /\ Up
        /\ UNCHANGED <<status, sessJob, sessStatus, submitted, source, restarts, epoch>>
        /\ sweepTodo' = {<<s, SessionStatusFor(status[sessJob[s]])>> :
                           s \in {t \in sweepSeen : status[sessJob[t]] \in Terminal}}
    BY <1>28 DEF SweepReadJobs, BootFrame, Up
  <2>2. ASSUME restarts = 0, NEW s \in 1..epoch, sessStatus[s] = "launched"
        PROVE  Excused(s)' \/ \E e \in sweepTodo' : e[1] = s
    <3>1. s \in sweepSeen /\ sessJob[s] \in 1..njobs /\ sessJob[s] \in Jobs
      BY <1>a, <1>c, <2>1, <2>2 DEF Sweeping
    <3>2. CASE status[sessJob[s]] \in Terminal
      <4>1. <<s, SessionStatusFor(status[sessJob[s]])>> \in sweepTodo'
        BY <2>1, <3>1, <3>2
      <4> QED BY <4>1
    <3>3. CASE status[sessJob[s]] = "recovering"
      BY <2>1, <3>3 DEF Excused
    <3>4. CASE status[sessJob[s]] \in Active
      <4>1. sessJob[s] = cur \/ InQueue(sessJob[s])
        BY <1>a, <2>1, <3>1, <3>4 DEF PendingIsServed
      <4>2. sessJob[s] # 0
        BY <1>a, <3>1
      <4>3. sessJob[s] \in submitted
        BY <1>a, <4>1, <4>2 DEF Apart, InQueue
      <4> QED BY <2>1, <4>3 DEF Excused
    <3>5. status[sessJob[s]] # "absent"
      BY <3>1 DEF Rows, RowsThere
    <3> QED BY <1>a, <3>1, <3>2, <3>3, <3>4, <3>5 DEF JobRows, Statuses
  <2>3. Sweeping'
    BY <2>1, <2>2 DEF Sweeping
  <2> QED BY <2>1, <2>3, <1>28, <1>d, <1>g DEF SweepReadJobs
<1>29. CASE SweepSession
  <2>1. PICK e \in sweepTodo : /\ sweepTodo' = sweepTodo \ {e}
                               /\ sessStatus' = [sessStatus EXCEPT ![e[1]] = e[2]]
    <3>1. \A e \in sweepTodo : e[1] # 0
      BY <1>a DEF BootType, Sessions
    <3> QED BY <1>29, <3>1 DEF SweepSession, ReconcileSession
  <2>2. /\ boot = "sweeping" /\ boot' = "sweeping"
        /\ UNCHANGED <<status, sessJob, submitted, source, restarts, epoch, bootSubmit, bootVerify>>
    BY <1>29 DEF SweepSession, BootFrame
  <2>3. e[1] \in Sessions /\ e[2] # "launched"
    BY <1>a DEF BootType
  <2>4. ASSUME restarts = 0, NEW s \in 1..epoch, sessStatus'[s] = "launched"
        PROVE  Excused(s)' \/ \E f \in sweepTodo' : f[1] = s
    <3>1. s \in Sessions /\ s # e[1] /\ sessStatus[s] = "launched"
      BY <1>a, <2>1, <2>3, <2>4 DEF SessionRows
    <3>2. Excused(s) \/ \E f \in sweepTodo : f[1] = s
      BY <2>2, <2>4, <3>1 DEF Sweeping
    <3> QED BY <2>1, <2>2, <3>1, <3>2 DEF Excused
  <2>5. Sweeping'
    BY <2>2, <2>4 DEF Sweeping
  <2> QED BY <2>2, <2>5, <1>d, <1>g
<1>30. CASE BootDone
  <2>1. Sweeping'
    BY <1>30 DEF BootDone, BootFrame, Sweeping, Excused
  <2> QED BY <1>30, <2>1, <1>d, <1>g DEF BootDone
<1>31. CASE RestartBegin
  BY <1>31, <1>a, <1>d, <1>e, <1>g, <1>i, <1>k DEF RestartBegin, RestartFrame
<1>32. CASE RestartSupersede
  <2>1. restarts' # 0 /\ \E j : status' = [status EXCEPT ![j] = "superseded"]
    BY <1>32 DEF RestartSupersede, SetStatus, Rows, NoRestart
  <2>2. \A j \in Jobs : status'[j] = "recovering" => status[j] = "recovering"
    BY <1>a, <2>1 DEF JobRows
  <2> QED BY <1>32, <1>a, <1>c, <1>d, <1>k, <2>1, <2>2 DEF RestartSupersede, RestartFrame, Sweeping
<1>33. CASE RestartCloseSession
  <2>1. /\ sessJob' = sessJob /\ status' = status
        /\ \E t : sessStatus' = sessStatus \/ sessStatus' = [sessStatus EXCEPT ![t] = "failed"]
    BY <1>33 DEF RestartCloseSession, ReconcileSession, RestartFrame
  <2> QED BY <1>33, <2>1, <1>d, <1>e, <1>g, <1>j, <1>k DEF RestartCloseSession, RestartFrame
<1>34. CASE RestartEnqueue
  BY <1>34, <1>d, <1>e, <1>g, <1>h, <1>i, <1>k DEF RestartEnqueue, RestartFrame
<1>35. CASE AgentPost
  BY <1>35, <1>d, <1>e, <1>g, <1>i, <1>k DEF AgentPost
<1>36. CASE Crash
  BY <1>36, <1>d, <1>g, <1>l DEF Crash
<1>37. CASE \E st \in Arrivals : Arrive(st)
  BY <1>37, <1>d, <1>e, <1>h, <1>i, <1>k DEF Arrive, HandlerFrame
<1>38. CASE \E j \in Jobs : PullRequestOpened(j)
  <2>1. PICK j \in prEvents : status' = [status EXCEPT ![j] = "completed"]
    BY <1>38 DEF PullRequestOpened, SetStatus
  <2>2. \A k \in Jobs : status[k] = "recovering" => k # j
    BY <1>b DEF AwaitsComment, IssueCommentStages
  <2>3. \A k \in Jobs : status'[k] = "recovering" <=> status[k] = "recovering"
    BY <1>a, <2>1, <2>2 DEF JobRows
  <2> QED BY <1>38, <2>3, <1>a, <1>c, <1>d, <1>e, <1>i, <1>k DEF PullRequestOpened, HandlerFrame
<1>39. CASE EnqueueReview
  BY <1>39, <1>d, <1>e, <1>h, <1>i, <1>k DEF EnqueueReview, HandlerFrame
<1>40. CASE \E j \in Jobs : LoseEvent(j)
  BY <1>40, <1>d, <1>e, <1>g, <1>i, <1>k DEF LoseEvent, WorldFrame
<1>41. CASE \E e \in orphans : OrphanPosts(e)
  BY <1>41, <1>d, <1>e, <1>g, <1>i, <1>k DEF OrphanPosts, WorldFrame
<1>42. CASE \E e \in orphans : OrphanExits(e)
  BY <1>42, <1>d, <1>e, <1>g, <1>i, <1>k DEF OrphanExits, WorldFrame
<1>43. CASE UNCHANGED vars
  BY <1>43, <1>d, <1>e, <1>g, <1>i, <1>k DEF vars
<1> QED
  BY <1>1, <1>2, <1>3, <1>4, <1>5, <1>6, <1>7, <1>8, <1>9, <1>10, <1>11, <1>12, <1>13, <1>14,
     <1>15, <1>16, <1>17, <1>18, <1>19, <1>20, <1>21, <1>22, <1>23, <1>24, <1>25, <1>26, <1>27,
     <1>28, <1>29, <1>30, <1>31, <1>32, <1>33, <1>34, <1>35, <1>36, <1>37, <1>38, <1>39, <1>40,
     <1>41, <1>42, <1>43 DEF Next, WorkerStep, BootStep, RestartStep

---------------------------------------------------------------------------
(***************************************************************************)
(* The contract.  Where no one overrides a job from outside, a row that    *)
(* someone holds or will reach is open, and a source stays recovering      *)
(* until its recovery job writes it.                                       *)
(***************************************************************************)
NoOverride ==
  /\ MaxRestarts = 0 /\ "implementation" \notin Arrivals /\ RecoveryCrashes = FALSE

IsOpen(j) == status[j] \in Active \cup {"recovering"}

IsSource(j) == \E r \in 1..njobs : stage[r] = RecoveryStage /\ source[r] = j

NoPulls == \A j \in 1..njobs : stage[j] # "implementation"

\* A process that starts finds no recovery job.
NoneAtBoot == boot = "down" => \A r \in 1..njobs : stage[r] # RecoveryStage

\* A recovery job is this process's; its source is in no one's hands but those that
\* just enqueued it, and waits until the recovery job writes it.
Sources ==
  /\ \A r \in 1..njobs : stage[r] = RecoveryStage => r \in submitted
  /\ \A j \in 1..njobs : IsSource(j) =>
       ~InQueue(j) /\ j \notin bootSubmit /\ j \notin bootVerify /\ (j = cur => pc = "markRecovering")
  /\ \A r \in 1..njobs : stage[r] = RecoveryStage /\ source[r] # cur
                         /\ (status[r] \in Active \/ r = cur) /\ ~(r = cur /\ pc = "complete") =>
       status[source[r]] = "recovering"

\* What the worker holds: an open row, or a recovery job's that is already failed.
CurOpen == cur # 0 =>
  \/ IsOpen(cur)
  \/ stage[cur] = RecoveryStage /\ status[cur] = "failed" /\ pc \in {"failed", "failSource"}

HeldOpen ==
  /\ \A j \in 1..njobs : InQueue(j) \/ j \in bootSubmit => IsOpen(j)
  /\ \A j \in bootVerify : IsOpen(j) \/ (boot = "closeCompleted" /\ j = bootJob)
  /\ CurOpen

Kept == NoPulls /\ NoneAtBoot /\ Sources /\ HeldOpen

\* Without restarts and recovery crashes, no action closes a row that someone else holds.
LEMMA KeptStep ==
  ASSUME NoOverride, IInv, Posted, Rows, Single, Swept, Kept, [Next]_vars
  PROVE  Kept'
<1> USE DEF jobVars, sessVars, queueVars, workVars, bootVars, restartVars, worldVars, boundVars
<1>a. /\ TypeInv /\ Apart /\ Settled
      /\ JobRows /\ QueueType /\ WorkerType /\ BootType
      /\ njobs \in Nat /\ 1..njobs \subseteq Jobs /\ 0 \notin 1..njobs
      /\ restarts = 0
  <2>1. TypeInv /\ TypeOK /\ Apart /\ Settled
    BY DEF IInv, TypeInv
  <2>2. /\ JobRows /\ QueueType /\ WorkerType /\ BootType /\ restarts \in 0..MaxRestarts
    BY <2>1 DEF TypeOK, BoundType
  <2>3. /\ njobs \in Nat /\ 1..njobs \subseteq Jobs /\ 0 \notin 1..njobs /\ restarts = 0
    BY <2>2, ConstantsAssumption DEF JobRows, Jobs, NoOverride
  <2> QED BY <2>1, <2>2, <2>3
<1>b. /\ pc # "idle" => cur \in 1..njobs
      /\ pc = "idle" <=> cur = 0
      /\ boot \in {"complete", "closeCompleted", "closeRequeued"} =>
           bootJob \in 1..njobs /\ bootJob \in bootVerify
  BY <1>a, HeldRows DEF TypeInv, Held
<1>c. /\ 1..njobs \subseteq (1..njobs)'
      /\ \A j \in 1..njobs : stage'[j] = stage[j] /\ source'[j] = source[j]
  BY <1>a, RowsStep DEF RowsStay
<1>d. /\ \A r \in 1..njobs : stage[r] = RecoveryStage =>
           source[r] \in 1..njobs /\ stage[source[r]] # RecoveryStage /\ source[r] # r
      /\ \A r, q \in 1..njobs :
           stage[r] = RecoveryStage /\ stage[q] = RecoveryStage /\ source[q] = source[r] => q = r
      /\ restart = "idle" /\ prEvents = {}
      /\ \A j \in 1..njobs : IsSource(j) => stage[j] # RecoveryStage
  <2>1. /\ \A r \in 1..njobs : stage[r] = RecoveryStage =>
             source[r] \in 1..njobs /\ stage[source[r]] # RecoveryStage /\ source[r] # r
    BY DEF Posted, RecoveryRows, IssueCommentStages, RecoveryStage
  <2>2. \A r, q \in 1..njobs :
           stage[r] = RecoveryStage /\ stage[q] = RecoveryStage /\ source[q] = source[r] => q = r
    BY <1>a DEF Single
  <2>3. restart = "idle" /\ prEvents = {}
    BY <1>a DEF Rows, NoRestart, Posted, OpenedRows, Kept, NoPulls
  <2> QED BY <2>1, <2>2, <2>3 DEF IsSource
<1>e. \A j : (InQueue(j) => j \in submitted /\ j # cur /\ j \in 1..njobs)
             /\ (j \in bootSubmit \/ j \in bootVerify => j \notin submitted /\ j \in 1..njobs)
             /\ (j \in bootSubmit => j \notin bootVerify)
             /\ (j = cur /\ j # 0 => j \in submitted)
  <2>1. \A i \in DOMAIN queue : queue[i] \in 1..njobs
    BY <1>a DEF QueueType
  <2> QED BY <1>a, <2>1 DEF Apart, InQueue, BootType
<1>f. njobs' = njobs => /\ NoPulls'
                        /\ \A j : IsSource(j)' <=> IsSource(j)
                        /\ (boot' = boot \/ boot' # "down" => NoneAtBoot')
  BY <1>c DEF Kept, NoPulls, IsSource, NoneAtBoot
\* Nothing but what the worker is about changes.
<1>g. ASSUME UNCHANGED <<njobs, queue, submitted, status, bootSubmit, bootVerify, cur>>,
             (boot' = boot /\ bootJob' = bootJob) \/ (boot \notin {"down", "closeCompleted"} /\ boot' # "down"),
             pc' = pc \/ (pc \notin {"markRecovering", "complete", "failed", "failSource"} /\ cur' # 0)
      PROVE  Kept'
  <2>1. NoPulls' /\ NoneAtBoot' /\ \A j : IsSource(j)' <=> IsSource(j)
    BY <1>f, <1>g
  <2>2. Sources'
    <3>1. \A j \in 1..njobs : IsSource(j)' =>
             ~InQueue(j)' /\ j \notin bootSubmit /\ j \notin bootVerify /\ (j = cur => pc' = "markRecovering")
      BY <1>a, <1>b, <1>g, <2>1 DEF Kept, Sources, InQueue
    <3>2. \A r \in 1..njobs : stage'[r] = RecoveryStage /\ source'[r] # cur
                         /\ (status[r] \in Active \/ r = cur) /\ ~(r = cur /\ pc' = "complete") =>
            status[source'[r]] = "recovering"
      BY <1>a, <1>b, <1>c, <1>g DEF Kept, Sources
    <3> QED BY <1>c, <1>g, <3>1, <3>2 DEF Kept, Sources
  <2>3. HeldOpen'
    <3>1. CurOpen'
      BY <1>a, <1>b, <1>c, <1>g DEF Kept, HeldOpen, CurOpen, IsOpen
    <3> QED BY <1>g, <3>1 DEF Kept, HeldOpen, IsOpen, InQueue
  <2> QED BY <2>1, <2>2, <2>3 DEF Kept
\* The row the worker holds is written, and the worker may be done with it.
<1>h. ASSUME UNCHANGED <<njobs, queue, submitted, boot, bootSubmit, bootVerify, bootJob>>,
             pc \notin {"idle", "markRecovering"},
             NEW s, status' = [status EXCEPT ![cur] = s],
             \/ (s \notin Active /\ cur' = 0)
             \/ (cur' = cur /\ pc # "complete" /\ pc' \notin {"markRecovering", "complete"} /\ CurOpen')
      PROVE  Kept'
  <2>1. NoPulls' /\ NoneAtBoot' /\ \A j : IsSource(j)' <=> IsSource(j)
    BY <1>f, <1>h
  <2>2. cur \in 1..njobs /\ ~IsSource(cur) /\ cur # 0
    BY <1>a, <1>b, <1>h DEF Kept, Sources
  <2>3. status'[cur] = s /\ \A j \in Jobs : j # cur => status'[j] = status[j]
    BY <1>a, <1>h, <2>2 DEF JobRows
  <2>4. Sources'
    <3>1. \A j \in 1..njobs : IsSource(j)' =>
             ~InQueue(j)' /\ j \notin bootSubmit /\ j \notin bootVerify /\ j # cur'
      BY <1>a, <1>h, <2>1, <2>2 DEF Kept, Sources, InQueue
    <3>2. ASSUME NEW r \in 1..njobs, stage[r] = RecoveryStage, source[r] # cur',
                 status'[r] \in Active \/ r = cur', ~(r = cur' /\ pc' = "complete")
          PROVE  status'[source[r]] = "recovering"
      <4>1. source[r] \in 1..njobs /\ source[r] # cur /\ r # 0
        BY <1>a, <1>d, <2>2, <3>2 DEF IsSource
      <4>2. status'[source[r]] = status[source[r]] /\ source[r] # cur
        BY <1>a, <2>3, <4>1
      <4>3. (status[r] \in Active \/ r = cur) /\ ~(r = cur /\ pc = "complete")
        BY <1>a, <1>h, <2>3, <3>2, <4>1
      <4> QED BY <3>2, <4>2, <4>3 DEF Kept, Sources
    <3> QED BY <1>c, <1>h, <3>1, <3>2 DEF Kept, Sources
  <2>5. HeldOpen'
    <3>1. CurOpen'
      BY <1>h DEF CurOpen
    <3>2. \A j \in 1..njobs : InQueue(j)' \/ j \in bootSubmit => status'[j] \in Active \cup {"recovering"}
      BY <1>a, <1>e, <1>h, <2>2, <2>3 DEF Kept, HeldOpen, IsOpen, InQueue
    <3>3. \A j \in bootVerify : status'[j] \in Active \cup {"recovering"}
                                \/ (boot = "closeCompleted" /\ j = bootJob)
      BY <1>a, <1>e, <2>2, <2>3 DEF Kept, HeldOpen, IsOpen
    <3> QED BY <1>h, <3>1, <3>2, <3>3 DEF HeldOpen, IsOpen
  <2> QED BY <2>1, <2>4, <2>5 DEF Kept
\* The source's row is written by the recovery job that has it as its source.
<1>i. ASSUME UNCHANGED <<njobs, queue, submitted, boot, bootSubmit, bootVerify, bootJob>>,
             pc # "idle", stage[cur] = RecoveryStage,
             NEW s, status' = [status EXCEPT ![source[cur]] = s],
             \/ status[cur] \notin Active /\ cur' = 0
             \/ cur' = cur /\ pc = "succeed" /\ pc' = "complete"
      PROVE  Kept'
  <2>1. NoPulls' /\ NoneAtBoot' /\ \A j : IsSource(j)' <=> IsSource(j)
    BY <1>f, <1>i
  <2>2. /\ cur \in 1..njobs /\ source[cur] \in 1..njobs /\ IsSource(source[cur])
        /\ source[cur] # cur /\ cur # 0 /\ ~IsSource(cur)
    BY <1>a, <1>b, <1>d, <1>i DEF IsSource
  <2>3. \A j \in Jobs : j # source[cur] => status'[j] = status[j]
    BY <1>a, <1>i, <2>2 DEF JobRows
  <2>4. Sources'
    <3>1. \A j \in 1..njobs : IsSource(j)' =>
             ~InQueue(j)' /\ j \notin bootSubmit /\ j \notin bootVerify /\ j # cur'
      BY <1>a, <1>i, <2>1, <2>2, <1>d DEF Kept, Sources, InQueue
    <3>2. ASSUME NEW r \in 1..njobs, stage[r] = RecoveryStage, source[r] # cur',
                 status'[r] \in Active \/ r = cur', ~(r = cur' /\ pc' = "complete")
          PROVE  status'[source[r]] = "recovering"
      <4>1. r # source[cur] /\ r \in Jobs /\ r # 0
        BY <1>a, <1>d, <2>2, <3>2
      <4>2. status'[r] = status[r]
        BY <2>3, <4>1
      <4>3. r # cur
        BY <1>i, <3>2, <4>1, <4>2
      <4>4. source[r] # source[cur] /\ source[r] \in Jobs
        BY <1>a, <1>d, <1>i, <2>2, <3>2, <4>3
      <4>5. source[r] # cur
        BY <1>d, <1>i, <3>2
      <4>6. status[source[r]] = "recovering"
        BY <1>i, <3>2, <4>1, <4>2, <4>3, <4>5 DEF Kept, Sources
      <4> QED BY <2>3, <4>4, <4>6
    <3> QED BY <1>c, <1>i, <3>1, <3>2 DEF Kept, Sources
  <2>5. HeldOpen'
    <3>1. CurOpen'
      BY <1>a, <1>c, <1>i, <2>2, <2>3 DEF Kept, HeldOpen, CurOpen, IsOpen
    <3>2. \A j \in 1..njobs : InQueue(j)' \/ j \in bootSubmit => status'[j] \in Active \cup {"recovering"}
      BY <1>a, <1>i, <2>2, <2>3 DEF Kept, Sources, HeldOpen, IsOpen, InQueue
    <3>3. \A j \in bootVerify : status'[j] \in Active \cup {"recovering"}
                                \/ (boot = "closeCompleted" /\ j = bootJob)
      BY <1>a, <1>e, <2>2, <2>3 DEF Kept, Sources, HeldOpen, IsOpen
    <3> QED BY <1>i, <3>1, <3>2, <3>3 DEF HeldOpen, IsOpen
  <2> QED BY <2>1, <2>4, <2>5 DEF Kept
\* A new row is at the end of the queue.
<1>j. ASSUME NEW st, NEW src, CreateJob(st, src), UNCHANGED <<cur, bootSubmit, bootVerify, boot, bootJob>>,
             Up, pc' = pc \/ (pc = "failed" /\ pc' = "markRecovering" /\ stage[cur] # RecoveryStage),
             st # "implementation",
             st = RecoveryStage => src = cur /\ cur \in 1..njobs /\ pc' = "markRecovering"
      PROVE  Kept'
  <2>1. /\ njobs' = njobs + 1 /\ njobs + 1 \notin 1..njobs /\ njobs + 1 \in Jobs
        /\ \A r \in (1..njobs)' : r \in 1..njobs \/ r = njobs + 1
        /\ njobs + 1 \in (1..njobs)' /\ njobs + 1 # 0
    BY <1>a, <1>j, ConstantsAssumption DEF CreateJob, Jobs
  <2>2. /\ stage'[njobs + 1] = st /\ source'[njobs + 1] = src /\ status'[njobs + 1] = "queued"
        /\ \A j \in 1..njobs : status'[j] = status[j]
        /\ queue' = Append(queue, njobs + 1) /\ submitted' = submitted \cup {njobs + 1}
    BY <1>a, <1>j, <2>1 DEF CreateJob, JobRows
  <2>3. \A j : InQueue(j)' <=> InQueue(j) \/ j = njobs + 1
    BY <1>a, <2>2, Appended
  <2>4. NoPulls' /\ NoneAtBoot'
    BY <1>c, <1>j, <2>1, <2>2 DEF Kept, NoPulls, NoneAtBoot, Up
  <2>5. \A j : IsSource(j)' => IsSource(j) \/ (st = RecoveryStage /\ j = cur)
    BY <1>c, <1>j, <2>1, <2>2 DEF IsSource
  <2>6. Sources'
    <3>1. \A r \in (1..njobs)' : stage'[r] = RecoveryStage => r \in submitted'
      BY <1>c, <2>1, <2>2 DEF Kept, Sources
    <3>2. \A j \in 1..njobs : IsSource(j) =>
            ~InQueue(j)' /\ j \notin bootSubmit /\ j \notin bootVerify /\ (j = cur => pc' = "markRecovering")
      BY <1>j, <2>1, <2>3 DEF Kept, Sources
    <3>3. st = RecoveryStage => ~InQueue(cur)' /\ cur \notin bootSubmit /\ cur \notin bootVerify
      BY <1>a, <1>e, <1>j, <2>1, <2>3
    <3>4. \A j \in (1..njobs)' : IsSource(j)' =>
            ~InQueue(j)' /\ j \notin bootSubmit /\ j \notin bootVerify /\ (j = cur => pc' = "markRecovering")
      <4>1. \A j : IsSource(j) => j \in 1..njobs
        BY <1>d DEF IsSource
      <4> QED BY <1>j, <2>5, <3>2, <3>3, <4>1
    <3>5. ASSUME NEW r \in (1..njobs)', stage'[r] = RecoveryStage, source'[r] # cur,
                 status'[r] \in Active \/ r = cur, ~(r = cur /\ pc' = "complete")
          PROVE  status'[source'[r]] = "recovering"
      <4>1. CASE r \in 1..njobs
        <5>1. source'[r] = source[r] /\ source[r] \in 1..njobs /\ stage[r] = RecoveryStage
          BY <1>c, <1>d, <3>5, <4>1
        <5>2. status[r] \in Active \/ r = cur
          BY <2>2, <3>5, <4>1
        <5>3. ~(r = cur /\ pc = "complete")
          BY <1>j, <3>5
        <5>4. status[source[r]] = "recovering"
          BY <3>5, <4>1, <5>1, <5>2, <5>3 DEF Kept, Sources
        <5> QED BY <2>2, <5>1, <5>4
      <4>2. CASE r = njobs + 1
        BY <1>j, <2>2, <3>5, <4>2
      <4> QED BY <2>1, <4>1, <4>2
    <3> QED BY <1>j, <3>1, <3>4, <3>5 DEF Sources
  <2>7. HeldOpen'
    <3>1. CurOpen'
      <4>1. CASE cur = 0
        BY <1>j, <4>1 DEF CurOpen
      <4>2. CASE cur # 0
        <5>1. cur \in 1..njobs
          BY <1>b, <4>2
        <5> QED BY <1>c, <1>j, <2>2, <4>2, <5>1 DEF Kept, HeldOpen, CurOpen, IsOpen
      <4> QED BY <4>1, <4>2
    <3>2. \A j \in (1..njobs)' : InQueue(j)' \/ j \in bootSubmit => status'[j] \in Active \cup {"recovering"}
      <4>1. \A j \in bootSubmit : j \in 1..njobs
        BY <1>e
      <4> QED BY <2>1, <2>2, <2>3, <4>1, <1>e, ActiveValues DEF Kept, HeldOpen, IsOpen
    <3>3. \A j \in bootVerify : status'[j] \in Active \cup {"recovering"}
                                \/ (boot = "closeCompleted" /\ j = bootJob)
      BY <1>e, <2>2 DEF Kept, HeldOpen, IsOpen
    <3> QED BY <1>j, <3>1, <3>2, <3>3 DEF HeldOpen, IsOpen
  <2> QED BY <2>4, <2>6, <2>7 DEF Kept
\* The boot loop takes a row, which is no recovery job's and no source's.
<1>k. ASSUME UNCHANGED <<njobs, cur, pc>>, boot' # "down", submitted \subseteq submitted',
             NEW x \in 1..njobs, x \notin submitted, ~IsSource(x), x # cur,
             \A j \in 1..njobs : InQueue(j)' => InQueue(j) \/ (j = x /\ IsOpen(x)'),
             \A j \in 1..njobs : j # x => status'[j] = status[j],
             bootSubmit' \subseteq bootSubmit, bootVerify' \subseteq bootVerify,
             x \notin bootSubmit',
             \A j \in bootVerify' : IsOpen(j)' \/ (boot' = "closeCompleted" /\ j = bootJob')
      PROVE  Kept'
  <2>1. NoPulls' /\ NoneAtBoot' /\ \A j : IsSource(j)' <=> IsSource(j)
    BY <1>f, <1>k
  <2>2. Sources'
    <3>1. \A j \in 1..njobs : IsSource(j)' =>
             ~InQueue(j)' /\ j \notin bootSubmit' /\ j \notin bootVerify' /\ (j = cur => pc = "markRecovering")
      BY <1>k, <2>1 DEF Kept, Sources
    <3>2. ASSUME NEW r \in 1..njobs, stage[r] = RecoveryStage, source[r] # cur,
                 status'[r] \in Active \/ r = cur, ~(r = cur /\ pc = "complete")
          PROVE  status'[source[r]] = "recovering"
      <4>1. r # x /\ source[r] # x /\ source[r] \in 1..njobs
        BY <1>d, <1>k, <3>2 DEF Kept, Sources, IsSource
      <4>2. status[source[r]] = "recovering"
        BY <1>k, <3>2, <4>1 DEF Kept, Sources
      <4> QED BY <1>k, <4>1, <4>2
    <3>3. \A r \in 1..njobs : stage[r] = RecoveryStage => r \in submitted'
      BY <1>k DEF Kept, Sources
    <3> QED BY <1>c, <1>k, <3>1, <3>2, <3>3 DEF Sources
  <2>3. HeldOpen'
    <3>1. CurOpen'
      <4>1. CASE cur = 0
        BY <1>k, <4>1 DEF CurOpen
      <4>2. CASE cur # 0
        <5>1. cur \in 1..njobs
          BY <1>b, <4>2
        <5> QED BY <1>c, <1>k, <4>2, <5>1 DEF Kept, HeldOpen, CurOpen, IsOpen
      <4> QED BY <4>1, <4>2
    <3>2. \A j \in 1..njobs : InQueue(j)' \/ j \in bootSubmit' => status'[j] \in Active \cup {"recovering"}
      <4>1. SUFFICES ASSUME NEW j \in 1..njobs, InQueue(j)' \/ j \in bootSubmit'
                     PROVE  status'[j] \in Active \cup {"recovering"}
        OBVIOUS
      <4>2. CASE j = x
        BY <1>e, <1>k, <4>1, <4>2 DEF IsOpen
      <4>3. CASE j # x
        BY <1>k, <4>1, <4>3 DEF Kept, HeldOpen, IsOpen
      <4> QED BY <4>2, <4>3
    <3> QED BY <1>k, <3>1, <3>2 DEF HeldOpen, IsOpen
  <2> QED BY <2>1, <2>2, <2>3 DEF Kept
\* A row the boot loop still has to reach.
<1>l. \A x : x \in bootSubmit \/ x \in bootVerify =>
        x \in 1..njobs /\ x \notin submitted /\ ~IsSource(x) /\ x # cur
  BY <1>a, <1>e DEF Kept, Sources
<1> USE DEF Up
<1>1. CASE Dequeue
  <2> DEFINE x == queue[1]
  <2>1. /\ x = Head(queue) /\ InQueue(x) /\ x \in 1..njobs /\ queue' = Tail(queue)
        /\ \A j : InQueue(j)' => InQueue(j)
    <3>1. /\ Len(queue) \in Nat \ {0} /\ DOMAIN queue = 1..Len(queue) /\ Head(queue) = queue[1]
          /\ DOMAIN queue' = 1..(Len(queue) - 1) /\ \A i \in DOMAIN queue' : queue'[i] = queue[i + 1]
          /\ queue' = Tail(queue)
      BY <1>1, <1>a, EmptySeq DEF Dequeue, QueueType
    <3>2. 1 \in DOMAIN queue /\ \A i \in DOMAIN queue' : i + 1 \in DOMAIN queue
      BY <3>1
    <3>3. InQueue(queue[1])
      BY <3>2 DEF InQueue
    <3>4. queue[1] \in 1..njobs
      BY <1>e, <3>3
    <3> QED BY <3>1, <3>2, <3>3, <3>4 DEF InQueue
  <2> HIDE DEF x
  <2>2. IsOpen(x) /\ ~IsSource(x) /\ status[x] # "superseded"
    BY <2>1 DEF Kept, HeldOpen, Sources, IsOpen, Active
  <2>3. /\ UNCHANGED <<njobs, status, submitted, boot, bootSubmit, bootVerify, bootJob>>
        /\ cur' = x /\ pc' = "attempt" /\ cur = 0
    BY <1>1, <1>b, <2>1, <2>2 DEF Dequeue
  <2>4. NoPulls' /\ NoneAtBoot' /\ \A j : IsSource(j)' <=> IsSource(j)
    BY <1>f, <2>3
  <2>5. Sources'
    <3>1. \A j \in 1..njobs : IsSource(j)' =>
             ~InQueue(j)' /\ j \notin bootSubmit /\ j \notin bootVerify /\ j # x
      BY <2>1, <2>2, <2>4 DEF Kept, Sources
    <3>2. ASSUME NEW r \in 1..njobs, stage[r] = RecoveryStage, source[r] # x,
                 status[r] \in Active \/ r = x
          PROVE  status[source[r]] = "recovering"
      <4>1. status[r] \in Active
        <5>1. CASE r = x
          <6>1. status[r] # "recovering" \/ status[r] \in Active
            <7>1. status[r] = "recovering" => stage[r] \in IssueCommentStages
              BY <1>a, <3>2 DEF Swept, AwaitsComment
            <7> QED BY <3>2, <7>1 DEF IssueCommentStages, RecoveryStage
          <6> QED BY <2>2, <5>1, <6>1 DEF IsOpen
        <5> QED BY <3>2, <5>1
      <4>2. source[r] # cur /\ r # cur
        BY <1>a, <1>d, <2>3, <3>2
      <4> QED BY <3>2, <4>1, <4>2 DEF Kept, Sources
    <3> QED BY <1>c, <2>3, <3>1, <3>2 DEF Kept, Sources
  <2>6. HeldOpen'
    <3>1. CurOpen'
      BY <2>2, <2>3 DEF CurOpen, IsOpen
    <3> QED BY <2>1, <2>3, <3>1 DEF Kept, HeldOpen, IsOpen
  <2> QED BY <2>4, <2>5, <2>6 DEF Kept
<1>2. CASE Launch
  BY <1>2, <1>b, <1>g DEF Launch, WorkerFrame, Goto
<1>3. CASE CreateSession
  BY <1>3, <1>b, <1>g DEF CreateSession, WorkerFrame, Goto
<1>4. CASE LinkSession
  <2>1. cur \in Jobs /\ (pc = "failed" => stage[cur] = RecoveryStage)
    BY <1>4, <1>a, <1>b DEF LinkSession, WorkerFrame
  <2>2. CurOpen'
    BY <1>4, <1>a, <1>b, <1>c, <2>1, ActiveValues DEF LinkSession, WorkerFrame, SetStatus, Goto, CurOpen, IsOpen, JobRows
  <2> QED BY <1>4, <2>2, <1>h DEF LinkSession, WorkerFrame, SetStatus, Goto
<1>5. CASE WaitEnds
  BY <1>5, <1>b, <1>g DEF WaitEnds, WorkerFrame, Goto
<1>6. CASE VerifySideEffect
  BY <1>6, <1>b, <1>g DEF VerifySideEffect, WorkerFrame, Goto
<1>7. CASE FinalizeSession
  BY <1>7, <1>b, <1>g DEF FinalizeSession, WorkerFrame, Goto, AfterSession
<1>8. CASE RecheckRecovery
  BY <1>8, <1>b, <1>g DEF RecheckRecovery, WorkerFrame, Goto
<1>9. CASE RelinkSession
  <2>1. cur \in Jobs /\ (pc = "failed" => stage[cur] = RecoveryStage)
    BY <1>9, <1>a, <1>b DEF RelinkSession, WorkerFrame
  <2>2. CurOpen'
    BY <1>9, <1>a, <1>b, <1>c, <2>1, ActiveValues DEF RelinkSession, WorkerFrame, SetStatus, Goto, CurOpen, IsOpen, JobRows
  <2> QED BY <1>9, <2>2, <1>h DEF RelinkSession, WorkerFrame, SetStatus, Goto
<1>10. CASE CompleteSource
  BY <1>10, <1>i DEF CompleteSource, WorkerFrame, Goto
<1>11. CASE CompleteJob
  BY <1>11, <1>h, ActiveValues DEF CompleteJob, WorkerReturns, Done, SetStatus
<1>12. CASE CapacityButPosted
  BY <1>12, <1>b, <1>g DEF CapacityButPosted, WorkerFrame, Goto
<1>13. CASE CapacityRetry
  <2>1. cur \in Jobs /\ (pc = "failed" => stage[cur] = RecoveryStage)
    BY <1>13, <1>a, <1>b DEF CapacityRetry, WorkerFrame
  <2>2. CurOpen'
    BY <1>13, <1>a, <1>b, <1>c, <2>1, ActiveValues DEF CapacityRetry, WorkerFrame, SetStatus, Goto, CurOpen, IsOpen, JobRows
  <2> QED BY <1>13, <2>2, <1>h DEF CapacityRetry, WorkerFrame, SetStatus, Goto
<1>14. CASE CapacityExhausted
  <2>1. CASE stage[cur] # RecoveryStage
    BY <1>14, <2>1, <1>h, ActiveValues DEF CapacityExhausted, Done, SetStatus
  <2>2. CASE stage[cur] = RecoveryStage
    <3>1. CurOpen'
      BY <1>14, <2>2, <1>a, <1>b, <1>c DEF CapacityExhausted, SetStatus, Goto, CurOpen, JobRows
    <3> QED BY <1>14, <2>2, <3>1, <1>h DEF CapacityExhausted, SetStatus, Goto
  <2> QED BY <2>1, <2>2
<1>15. CASE FailJob
  BY <1>15, <1>h, ActiveValues DEF FailJob, WorkerReturns, Done, SetStatus
<1>16. CASE JoinRecovery
  BY <1>16, <1>h, ActiveValues DEF JoinRecovery, WorkerReturns, Done, SetStatus
<1>17. CASE EnqueueRecovery
  <2>1. stage[cur] # RecoveryStage /\ RecoveryStage # "implementation" /\ cur \in 1..njobs
    BY <1>17, <1>b DEF EnqueueRecovery, CanRecover, IssueCommentStages, RecoveryStage
  <2> QED BY <1>17, <2>1, <1>j DEF EnqueueRecovery, Goto
<1>18. CASE MarkRecovering
  <2>1. /\ UNCHANGED <<njobs, queue, submitted, boot, bootSubmit, bootVerify, bootJob>>
        /\ pc' = "idle" /\ cur' = 0 /\ cur \in 1..njobs /\ cur \in Jobs /\ cur # 0
        /\ stage[cur] # RecoveryStage /\ status' = [status EXCEPT ![cur] = "recovering"]
    BY <1>18, <1>a, <1>b DEF MarkRecovering, WorkerReturns, Done, SetStatus, Rows, RecoveryKinds,
                            IssueCommentStages, RecoveryStage
  <2>2. NoPulls' /\ NoneAtBoot' /\ \A j : IsSource(j)' <=> IsSource(j)
    BY <1>f, <2>1
  <2>3. status'[cur] = "recovering" /\ \A j \in Jobs : j # cur => status'[j] = status[j]
    BY <1>a, <2>1 DEF JobRows
  <2>4. Sources'
    <3>1. \A j \in 1..njobs : IsSource(j)' =>
             ~InQueue(j)' /\ j \notin bootSubmit /\ j \notin bootVerify /\ j # cur'
      BY <1>a, <2>1, <2>2 DEF Kept, Sources, InQueue
    <3>2. ASSUME NEW r \in 1..njobs, stage[r] = RecoveryStage, status'[r] \in Active
          PROVE  status'[source[r]] = "recovering"
      <4>1. r # cur /\ r \in Jobs /\ source[r] \in Jobs
        BY <1>a, <1>d, <2>1, <3>2
      <4> QED BY <2>3, <3>2, <4>1 DEF Kept, Sources
    <3>3. \A r \in 1..njobs : r # 0
      BY <1>a
    <3> QED BY <1>c, <2>1, <3>1, <3>2, <3>3 DEF Kept, Sources
  <2>5. HeldOpen'
    <3>1. \A j \in 1..njobs : InQueue(j)' \/ j \in bootSubmit => status'[j] \in Active \cup {"recovering"}
      BY <1>a, <2>1, <2>3 DEF Kept, HeldOpen, IsOpen, InQueue
    <3>2. \A j \in bootVerify : status'[j] \in Active \cup {"recovering"}
                                \/ (boot = "closeCompleted" /\ j = bootJob)
      BY <1>a, <1>e, <2>3 DEF Kept, HeldOpen, IsOpen
    <3> QED BY <2>1, <3>1, <3>2 DEF HeldOpen, IsOpen, CurOpen
  <2> QED BY <2>2, <2>4, <2>5 DEF Kept
<1>19. CASE FailRecovery
  <2>1. cur \in Jobs /\ (pc = "failed" => stage[cur] = RecoveryStage)
    BY <1>19, <1>a, <1>b DEF FailRecovery, WorkerFrame
  <2>2. CurOpen'
    BY <1>19, <1>a, <1>b, <1>c, <2>1, ActiveValues DEF FailRecovery, WorkerFrame, SetStatus, Goto, CurOpen, IsOpen, JobRows
  <2> QED BY <1>19, <2>2, <1>h DEF FailRecovery, WorkerFrame, SetStatus, Goto
<1>20. CASE FailSource
  BY <1>20, <1>a, <1>i DEF FailSource, WorkerReturns, Done, Settled, Rows, RecoveryKinds
<1>21. CASE BootStart
  <2>1. /\ UNCHANGED <<njobs, status, submitted, cur, pc, queue>> /\ cur = 0 /\ queue = <<>>
        /\ bootSubmit' = {j \in 1..njobs : status[j] \in {"queued", "retrying"}}
        /\ bootVerify' = {j \in 1..njobs : status[j] = "launched"}
        /\ boot' = "scan" /\ \A r \in 1..njobs : stage[r] # RecoveryStage
    BY <1>21, <1>a DEF BootStart, BootFrame, Apart, Kept, NoneAtBoot
  <2>2. NoPulls' /\ NoneAtBoot' /\ \A j : ~IsSource(j)' /\ ~InQueue(j)'
    BY <1>f, <2>1 DEF IsSource, InQueue
  <2>3. Sources'
    BY <1>c, <2>1, <2>2 DEF Sources
  <2>4. HeldOpen'
    BY <2>1, <2>2, ActiveValues DEF HeldOpen, CurOpen, IsOpen
  <2> QED BY <2>2, <2>3, <2>4 DEF Kept
<1>22. CASE BootSubmit
  <2>1. PICK x \in bootSubmit : /\ queue' = Append(queue, x) /\ submitted' = submitted \cup {x}
                                /\ bootSubmit' = bootSubmit \ {x}
    BY <1>22 DEF BootSubmit, Submit
  <2>2. /\ UNCHANGED <<njobs, status, cur, pc, bootVerify>> /\ boot = "scan" /\ boot' = "scan"
    BY <1>22 DEF BootSubmit, BootFrame, BootNext
  <2>3. \A j : InQueue(j)' <=> InQueue(j) \/ j = x
    BY <1>a, <2>1, Appended
  <2>4. IsOpen(x)'
    BY <1>l, <2>1, <2>2 DEF Kept, HeldOpen, IsOpen
  <2>5. \A j \in bootVerify : IsOpen(j)'
    BY <2>2 DEF Kept, HeldOpen, IsOpen
  <2> QED BY <2>1, <2>2, <2>3, <2>4, <2>5, <1>k, <1>l
<1>23. CASE BootVerifySeen
  <2>1. PICK x \in bootVerify : stage[x] # RecoveryStage => status' = status
    BY <1>23 DEF BootVerifySeen
  <2>2. /\ UNCHANGED <<njobs, queue, submitted, cur, pc, bootSubmit, bootVerify>>
        /\ boot = "scan" /\ boot' = "complete"
    BY <1>23 DEF BootVerifySeen, BootFrame, BootNext
  <2>3. status' = status
    BY <1>l, <2>1 DEF Kept, Sources
  <2> QED BY <2>2, <2>3, <1>g
<1>24. CASE BootComplete
  <2>1. /\ UNCHANGED <<njobs, queue, submitted, cur, pc, bootSubmit, bootVerify, bootJob>>
        /\ boot = "complete" /\ boot' = "closeCompleted" /\ bootJob \in bootVerify
        /\ status' = [status EXCEPT ![bootJob] = "completed"]
    BY <1>24, <1>b DEF BootComplete, BootFrame, SetStatus
  <2>2. \A j \in 1..njobs : j # bootJob => status'[j] = status[j]
    BY <1>a, <1>l, <2>1 DEF JobRows
  <2>3. \A j \in bootVerify : IsOpen(j)' \/ j = bootJob
    BY <1>l, <2>1, <2>2 DEF Kept, HeldOpen, IsOpen
  <2>4. \A j \in 1..njobs : InQueue(j)' => InQueue(j)
    BY <2>1 DEF InQueue
  <2> QED BY <2>1, <2>2, <2>3, <2>4, <1>e, <1>k, <1>l
<1>25. CASE BootRequeue
  <2>1. PICK x \in bootVerify : status' = [status EXCEPT ![x] = "queued"]
    BY <1>25 DEF BootRequeue, SetStatus
  <2>2. /\ UNCHANGED <<njobs, queue, submitted, cur, pc, bootSubmit, bootVerify>>
        /\ boot = "scan" /\ boot' = "closeRequeued"
    BY <1>25 DEF BootRequeue, BootFrame, BootNext
  <2>3. status'[x] = "queued" /\ \A j \in 1..njobs : j # x => status'[j] = status[j]
    BY <1>a, <1>l, <2>1 DEF JobRows
  <2>4. \A j \in bootVerify : IsOpen(j)'
    BY <1>l, <2>1, <2>2, <2>3, ActiveValues DEF Kept, HeldOpen, IsOpen
  <2>5. \A j \in 1..njobs : InQueue(j)' => InQueue(j)
    BY <2>2 DEF InQueue
  <2> QED BY <2>1, <2>2, <2>3, <2>4, <2>5, <1>e, <1>k, <1>l
<1>26. CASE BootCloseSession
  <2>1. /\ UNCHANGED <<njobs, status, cur, pc, bootSubmit>>
        /\ boot \in {"closeCompleted", "closeRequeued"} /\ boot' = "scan" /\ bootJob \in bootVerify
        /\ bootVerify' = bootVerify \ {bootJob}
        /\ \/ boot = "closeRequeued" /\ queue' = Append(queue, bootJob)
              /\ submitted' = submitted \cup {bootJob}
           \/ UNCHANGED <<queue, submitted>>
    BY <1>26, <1>b DEF BootCloseSession, BootFrame, Submit
  <2>2. \A j \in 1..njobs : InQueue(j)' => InQueue(j) \/ (j = bootJob /\ boot = "closeRequeued")
    BY <1>a, <2>1, Appended DEF InQueue
  <2>3. boot = "closeRequeued" => IsOpen(bootJob)
    BY <2>1 DEF Kept, HeldOpen
  <2>4. \A j \in bootVerify' : IsOpen(j)'
    BY <2>1 DEF Kept, HeldOpen, IsOpen
  <2>5. ASSUME NEW x, x = bootJob, boot = "closeRequeued" PROVE IsOpen(x)'
    BY <2>1, <2>3, <2>5 DEF IsOpen
  <2> QED BY <2>1, <2>2, <2>4, <2>5, <1>e, <1>k, <1>l
<1>27. CASE SweepReadSessions
  BY <1>27, <1>b, <1>g DEF SweepReadSessions, BootFrame
<1>28. CASE SweepReadJobs
  BY <1>28, <1>b, <1>g DEF SweepReadJobs, BootFrame, SessionStatusFor
<1>29. CASE SweepSession
  BY <1>29, <1>b, <1>g DEF SweepSession, BootFrame, ReconcileSession
<1>30. CASE BootDone
  BY <1>30, <1>b, <1>g DEF BootDone, BootFrame
<1>31. CASE RestartBegin
  BY <1>31, <1>a DEF RestartBegin, NoOverride
<1>32. CASE RestartSupersede
  BY <1>32, <1>d DEF RestartSupersede
<1>33. CASE RestartCloseSession
  BY <1>33, <1>d DEF RestartCloseSession
<1>34. CASE RestartEnqueue
  BY <1>34, <1>d DEF RestartEnqueue
<1>35. CASE AgentPost
  BY <1>35, <1>b, <1>g DEF AgentPost
<1>36. CASE Crash
  <2>1. /\ njobs' = njobs /\ boot' = "down" /\ cur' = 0 /\ queue' = <<>>
        /\ bootSubmit' = {} /\ bootVerify' = {} /\ \A r \in Jobs : stage[r] # RecoveryStage
    BY <1>36 DEF Crash, Done, NoOverride
  <2>2. \A r \in 1..njobs : stage'[r] # RecoveryStage
    BY <1>a, <1>c, <2>1
  <2>3. \A j : ~IsSource(j)' /\ ~InQueue(j)'
    BY <2>1, <2>2 DEF IsSource, InQueue
  <2> QED BY <1>f, <2>1, <2>2, <2>3 DEF Kept, NoneAtBoot, Sources, HeldOpen, CurOpen
<1>37. CASE \E st \in Arrivals : Arrive(st)
  <2>1. PICK st \in Arrivals : Arrive(st)
    BY <1>37
  <2>2. st # RecoveryStage /\ st # "implementation"
    BY ConstantsAssumption DEF NoOverride
  <2> QED BY <2>1, <2>2, <1>j DEF Arrive, HandlerFrame, Serving
<1>38. CASE \E j \in Jobs : PullRequestOpened(j)
  BY <1>38, <1>d DEF PullRequestOpened
<1>39. CASE EnqueueReview
  BY <1>39, <1>j DEF EnqueueReview, HandlerFrame, Serving, RecoveryStage
<1>40. CASE \E j \in Jobs : LoseEvent(j)
  BY <1>40, <1>b, <1>g DEF LoseEvent, WorldFrame
<1>41. CASE \E e \in orphans : OrphanPosts(e)
  BY <1>41, <1>b, <1>g DEF OrphanPosts, WorldFrame
<1>42. CASE \E e \in orphans : OrphanExits(e)
  BY <1>42, <1>b, <1>g DEF OrphanExits, WorldFrame
<1>43. CASE UNCHANGED vars
  BY <1>43, <1>b, <1>g DEF vars
<1> QED
  BY <1>1, <1>2, <1>3, <1>4, <1>5, <1>6, <1>7, <1>8, <1>9, <1>10, <1>11, <1>12, <1>13, <1>14,
     <1>15, <1>16, <1>17, <1>18, <1>19, <1>20, <1>21, <1>22, <1>23, <1>24, <1>25, <1>26, <1>27,
     <1>28, <1>29, <1>30, <1>31, <1>32, <1>33, <1>34, <1>35, <1>36, <1>37, <1>38, <1>39, <1>40,
     <1>41, <1>42, <1>43 DEF Next, WorkerStep, BootStep, RestartStep

---------------------------------------------------------------------------
(***************************************************************************)
(* Every step is one of the contract's.                                    *)
(***************************************************************************)

\* How the statuses look to the rest of the system.
LEMMA PhaseValues ==
  /\ \A s \in Active \cup {"recovering"} : PhaseOf(s) = "open"
  /\ PhaseOf("completed") = "done" /\ PhaseOf("failed") = "failed"
  /\ \A s \in Statuses : PhaseOf(s) = "absent" <=> s = "absent"
  /\ PhaseOf("absent") = "absent"
  BY DEF PhaseOf, Active, Statuses, Terminal

\* The job whose comment row j waits for.
Target(j) == IF stage[j] = RecoveryStage THEN source[j] ELSE j

\* Without pull requests, a row's effect is a comment.
LEMMA EffectIs ==
  JobRows /\ RowsThere /\ NoPulls =>
    /\ Effect \in [Jobs -> BOOLEAN]
    /\ \A j \in Jobs : Effect[j] <=> j \in 1..njobs /\ comments[Target(j)] > 0
<1> SUFFICES ASSUME JobRows, RowsThere, NoPulls
             PROVE  /\ Effect \in [Jobs -> BOOLEAN]
                    /\ \A j \in Jobs : Effect[j] <=> j \in 1..njobs /\ comments[Target(j)] > 0
  OBVIOUS
<1>1. \A t : Seen(<<t, "comment">>) <=> comments[t] > 0
  BY DEF Seen
<1>2. Effect \in [Jobs -> BOOLEAN]
  BY DEF Effect
<1>3. \A j \in 1..njobs : EffectOf(j, FALSE) = <<Target(j), "comment">>
  BY DEF EffectOf, Target, NoPulls
<1>4. \A j \in 1..njobs : Seen(EffectOf(j, FALSE)) <=> comments[Target(j)] > 0
  BY <1>1, <1>3
<1>5. \A j \in Jobs : Effect[j] <=> status[j] # "absent" /\ Seen(EffectOf(j, FALSE))
  BY DEF Effect
<1>6. \A j \in Jobs : status[j] # "absent" <=> j \in 1..njobs
  BY DEF RowsThere
<1> QED BY <1>2, <1>4, <1>5, <1>6

\* What was seen of a row is its effect.
LEMMA ShownEffect ==
  ASSUME JobRows, RowsThere, NoPulls, NEW j \in 1..njobs, Shown(j)
  PROVE  Effect[j]
<1>1. j \in Jobs
  BY ConstantsAssumption DEF JobRows, Jobs
<1>2. PICK k \in BOOLEAN : Seen(EffectOf(j, k))
  BY DEF Shown
<1>3. EffectOf(j, k) = <<Target(j), "comment">>
  BY DEF EffectOf, Target, NoPulls
<1>4. comments[Target(j)] > 0
  BY <1>2, <1>3 DEF Seen
<1> QED BY <1>1, <1>4, EffectIs

\* Without overrides, every step of the service is a step of the contract.
LEMMA ContractStep ==
  ASSUME NoOverride, IInv, IInv', Posted, Rows, Rows', Single, Swept, Kept, Kept', [Next]_vars
  PROVE  [Contract!Next]_(Contract!vars)
<1> USE DEF jobVars, sessVars, queueVars, workVars, bootVars, restartVars, worldVars, boundVars
<1>a. /\ TypeInv /\ JobRows /\ JobRows' /\ njobs \in Nat /\ 1..njobs \subseteq Jobs /\ 0 \notin 1..njobs
      /\ RowsThere /\ RowsThere' /\ NoPulls /\ NoPulls' /\ restarts = 0 /\ BootType
  <2>1. TypeOK /\ TypeOK' /\ TypeInv
    BY DEF IInv, TypeInv
  <2>2. JobRows /\ JobRows' /\ restarts \in 0..MaxRestarts /\ BootType
    BY <2>1 DEF TypeOK, BoundType
  <2>3. njobs \in Nat /\ 1..njobs \subseteq Jobs /\ 0 \notin 1..njobs /\ restarts = 0
    BY <2>2, ConstantsAssumption DEF JobRows, Jobs, NoOverride
  <2> QED BY <2>1, <2>2, <2>3 DEF Rows, Kept
<1>b. /\ pc # "idle" => cur \in 1..njobs /\ cur \in Jobs /\ cur # 0
      /\ boot \in {"complete", "closeCompleted", "closeRequeued"} =>
           bootJob \in 1..njobs /\ bootJob \in bootVerify
      /\ restart = "idle" /\ prEvents = {}
      /\ \A x \in bootVerify : x \in 1..njobs /\ stage[x] # RecoveryStage
      /\ \A r \in 1..njobs : stage[r] = RecoveryStage =>
           source[r] \in 1..njobs /\ source[r] # r
  <2>1. restart = "idle" /\ prEvents = {}
    BY <1>a DEF Rows, NoRestart, Posted, OpenedRows, NoPulls
  <2>2. \A x \in bootVerify : x \in 1..njobs /\ stage[x] # RecoveryStage
    BY <1>a DEF BootType, IInv, Apart, Kept, Sources
  <2>3. \A r \in 1..njobs : stage[r] = RecoveryStage => source[r] \in 1..njobs /\ source[r] # r
    BY DEF Posted, RecoveryRows, IssueCommentStages, RecoveryStage
  <2> QED BY <1>a, <2>1, <2>2, <2>3, HeldRows DEF TypeInv, Held
<1>c. /\ 1..njobs \subseteq (1..njobs)'
      /\ \A j \in 1..njobs : stage'[j] = stage[j] /\ source'[j] = source[j]
      /\ \A t \in Jobs : comments[t] > 0 => comments'[t] > 0
  BY <1>a, RowsStep DEF RowsStay
<1>d. /\ Effect \in [Jobs -> BOOLEAN] /\ Effect' \in [Jobs -> BOOLEAN]
      /\ \A j \in Jobs : Effect[j] <=> j \in 1..njobs /\ comments[Target(j)] > 0
      /\ \A j \in Jobs : Effect'[j] <=> j \in (1..njobs)' /\ comments'[Target(j)'] > 0
  <2>1. (JobRows /\ RowsThere /\ NoPulls =>
          /\ Effect \in [Jobs -> BOOLEAN]
          /\ \A j \in Jobs : Effect[j] <=> j \in 1..njobs /\ comments[Target(j)] > 0)'
    BY EffectIs, PTL
  <2> QED BY <1>a, <2>1, EffectIs
<1>e. /\ \A j \in 1..njobs : Target(j)' = Target(j) /\ Target(j) \in Jobs
      /\ \A j \in Jobs : Effect[j] => Effect'[j]
  <2>1. \A j \in 1..njobs : Target(j)' = Target(j) /\ Target(j) \in Jobs
    BY <1>a, <1>b, <1>c DEF Target
  <2> QED BY <1>c, <1>d, <2>1
<1>f. /\ Phase = [j \in Jobs |-> PhaseOf(status[j])] /\ Phase' = [j \in Jobs |-> PhaseOf(status'[j])]
      /\ \A j \in Jobs : j \in 1..njobs <=> Phase[j] # "absent"
  BY <1>a, PhaseValues DEF Phase, RowsThere, JobRows
\* No row opens or ends.
<1>g. ASSUME njobs' = njobs, \A j \in 1..njobs : PhaseOf(status'[j]) = PhaseOf(status[j])
      PROVE  Contract!Next
  <2>1. Phase' = Phase
    <3>1. \A j \in Jobs : j \notin 1..njobs => status'[j] = "absent" /\ status[j] = "absent"
      BY <1>a, <1>g DEF RowsThere
    <3>2. \A j \in Jobs : PhaseOf(status'[j]) = PhaseOf(status[j])
      BY <1>g, <3>1
    <3> QED BY <1>f, <3>2
  <2> DEFINE E == {j \in Jobs : Phase[j] # "absent" /\ Effect'[j]}
  <2>2. \A j \in Jobs : Effect'[j] = (Effect[j] \/ j \in E)
    BY <1>d, <1>e, <1>f, <1>g
  <2>3. Effect' = [j \in Jobs |-> Effect[j] \/ j \in E]
    <3>1. [j \in Jobs |-> Effect[j] \/ j \in E] = [j \in Jobs |-> Effect'[j]]
      BY <2>2
    <3>2. Effect' = [j \in Jobs |-> Effect'[j]]
      BY <1>d
    <3> QED BY <3>1, <3>2
  <2>4. E \in SUBSET {j \in Jobs : Phase[j] # "absent"}
    OBVIOUS
  <2> HIDE DEF E
  <2> QED BY <2>1, <2>3, <2>4 DEF Contract!Next, Contract!Appear
\* A row ends, and GitHub stays as it is.
<1>h. ASSUME NEW t \in 1..njobs, IsOpen(t), NEW s \in {"completed", "failed"},
             status' = [status EXCEPT ![t] = s], s = "completed" => Shown(t),
             UNCHANGED <<njobs, comments>>
      PROVE  Contract!Next
  <2>1. t \in Jobs /\ Phase[t] = "open"
    BY <1>a, <1>f, <1>h, PhaseValues DEF IsOpen
  <2>2. \A j \in Jobs : status'[j] = IF j = t THEN s ELSE status[j]
    BY <1>a, <1>h DEF JobRows
  <2>3. Phase' = [Phase EXCEPT ![t] = PhaseOf(s)]
    BY <1>f, <2>1, <2>2
  <2>4. Effect' = Effect
    <3>1. \A j \in Jobs : Effect'[j] = Effect[j]
      BY <1>d, <1>e, <1>h
    <3>2. Effect' = [j \in Jobs |-> Effect'[j]] /\ Effect = [j \in Jobs |-> Effect[j]]
      BY <1>d
    <3>3. [j \in Jobs |-> Effect'[j]] = [j \in Jobs |-> Effect[j]]
      BY <3>1
    <3> QED BY <3>2, <3>3
  <2>5. CASE s = "completed"
    <3>1. Effect[t]
      BY <1>a, <1>h, <2>5, ShownEffect
    <3>2. Contract!Finish(t)
      BY <2>1, <2>3, <2>4, <2>5, <3>1, PhaseValues DEF Contract!Finish
    <3> QED BY <2>1, <3>2 DEF Contract!Next
  <2>6. CASE s = "failed"
    <3>1. Contract!GiveUp(t)
      BY <2>1, <2>3, <2>4, <2>6, PhaseValues DEF Contract!GiveUp
    <3> QED BY <2>1, <3>1 DEF Contract!Next
  <2> QED BY <2>5, <2>6
\* A new row opens, its comment being there or not.
<1>i. ASSUME NEW st, NEW src, CreateJob(st, src), UNCHANGED comments
      PROVE  Contract!Next
  <2> DEFINE n == njobs + 1
  <2>1. /\ n \in Jobs /\ n \notin 1..njobs /\ njobs' = n
        /\ \A j \in Jobs : j \in (1..njobs)' <=> j \in 1..njobs \/ j = n
    BY <1>a, <1>i, ConstantsAssumption DEF CreateJob, Jobs
  <2>2. \A j \in Jobs : status'[j] = IF j = n THEN "queued" ELSE status[j]
    BY <1>a, <1>i, <2>1 DEF CreateJob, JobRows
  <2>3. Phase[n] = "absent" /\ Phase' = [Phase EXCEPT ![n] = "open"]
    BY <1>f, <2>1, <2>2, PhaseValues, ActiveValues
  <2>4. \A j \in Jobs : j # n => Effect'[j] = Effect[j]
    BY <1>d, <1>e, <1>i, <2>1
  <2>5. Effect[n] = FALSE /\ Effect'[n] \in BOOLEAN
    BY <1>d, <2>1
  <2>6. Effect' \in {Effect, [Effect EXCEPT ![n] = TRUE]}
    <3>1. CASE Effect'[n] = FALSE
      <4>1. \A j \in Jobs : Effect'[j] = Effect[j]
        BY <2>4, <2>5, <3>1
      <4>2. Effect' = [j \in Jobs |-> Effect'[j]] /\ Effect = [j \in Jobs |-> Effect[j]]
        BY <1>d
      <4>3. [j \in Jobs |-> Effect'[j]] = [j \in Jobs |-> Effect[j]]
        BY <4>1
      <4> QED BY <4>2, <4>3
    <3>2. CASE Effect'[n] = TRUE
      <4>1. Effect' = [j \in Jobs |-> Effect'[j]]
        BY <1>d
      <4>2. [Effect EXCEPT ![n] = TRUE] = [j \in Jobs |-> IF j = n THEN TRUE ELSE Effect[j]]
        BY <1>d
      <4>3. \A j \in Jobs : Effect'[j] = IF j = n THEN TRUE ELSE Effect[j]
        BY <2>4, <3>2
      <4>4. [j \in Jobs |-> Effect'[j]] = [j \in Jobs |-> IF j = n THEN TRUE ELSE Effect[j]]
        BY <4>3
      <4> QED BY <4>1, <4>2, <4>4
    <3> QED BY <2>5, <3>1, <3>2
  <2> HIDE DEF n
  <2>7. Contract!Open(n)
    BY <2>3, <2>6 DEF Contract!Open
  <2> QED BY <2>1, <2>7 DEF Contract!Next
\* An open row stays open.
<1>j. ASSUME NEW t \in 1..njobs, IsOpen(t), NEW s \in Active \cup {"recovering"},
             status' = [status EXCEPT ![t] = s], njobs' = njobs
      PROVE  Contract!Next
  <2>1. \A j \in 1..njobs : PhaseOf(status'[j]) = PhaseOf(status[j])
    BY <1>a, <1>j, PhaseValues DEF IsOpen, JobRows
  <2> QED BY <1>g, <1>j, <2>1
<1>k. /\ pc \notin {"idle", "failed", "failSource"} => IsOpen(cur)
      /\ pc = "failed" /\ stage[cur] # RecoveryStage => IsOpen(cur)
      /\ pc \in {"succeed", "failSource"} /\ stage[cur] = RecoveryStage => IsOpen(source[cur])
      /\ boot # "closeCompleted" => \A x \in bootVerify : IsOpen(x)
      /\ pc \in {"succeed", "complete"} => Shown(cur)
      /\ boot = "complete" => Shown(bootJob)
  BY <1>b DEF Kept, HeldOpen, CurOpen, Sources, IsOpen, Posted, WorkerSaw, BootSaw
<1>1. CASE Dequeue
  BY <1>1, <1>g DEF Dequeue
<1>2. CASE Launch
  BY <1>2, <1>g DEF Launch, WorkerFrame, Goto
<1>3. CASE CreateSession
  BY <1>3, <1>g DEF CreateSession, WorkerFrame, Goto
<1>4. CASE LinkSession
  BY <1>4, <1>b, <1>j, <1>k, ActiveValues DEF LinkSession, WorkerFrame, SetStatus
<1>5. CASE WaitEnds
  BY <1>5, <1>g DEF WaitEnds, WorkerFrame, Goto
<1>6. CASE VerifySideEffect
  BY <1>6, <1>g DEF VerifySideEffect, WorkerFrame, Goto
<1>7. CASE FinalizeSession
  BY <1>7, <1>g DEF FinalizeSession, WorkerFrame, Goto, AfterSession
<1>8. CASE RecheckRecovery
  BY <1>8, <1>g DEF RecheckRecovery, WorkerFrame, Goto
<1>9. CASE RelinkSession
  BY <1>9, <1>b, <1>j, <1>k, ActiveValues DEF RelinkSession, WorkerFrame, SetStatus
<1>10. CASE CompleteSource
  <2>1. /\ source[cur] \in 1..njobs /\ IsOpen(source[cur]) /\ Shown(source[cur])
        /\ status' = [status EXCEPT ![source[cur]] = "completed"] /\ UNCHANGED <<njobs, comments>>
    BY <1>10, <1>b, <1>k, SourceShown DEF CompleteSource, WorkerFrame, Posted
  <2> QED BY <1>h, <2>1
<1>11. CASE CompleteJob
  BY <1>11, <1>b, <1>h, <1>k DEF CompleteJob, WorkerReturns, SetStatus
<1>12. CASE CapacityButPosted
  BY <1>12, <1>g DEF CapacityButPosted, WorkerFrame, Goto
<1>13. CASE CapacityRetry
  BY <1>13, <1>b, <1>j, <1>k, ActiveValues DEF CapacityRetry, WorkerFrame, SetStatus
<1>14. CASE CapacityExhausted
  BY <1>14, <1>b, <1>h, <1>k DEF CapacityExhausted, Done, SetStatus
<1>15. CASE FailJob
  BY <1>15, <1>b, <1>h, <1>k DEF FailJob, WorkerReturns, SetStatus
<1>16. CASE JoinRecovery
  BY <1>16, <1>b, <1>j, <1>k, ActiveValues DEF JoinRecovery, WorkerReturns, CanRecover, IssueCommentStages, RecoveryStage, SetStatus
<1>17. CASE EnqueueRecovery
  BY <1>17, <1>i DEF EnqueueRecovery
<1>18. CASE MarkRecovering
  BY <1>18, <1>b, <1>j, <1>k, ActiveValues DEF MarkRecovering, WorkerReturns, SetStatus
<1>19. CASE FailRecovery
  <2>1. /\ cur \in 1..njobs /\ status' = [status EXCEPT ![cur] = "failed"] /\ UNCHANGED <<njobs, comments>>
        /\ IsOpen(cur) \/ status[cur] = "failed"
    BY <1>19, <1>b DEF FailRecovery, WorkerFrame, SetStatus, Kept, HeldOpen, CurOpen
  <2>2. CASE IsOpen(cur)
    BY <1>h, <2>1, <2>2
  <2>3. CASE status[cur] = "failed"
    <3>1. \A j \in 1..njobs : status'[j] = status[j]
      BY <1>a, <2>1, <2>3 DEF JobRows
    <3> QED BY <1>g, <2>1, <3>1
  <2> QED BY <2>1, <2>2, <2>3
<1>20. CASE FailSource
  <2>1. /\ source[cur] \in 1..njobs /\ IsOpen(source[cur])
        /\ status' = [status EXCEPT ![source[cur]] = "failed"] /\ UNCHANGED <<njobs, comments>>
    BY <1>20, <1>b, <1>k DEF FailSource, Rows, RecoveryKinds
  <2> QED BY <1>h, <2>1
<1>21. CASE BootStart
  BY <1>21, <1>g DEF BootStart, BootFrame
<1>22. CASE BootSubmit
  BY <1>22, <1>g DEF BootSubmit, BootFrame, BootNext
<1>23. CASE BootVerifySeen
  <2>1. njobs' = njobs /\ status' = status
    BY <1>23, <1>b DEF BootVerifySeen
  <2> QED BY <1>g, <2>1
<1>24. CASE BootComplete
  BY <1>24, <1>b, <1>h, <1>k DEF BootComplete, SetStatus
<1>25. CASE BootRequeue
  BY <1>25, <1>b, <1>j, <1>k, ActiveValues DEF BootRequeue, BootNext, SetStatus
<1>26. CASE BootCloseSession
  BY <1>26, <1>g DEF BootCloseSession, BootFrame, ReconcileSession
<1>27. CASE SweepReadSessions
  BY <1>27, <1>g DEF SweepReadSessions, BootFrame
<1>28. CASE SweepReadJobs
  BY <1>28, <1>g DEF SweepReadJobs, BootFrame, SessionStatusFor
<1>29. CASE SweepSession
  BY <1>29, <1>g DEF SweepSession, BootFrame, ReconcileSession
<1>30. CASE BootDone
  BY <1>30, <1>g DEF BootDone, BootFrame
<1>31. CASE RestartBegin
  BY <1>31, <1>a DEF RestartBegin, NoOverride
<1>32. CASE RestartSupersede
  BY <1>32, <1>b DEF RestartSupersede
<1>33. CASE RestartCloseSession
  BY <1>33, <1>b DEF RestartCloseSession
<1>34. CASE RestartEnqueue
  BY <1>34, <1>b DEF RestartEnqueue
<1>35. CASE AgentPost
  BY <1>35, <1>g DEF AgentPost
<1>36. CASE Crash
  BY <1>36, <1>g DEF Crash, Done
<1>37. CASE \E st \in Arrivals : Arrive(st)
  BY <1>37, <1>i DEF Arrive, HandlerFrame
<1>38. CASE \E j \in Jobs : PullRequestOpened(j)
  BY <1>38, <1>b DEF PullRequestOpened
<1>39. CASE EnqueueReview
  BY <1>39, <1>i DEF EnqueueReview, HandlerFrame
<1>40. CASE \E j \in Jobs : LoseEvent(j)
  BY <1>40, <1>g DEF LoseEvent, WorldFrame
<1>41. CASE \E e \in orphans : OrphanPosts(e)
  BY <1>41, <1>g DEF OrphanPosts, WorldFrame
<1>42. CASE \E e \in orphans : OrphanExits(e)
  BY <1>42, <1>g DEF OrphanExits, WorldFrame
<1>43. CASE UNCHANGED vars
  BY <1>43, <1>g DEF vars
<1> QED
  BY <1>1, <1>2, <1>3, <1>4, <1>5, <1>6, <1>7, <1>8, <1>9, <1>10, <1>11, <1>12, <1>13, <1>14,
     <1>15, <1>16, <1>17, <1>18, <1>19, <1>20, <1>21, <1>22, <1>23, <1>24, <1>25, <1>26, <1>27,
     <1>28, <1>29, <1>30, <1>31, <1>32, <1>33, <1>34, <1>35, <1>36, <1>37, <1>38, <1>39, <1>40,
     <1>41, <1>42, <1>43 DEF Next, WorkerStep, BootStep, RestartStep

---------------------------------------------------------------------------
(***************************************************************************)
(* The theorems.                                                           *)
(***************************************************************************)
RInv == IInv /\ Posted /\ Rows /\ FirstBoot /\ Waiting /\ Single /\ Swept

\* A repository starts with no row, no session and nothing superseded.
LEMMA InitRecovery == Init => Rows /\ FirstBoot /\ Waiting /\ Single /\ Swept
<1> SUFFICES ASSUME Init PROVE Rows /\ FirstBoot /\ Waiting /\ Single /\ Swept
  OBVIOUS
<1>1. 1..0 = {} /\ njobs = 0 /\ nsess = 0 /\ epoch = 0 /\ pc = "idle"
  BY DEF Init
<1>2. \A j \in Jobs : status[j] = "absent"
  BY DEF Init
<1>3. Rows
  BY <1>1, <1>2 DEF Init, Rows, RowsThere, RecoveryKinds, NoRestart
<1>4. FirstBoot /\ Waiting /\ Single
  BY <1>1, <1>2 DEF Init, FirstBoot, Waiting, Single
<1>5. Swept
  BY <1>1, <1>2 DEF Init, Swept, AwaitsComment, Sweeping
<1> QED BY <1>3, <1>4, <1>5

\* What the theorems follow from.
LEMMA RecoveryInvariance == Spec => []RInv
<1>1. Init => Rows /\ FirstBoot /\ Waiting /\ Single /\ Swept
  BY InitRecovery
<1>2. IInv /\ IInv' /\ Posted /\ Rows /\ FirstBoot /\ Waiting /\ Single /\ Swept /\ [Next]_vars =>
        Rows' /\ FirstBoot' /\ Waiting' /\ Single' /\ Swept'
  BY RowsThereStep, WaitingStep, SingleStep, SweptStep DEF IInv
<1> QED BY <1>1, <1>2, Invariance, OutcomeInvariance, PTL DEF Spec, RInv

\* A superseded job is never picked up again, and only what was at it already changes
\* its row.
THEOREM SupersededGone == Spec => SupersededLeavesQueue
<1>1. RInv /\ [Next]_vars =>
        [\A j \in Jobs : status[j] = "superseded" =>
           /\ cur' = j => cur = j
           /\ status'[j] # "superseded" =>
                \/ Up /\ cur # 0 /\ (j = cur \/ j = source[cur])
                \/ j \in prEvents
                \/ bootJob' # 0 /\ (j = bootJob' \/ j = source[bootJob'])]_vars
  BY SupersededStep DEF RInv, IInv, LetGo, MayWrite
<1> QED BY <1>1, RecoveryInvariance, PTL DEF Spec, SupersededLeavesQueue

\* Without crashes and restarts, a source job waits only for a recovery job that is
\* pending, or whose worker is about to write the source's own outcome.
THEOREM RecoveringServed == Spec => []RecoveringIsServed
<1>1. RInv => RecoveringIsServed
  BY DEF RInv, Waiting, Served, RecoveringIsServed
<1> QED BY <1>1, RecoveryInvariance, PTL

\* Without restarts, a missing comment gets one recovery job, whatever crashes.
THEOREM RecoveredOnce == Spec => []OneRecoveryPerSource
<1>1. RInv => OneRecoveryPerSource
  <2>1. SUFFICES ASSUME RInv, restarts = 0, NEW j \in Jobs
                 PROVE  Cardinality(RecoveriesOf(j)) <= MaxRecoveryAttempts
    BY DEF OneRecoveryPerSource
  <2>2. \A p, q \in RecoveriesOf(j) : p = q
    BY <2>1 DEF RInv, Single, RecoveriesOf
  <2>3. CASE RecoveriesOf(j) = {}
    BY <2>3, FS_EmptySet DEF MaxRecoveryAttempts
  <2>4. CASE RecoveriesOf(j) # {}
    <3>1. PICK r : RecoveriesOf(j) = {r}
      BY <2>2, <2>4
    <3>2. Cardinality({r}) = 1
      BY FS_Singleton
    <3>3. Cardinality(RecoveriesOf(j)) = 1
      BY <3>1, <3>2
    <3> QED BY <3>3 DEF MaxRecoveryAttempts
  <2> QED BY <2>3, <2>4
<1> QED BY <1>1, RecoveryInvariance, PTL

\* Once a process serves, and nothing was superseded, a session an earlier process left
\* launched belongs to a job this one runs, or to one that waits for its recovery.
THEOREM DriftClosed == Spec => []SweepClosesDrift
<1>1. RInv => SweepClosesDrift
  BY DEF RInv, Swept, Sweeping, Excused, SweepClosesDrift, Serving
<1> QED BY <1>1, RecoveryInvariance, PTL

---------------------------------------------------------------------------
\* No row is there to be held.
LEMMA InitKept == Init => Kept
<1> SUFFICES ASSUME Init PROVE Kept
  OBVIOUS
<1>1. 1..0 = {} /\ njobs = 0
  BY DEF Init
<1> QED BY <1>1 DEF Init, Kept, NoPulls, NoneAtBoot, Sources, IsSource, HeldOpen, CurOpen

\* A repository without rows is one without jobs.
LEMMA InitContract == Init => Contract!Init
<1> SUFFICES ASSUME Init PROVE Contract!Init
  OBVIOUS
<1>1. \A j \in Jobs : status[j] = "absent"
  BY DEF Init
<1>2. Phase = [j \in Jobs |-> "absent"]
  BY <1>1, PhaseValues DEF Phase
<1>3. Effect = [j \in Jobs |-> FALSE]
  BY <1>1 DEF Effect
<1> QED BY <1>2, <1>3 DEF Contract!Init

\* Where no one overrides a job from outside and no crash comes upon a recovery job, the
\* rows keep the contract: terminal means terminal, and done means posted.
THEOREM ContractKept == ASSUME NoOverride PROVE Spec => KeepsContract
<1>1. RInv /\ Kept /\ RInv' /\ [Next]_vars => Kept'
  BY KeptStep DEF RInv
<1>2. RInv /\ Kept /\ RInv' /\ Kept' /\ [Next]_vars => [Contract!Next]_(Contract!vars)
  BY ContractStep DEF RInv
<1> QED
  BY <1>1, <1>2, InitKept, InitContract, RecoveryInvariance, PTL DEF Spec, KeepsContract, Contract!Safety

===========================================================================
