------------------------- MODULE JobOutcomeProofs -------------------------
(***************************************************************************)
(* What JobLifecycle says about effects and sessions, proved for every     *)
(* number of jobs, sessions, posts, crashes and restarts: completed means  *)
(* posted, and no attempt leaves its session launched.                     *)
(***************************************************************************)
EXTENDS JobLifecycleProofs

---------------------------------------------------------------------------
(***************************************************************************)
(* Sessions.                                                               *)
(***************************************************************************)

\* No session beyond the last row is launched: a new process starts its epoch with
\* none of its own.
SessionsHeld ==
  /\ \A s \in Sessions : s > nsess => sessStatus[s] # "launched"
  /\ LaunchedIsHeld

\* Every action that leaves an attempt has closed its session.
LEMMA SessionStep == TypeInv /\ SessionsHeld /\ [Next]_vars => SessionsHeld'
<1> SUFFICES ASSUME SessionRows, WorkerType, BootType, BoundType, SessionsHeld, [Next]_vars
             PROVE  SessionsHeld'
  BY DEF TypeInv, TypeOK
<1> USE DEF jobVars, sessVars, queueVars, workVars, bootVars, restartVars, worldVars, boundVars, SessionsHeld, LaunchedIsHeld
<1>1. CASE Dequeue
  BY <1>1 DEF Dequeue
<1>2. CASE Launch
  BY <1>2 DEF Launch, WorkerFrame, Goto
<1>3. CASE CreateSession
  <2>1. /\ nsess \in Nat /\ nsess' = nsess + 1 /\ epoch' = epoch /\ sess' = nsess + 1
        /\ pc = "create" /\ pc' = "link"
        /\ sessStatus' = [sessStatus EXCEPT ![nsess + 1] = "launched"]
    BY <1>3, ConstantsAssumption DEF CreateSession, WorkerFrame, Goto, SessionRows
  <2>2. \A s \in Sessions : s # nsess + 1 => sessStatus'[s] = sessStatus[s]
    BY <2>1 DEF SessionRows
  <2>3. \A s \in Sessions : s > nsess + 1 => s > nsess /\ s # nsess + 1
    BY <2>1 DEF Sessions
  <2> QED BY <2>1, <2>2, <2>3
<1>4. CASE LinkSession
  BY <1>4 DEF LinkSession, WorkerFrame, Goto, SetStatus
<1>5. CASE WaitEnds
  BY <1>5 DEF WaitEnds, WorkerFrame, Goto
<1>6. CASE VerifySideEffect
  BY <1>6 DEF VerifySideEffect, WorkerFrame, Goto
<1>7. CASE FinalizeSession
  <2>1. \A s \in Sessions : sessStatus'[s] = "launched" => sessStatus[s] = "launched" /\ s # sess
    BY <1>7 DEF FinalizeSession, SessionRows
  <2> QED BY <1>7, <2>1 DEF FinalizeSession, WorkerFrame
<1>8. CASE RecheckRecovery
  BY <1>8 DEF RecheckRecovery, WorkerFrame, Goto
<1>9. CASE RelinkSession
  BY <1>9 DEF RelinkSession, WorkerFrame, Goto, SetStatus
<1>10. CASE CompleteSource
  BY <1>10 DEF CompleteSource, WorkerFrame, Goto
<1>11. CASE CompleteJob
  BY <1>11 DEF CompleteJob, WorkerReturns, Done, SetStatus
<1>12. CASE CapacityButPosted
  BY <1>12 DEF CapacityButPosted, WorkerFrame, Goto
<1>13. CASE CapacityRetry
  BY <1>13 DEF CapacityRetry, WorkerFrame, Goto, SetStatus
<1>14. CASE CapacityExhausted
  BY <1>14 DEF CapacityExhausted, Done, Goto, SetStatus
<1>15. CASE FailJob
  BY <1>15 DEF FailJob, WorkerReturns, Done, SetStatus
<1>16. CASE JoinRecovery
  BY <1>16 DEF JoinRecovery, WorkerReturns, Done, SetStatus
<1>17. CASE EnqueueRecovery
  BY <1>17 DEF EnqueueRecovery, Goto
<1>18. CASE MarkRecovering
  BY <1>18 DEF MarkRecovering, WorkerReturns, Done, SetStatus
<1>19. CASE FailRecovery
  BY <1>19 DEF FailRecovery, WorkerFrame, Goto, SetStatus
<1>20. CASE FailSource
  BY <1>20 DEF FailSource, WorkerReturns, Done
<1>21. CASE BootStart
  BY <1>21 DEF BootStart, BootFrame
<1>22. CASE BootSubmit
  BY <1>22 DEF BootSubmit, BootFrame, BootNext
<1>23. CASE BootVerifySeen
  BY <1>23 DEF BootVerifySeen, BootFrame, BootNext
<1>24. CASE BootComplete
  BY <1>24 DEF BootComplete, BootFrame, SetStatus
<1>25. CASE BootRequeue
  BY <1>25 DEF BootRequeue, BootFrame, SetStatus, BootNext
<1>26. CASE BootCloseSession
  BY <1>26 DEF BootCloseSession, BootFrame, ReconcileSession
<1>27. CASE SweepReadSessions
  BY <1>27 DEF SweepReadSessions, BootFrame
<1>28. CASE SweepReadJobs
  BY <1>28 DEF SweepReadJobs, BootFrame, SessionStatusFor
<1>29. CASE SweepSession
  <2>1. PICK e \in sweepTodo : ReconcileSession(e[1], e[2])
    BY <1>29 DEF SweepSession
  <2>2. e[2] \in {"completed", "failed"}
    BY <2>1 DEF BootType
  <2>3. \A s \in Sessions : sessStatus'[s] = "launched" => sessStatus[s] = "launched"
    BY <2>1, <2>2 DEF ReconcileSession, SessionRows
  <2> QED BY <1>29, <2>3 DEF SweepSession, BootFrame
<1>30. CASE BootDone
  BY <1>30 DEF BootDone, BootFrame
<1>31. CASE RestartBegin
  BY <1>31 DEF RestartBegin, RestartFrame
<1>32. CASE RestartSupersede
  BY <1>32 DEF RestartSupersede, RestartFrame, SetStatus
<1>33. CASE RestartCloseSession
  BY <1>33 DEF RestartCloseSession, RestartFrame, ReconcileSession
<1>34. CASE RestartEnqueue
  BY <1>34 DEF RestartEnqueue, RestartFrame
<1>35. CASE AgentPost
  BY <1>35 DEF AgentPost
<1>36. CASE Crash
  BY <1>36 DEF Crash, Done, AgentRuns
<1>37. CASE \E st \in Arrivals : Arrive(st)
  BY <1>37 DEF Arrive, HandlerFrame
<1>38. CASE \E j \in Jobs : PullRequestOpened(j)
  BY <1>38 DEF PullRequestOpened, HandlerFrame, SetStatus
<1>39. CASE EnqueueReview
  BY <1>39 DEF EnqueueReview, HandlerFrame
<1>40. CASE \E j \in Jobs : LoseEvent(j)
  BY <1>40 DEF LoseEvent, WorldFrame
<1>41. CASE \E e \in orphans : OrphanPosts(e)
  BY <1>41 DEF OrphanPosts, WorldFrame
<1>42. CASE \E e \in orphans : OrphanExits(e)
  BY <1>42 DEF OrphanExits, WorldFrame
<1>43. CASE UNCHANGED vars
  BY <1>43 DEF vars
<1> QED
  BY <1>1, <1>2, <1>3, <1>4, <1>5, <1>6, <1>7, <1>8, <1>9, <1>10, <1>11, <1>12, <1>13, <1>14, <1>15, <1>16, <1>17, <1>18, <1>19, <1>20, <1>21, <1>22, <1>23, <1>24, <1>25, <1>26, <1>27, <1>28, <1>29, <1>30, <1>31, <1>32, <1>33, <1>34, <1>35, <1>36, <1>37, <1>38, <1>39, <1>40, <1>41, <1>42, <1>43 DEF Next, WorkerStep, BootStep, RestartStep

---------------------------------------------------------------------------
(***************************************************************************)
(* Effects.                                                                *)
(***************************************************************************)

\* A row keeps its stage and source, and what GitHub shows of a job it goes on showing.
RowsStay ==
  /\ njobs \in Nat /\ 1..njobs \subseteq (1..njobs)'
  /\ \A j \in 1..njobs : stage'[j] = stage[j] /\ source'[j] = source[j]
  /\ \A t \in Jobs : comments[t] > 0 => comments'[t] > 0
  /\ \A t \in Jobs : prs[t] > 0 => prs'[t] > 0

\* Deleting copies of a comment leaves one.
LEMMA PruneStays ==
  ASSUME WorldType, NEW j, PruneDuplicates(j)
  PROVE  \A t \in Jobs : comments[t] > 0 => comments'[t] > 0
<1>1. comments \in [Jobs -> 0..MaxPosts] /\ MaxPosts \in Nat
  BY ConstantsAssumption DEF WorldType
<1>2. CASE UNCHANGED comments
  BY <1>2
<1>3. ASSUME NEW t, NEW left \in 1..comments[t], comments' = [comments EXCEPT ![t] = left]
      PROVE  \A k \in Jobs : comments[k] > 0 => comments'[k] > 0
  <2>1. CASE t \in Jobs
    <3>1. left > 0
      BY <1>1, <2>1
    <3> QED BY <1>1, <1>3, <3>1
  <2>2. CASE t \notin Jobs
    BY <1>1, <1>3, <2>2
  <2> QED BY <2>1, <2>2
<1> QED BY <1>2, <1>3 DEF PruneDuplicates

\* A post adds to them.
LEMMA PostStays ==
  ASSUME WorldType, NEW e, Post(e)
  PROVE  /\ \A t \in Jobs : comments[t] > 0 => comments'[t] > 0
         /\ \A t \in Jobs : prs[t] > 0 => prs'[t] > 0
<1>1. /\ comments \in [Jobs -> 0..MaxPosts] /\ prs \in [Jobs -> 0..MaxPosts] /\ MaxPosts \in Nat
  BY ConstantsAssumption DEF WorldType
<1> QED BY <1>1 DEF Post

\* A new row is written where no row was.
LEMMA CreateStays ==
  ASSUME JobRows, NEW st, NEW src, CreateJob(st, src)
  PROVE  /\ njobs \in Nat /\ 1..njobs \subseteq (1..njobs)' /\ njobs + 1 \in Jobs
         /\ \A j \in 1..njobs : stage'[j] = stage[j] /\ source'[j] = source[j]
<1>1. njobs \in Nat /\ njobs' = njobs + 1 /\ njobs + 1 \in Jobs
  BY ConstantsAssumption DEF JobRows, CreateJob, Jobs
<1>2. \A j \in 1..njobs : j # njobs + 1 /\ j \in 1..(njobs + 1)
  BY <1>1
<1> QED BY <1>1, <1>2 DEF CreateJob, JobRows

\* No action rewrites a stage or a source, or takes the last copy from GitHub.
LEMMA RowsStep == TypeInv /\ [Next]_vars => RowsStay
<1> SUFFICES ASSUME JobRows, WorldType, [Next]_vars
             PROVE  RowsStay
  BY DEF TypeInv, TypeOK
<1>0. njobs \in Nat
  BY ConstantsAssumption DEF JobRows
<1> USE DEF jobVars, sessVars, queueVars, workVars, bootVars, restartVars, worldVars, boundVars, RowsStay
<1>1. CASE Dequeue
  BY <1>0, <1>1 DEF Dequeue
<1>2. CASE Launch
  BY <1>0, <1>2 DEF Launch, WorkerFrame, Goto
<1>3. CASE CreateSession
  BY <1>0, <1>3 DEF CreateSession, WorkerFrame, Goto
<1>4. CASE LinkSession
  BY <1>0, <1>4 DEF LinkSession, WorkerFrame, Goto, SetStatus
<1>5. CASE WaitEnds
  BY <1>0, <1>5 DEF WaitEnds, WorkerFrame, Goto
<1>6. CASE VerifySideEffect
  BY <1>0, <1>6, PruneStays DEF VerifySideEffect, WorkerFrame
<1>7. CASE FinalizeSession
  BY <1>0, <1>7 DEF FinalizeSession, WorkerFrame, Goto, AfterSession
<1>8. CASE RecheckRecovery
  BY <1>0, <1>8, PruneStays DEF RecheckRecovery, WorkerFrame
<1>9. CASE RelinkSession
  BY <1>0, <1>9 DEF RelinkSession, WorkerFrame, Goto, SetStatus
<1>10. CASE CompleteSource
  BY <1>0, <1>10 DEF CompleteSource, WorkerFrame, Goto
<1>11. CASE CompleteJob
  BY <1>0, <1>11 DEF CompleteJob, WorkerReturns, Done, SetStatus
<1>12. CASE CapacityButPosted
  BY <1>0, <1>12, PruneStays DEF CapacityButPosted, WorkerFrame
<1>13. CASE CapacityRetry
  BY <1>0, <1>13 DEF CapacityRetry, WorkerFrame, Goto, SetStatus
<1>14. CASE CapacityExhausted
  BY <1>0, <1>14 DEF CapacityExhausted, Done, Goto, SetStatus
<1>15. CASE FailJob
  BY <1>0, <1>15 DEF FailJob, WorkerReturns, Done, SetStatus
<1>16. CASE JoinRecovery
  BY <1>0, <1>16 DEF JoinRecovery, WorkerReturns, Done, SetStatus
<1>17. CASE EnqueueRecovery
  BY <1>17, CreateStays DEF EnqueueRecovery
<1>18. CASE MarkRecovering
  BY <1>0, <1>18 DEF MarkRecovering, WorkerReturns, Done, SetStatus
<1>19. CASE FailRecovery
  BY <1>0, <1>19 DEF FailRecovery, WorkerFrame, Goto, SetStatus
<1>20. CASE FailSource
  BY <1>0, <1>20 DEF FailSource, WorkerReturns, Done
<1>21. CASE BootStart
  BY <1>0, <1>21 DEF BootStart, BootFrame
<1>22. CASE BootSubmit
  BY <1>0, <1>22 DEF BootSubmit, BootFrame, BootNext
<1>23. CASE BootVerifySeen
  BY <1>0, <1>23, PruneStays DEF BootVerifySeen, BootFrame
<1>24. CASE BootComplete
  BY <1>0, <1>24 DEF BootComplete, BootFrame, SetStatus
<1>25. CASE BootRequeue
  BY <1>0, <1>25 DEF BootRequeue, BootFrame, SetStatus, BootNext
<1>26. CASE BootCloseSession
  BY <1>0, <1>26 DEF BootCloseSession, BootFrame, ReconcileSession
<1>27. CASE SweepReadSessions
  BY <1>0, <1>27 DEF SweepReadSessions, BootFrame
<1>28. CASE SweepReadJobs
  BY <1>0, <1>28 DEF SweepReadJobs, BootFrame, SessionStatusFor
<1>29. CASE SweepSession
  BY <1>0, <1>29 DEF SweepSession, BootFrame, ReconcileSession
<1>30. CASE BootDone
  BY <1>0, <1>30 DEF BootDone, BootFrame
<1>31. CASE RestartBegin
  BY <1>0, <1>31 DEF RestartBegin, RestartFrame
<1>32. CASE RestartSupersede
  BY <1>0, <1>32 DEF RestartSupersede, RestartFrame, SetStatus
<1>33. CASE RestartCloseSession
  BY <1>0, <1>33 DEF RestartCloseSession, RestartFrame, ReconcileSession
<1>34. CASE RestartEnqueue
  BY <1>0, <1>34, CreateStays DEF RestartEnqueue, RestartFrame
<1>35. CASE AgentPost
  BY <1>0, <1>35, PostStays DEF AgentPost
<1>36. CASE Crash
  BY <1>0, <1>36 DEF Crash, Done, AgentRuns
<1>37. CASE \E st \in Arrivals : Arrive(st)
  BY <1>37, CreateStays DEF Arrive, HandlerFrame
<1>38. CASE \E j \in Jobs : PullRequestOpened(j)
  BY <1>0, <1>38 DEF PullRequestOpened, HandlerFrame, SetStatus
<1>39. CASE EnqueueReview
  BY <1>39, CreateStays DEF EnqueueReview, HandlerFrame
<1>40. CASE \E j \in Jobs : LoseEvent(j)
  BY <1>0, <1>40 DEF LoseEvent, WorldFrame
<1>41. CASE \E e \in orphans : OrphanPosts(e)
  BY <1>0, <1>41, PostStays DEF OrphanPosts, WorldFrame
<1>42. CASE \E e \in orphans : OrphanExits(e)
  BY <1>0, <1>42 DEF OrphanExits, WorldFrame
<1>43. CASE UNCHANGED vars
  BY <1>0, <1>43 DEF vars
<1> QED
  BY <1>1, <1>2, <1>3, <1>4, <1>5, <1>6, <1>7, <1>8, <1>9, <1>10, <1>11, <1>12, <1>13, <1>14, <1>15, <1>16, <1>17, <1>18, <1>19, <1>20, <1>21, <1>22, <1>23, <1>24, <1>25, <1>26, <1>27, <1>28, <1>29, <1>30, <1>31, <1>32, <1>33, <1>34, <1>35, <1>36, <1>37, <1>38, <1>39, <1>40, <1>41, <1>42, <1>43 DEF Next, WorkerStep, BootStep, RestartStep


\* GitHub shows what job j stands for.
Shown(j) == \E knowsPr \in BOOLEAN : Seen(EffectOf(j, knowsPr))

CompletedShown == \A j \in Jobs : status[j] = "completed" => j \in 1..njobs /\ Shown(j)

\* A recovery job is for the comment of an issue job, which is its source.
RecoveryRows ==
  \A r \in 1..njobs : stage[r] = RecoveryStage =>
    source[r] \in 1..njobs /\ stage[source[r]] \in IssueCommentStages

\* A worker about to complete its job, or its source, has seen the effect.
WorkerSaw ==
  /\ pc = "finalize" /\ outcome = "ok" => Shown(cur)
  /\ pc \in {"relink", "succeed", "complete"} => Shown(cur)

BootSaw == boot = "complete" => Shown(bootJob)

\* A pull request that is opened is an implementation's, and so is one that an agent
\* left behind may still open.
OpenedRows ==
  /\ \A j \in prEvents : j \in 1..njobs /\ stage[j] = "implementation" /\ prs[j] > 0
  /\ \A e \in orphans : e[2] = "pr" => e[1] \in 1..njobs /\ stage[e[1]] = "implementation"

Posted == CompletedShown /\ RecoveryRows /\ WorkerSaw /\ BootSaw /\ OpenedRows

\* What GitHub shows of a job it goes on showing.
LEMMA ShownStays ==
  ASSUME RowsStay, JobRows, RecoveryRows, NEW j \in 1..njobs, Shown(j)
  PROVE  Shown(j)'
<1>1. PICK k \in BOOLEAN : Seen(EffectOf(j, k))
  BY DEF Shown
<1>2. stage'[j] = stage[j] /\ source'[j] = source[j]
  BY DEF RowsStay
<1>3. EffectOf(j, k)' = EffectOf(j, k)
  BY <1>2 DEF EffectOf
<1>4. 1..njobs \subseteq Jobs
  BY ConstantsAssumption DEF JobRows, Jobs
<1>5. EffectOf(j, k)[1] \in Jobs
  BY <1>4 DEF EffectOf, RecoveryRows
<1>6. Seen(EffectOf(j, k))'
  BY <1>1, <1>3, <1>5 DEF Seen, RowsStay
<1> QED BY <1>6 DEF Shown

\* A recovery job's effect is its source's.
LEMMA SourceShown ==
  ASSUME RecoveryRows, NEW r \in 1..njobs, stage[r] = RecoveryStage, Shown(r)
  PROVE  source[r] \in 1..njobs /\ Shown(source[r])
<1>1. source[r] \in 1..njobs /\ stage[source[r]] \in IssueCommentStages
  BY DEF RecoveryRows
<1>2. stage[source[r]] # RecoveryStage /\ stage[source[r]] # "implementation"
  BY <1>1 DEF IssueCommentStages, RecoveryStage
<1>3. \A k \in BOOLEAN : EffectOf(r, k) = EffectOf(source[r], k)
  BY <1>2 DEF EffectOf
<1> QED BY <1>1, <1>3 DEF Shown

\* Only an implementation opens a pull request, its own.
LEMMA EffectIsPr ==
  ASSUME NEW j, NEW k \in BOOLEAN, EffectOf(j, k)[2] = "pr"
  PROVE  EffectOf(j, k)[1] = j /\ stage[j] = "implementation"
  BY DEF EffectOf

\* The jobs that are in someone's hands have rows.
LEMMA HeldRows ==
  ASSUME TypeInv
  PROVE  /\ pc # "idle" => cur \in 1..njobs
         /\ boot \in {"complete", "closeCompleted", "closeRequeued"} => bootJob \in 1..njobs
  BY ConstantsAssumption DEF TypeInv, TypeOK, Held, WorkerType, BootType, JobRows

\* Every action that completes a row, or promises to, has seen its effect.
LEMMA PostedStep == TypeInv /\ Posted /\ [Next]_vars => Posted'
<1> SUFFICES ASSUME TypeInv, Posted, [Next]_vars PROVE Posted'
  OBVIOUS
<1>a. JobRows /\ WorkerType /\ BootType /\ WorldType /\ 1..njobs \subseteq Jobs
  BY ConstantsAssumption DEF TypeInv, TypeOK, JobRows, Jobs
<1>b. RowsStay /\ \A j \in 1..njobs : Shown(j) => Shown(j)'
  BY RowsStep, ShownStays, <1>a DEF Posted
<1>c. RowsStay /\ 1..njobs \subseteq (1..njobs)' /\ \A j \in 1..njobs : stage'[j] = stage[j] /\ source'[j] = source[j]
  BY <1>b DEF RowsStay
<1>d. /\ pc # "idle" => cur \in 1..njobs
      /\ boot \in {"complete", "closeCompleted", "closeRequeued"} => bootJob \in 1..njobs
  BY HeldRows
<1>e. \A t \in Jobs : prs[t] > 0 => prs'[t] > 0
  BY <1>b DEF RowsStay
<1>f. njobs' = njobs => RecoveryRows'
  <2>1. njobs' = njobs => \A r \in 1..njobs : stage'[r] = RecoveryStage => source'[r] \in 1..njobs' /\ stage'[source'[r]] \in IssueCommentStages
    BY <1>c DEF Posted, RecoveryRows
  <2> QED BY <2>1 DEF RecoveryRows
<1>g. /\ status' = status => CompletedShown'
      /\ \A j : \A s \in Statuses \ {"completed"} : status' = [status EXCEPT ![j] = s] => CompletedShown'
  BY <1>a, <1>b, <1>c DEF Posted, CompletedShown, JobRows
<1>s. \A s \in {"queued", "launched", "retrying", "recovering", "failed", "superseded"} :
        s \in Statuses \ {"completed"}
  BY StatusValues
<1>h. \A j \in 1..njobs : Shown(j) /\ status' = [status EXCEPT ![j] = "completed"] => CompletedShown'
  BY <1>a, <1>b, <1>c DEF Posted, CompletedShown, JobRows
<1>i. prEvents' \subseteq prEvents /\ orphans' \subseteq orphans => OpenedRows'
  BY <1>a, <1>b, <1>c, <1>e DEF Posted, OpenedRows
<1>j. pc' \notin {"relink", "succeed", "complete"} /\ ~(pc' = "finalize" /\ outcome' = "ok") => WorkerSaw'
  BY DEF WorkerSaw
<1>k. boot' # "complete" \/ (boot' = boot /\ bootJob' = bootJob) => BootSaw'
  BY <1>b, <1>d DEF Posted, BootSaw
<1>l. pc' = pc /\ cur' = cur /\ outcome' = outcome => WorkerSaw'
  BY <1>b, <1>d DEF Posted, WorkerSaw
<1>m. cur' = cur /\ pc # "idle" /\ Shown(cur) => WorkerSaw'
  BY <1>b, <1>d DEF WorkerSaw
<1>n. memPr[cur] \in BOOLEAN /\ Seen(EffectOf(cur, memPr[cur])) => Shown(cur)
  BY DEF Shown
<1>o. \A e : Post(e) /\ (e[2] = "pr" => e[1] \in 1..njobs /\ stage[e[1]] = "implementation")
             /\ orphans' = orphans => OpenedRows'
  <2>1. SUFFICES ASSUME NEW e, Post(e), orphans' = orphans,
                        e[2] = "pr" => e[1] \in 1..njobs /\ stage[e[1]] = "implementation"
                 PROVE  OpenedRows'
    OBVIOUS
  <2>2. CASE prEvents' = prEvents
    BY <2>1, <2>2, <1>i
  <2>3. CASE e[2] = "pr" /\ prs' = [prs EXCEPT ![e[1]] = @ + 1] /\ prEvents' = prEvents \cup {e[1]}
    <3>1. prs'[e[1]] > 0
      BY <2>1, <2>3, <1>a, ConstantsAssumption DEF WorldType
    <3> QED BY <2>1, <2>3, <3>1, <1>a, <1>b, <1>c, <1>e DEF Posted, OpenedRows
  <2> QED BY <2>1, <2>2, <2>3 DEF Post
<1>p. \A st, src : CreateJob(st, src)
                   /\ (st = RecoveryStage => src \in 1..njobs /\ stage[src] \in IssueCommentStages)
                   => CompletedShown' /\ RecoveryRows'
  <2>1. SUFFICES ASSUME NEW st, NEW src, CreateJob(st, src),
                        st = RecoveryStage => src \in 1..njobs /\ stage[src] \in IssueCommentStages
                 PROVE  CompletedShown' /\ RecoveryRows'
    OBVIOUS
  <2>2. /\ njobs' = njobs + 1 /\ njobs + 1 \in Jobs /\ status' = [status EXCEPT ![njobs + 1] = "queued"]
        /\ \A r \in 1..njobs' : r \in 1..njobs \/ r = njobs + 1
        /\ stage'[njobs + 1] = st /\ source'[njobs + 1] = src
    <3>1. /\ njobs' = njobs + 1 /\ njobs + 1 \in Jobs /\ njobs \in Nat
      BY <2>1, <1>a, CreateStays DEF CreateJob
    <3>2. \A r \in 1..(njobs + 1) : r \in 1..njobs \/ r = njobs + 1
      BY <3>1
    <3>3. stage'[njobs + 1] = st /\ source'[njobs + 1] = src
      BY <2>1, <3>1, <1>a DEF CreateJob, JobRows
    <3>4. status' = [status EXCEPT ![njobs + 1] = "queued"]
      BY <2>1 DEF CreateJob
    <3> QED BY <3>1, <3>2, <3>3, <3>4
  <2>3. CompletedShown'
    BY <2>2, <1>g, <1>s
  <2>4. RecoveryRows'
    BY <2>1, <2>2, <1>c DEF Posted, RecoveryRows
  <2> QED BY <2>3, <2>4
<1>q. \A st \in Arrivals : st # RecoveryStage
  BY ConstantsAssumption
<1>r. memPr \in [Jobs -> BOOLEAN]
  BY DEF TypeInv, TypeOK, QueueType
<1> USE <1>a DEF jobVars, sessVars, queueVars, workVars, bootVars, restartVars, worldVars, boundVars, Posted
<1>1. CASE Dequeue
  BY <1>1, <1>b, <1>d, <1>f, <1>g, <1>s, <1>i, <1>j, <1>k, <1>l, <1>m DEF Dequeue
<1>2. CASE Launch
  BY <1>2, <1>b, <1>d, <1>f, <1>g, <1>s, <1>i, <1>j, <1>k, <1>l, <1>m DEF Launch, WorkerFrame, Goto
<1>3. CASE CreateSession
  BY <1>3, <1>b, <1>d, <1>f, <1>g, <1>s, <1>i, <1>j, <1>k, <1>l, <1>m DEF CreateSession, WorkerFrame, Goto
<1>4. CASE LinkSession
  BY <1>4, <1>b, <1>d, <1>f, <1>g, <1>s, <1>i, <1>j, <1>k, <1>l, <1>m DEF LinkSession, WorkerFrame, Goto, SetStatus
<1>5. CASE WaitEnds
  BY <1>5, <1>b, <1>d, <1>f, <1>g, <1>s, <1>i, <1>j, <1>k, <1>l, <1>m DEF WaitEnds, WorkerFrame, Goto
<1>6. CASE VerifySideEffect
  <2>1. CASE outcome' = "ok"
    <3>1. Shown(cur) /\ pc # "idle" /\ cur' = cur
      BY <1>6, <2>1, <1>d, <1>n, <1>r DEF VerifySideEffect, WorkerFrame
    <3> QED BY <1>6, <3>1, <1>b, <1>d, <1>f, <1>g, <1>s, <1>i, <1>j, <1>k, <1>l, <1>m DEF VerifySideEffect, WorkerFrame
  <2>2. CASE outcome' # "ok"
    BY <1>6, <2>2, <1>b, <1>d, <1>f, <1>g, <1>s, <1>i, <1>j, <1>k, <1>l, <1>m DEF VerifySideEffect, WorkerFrame, Goto
  <2> QED BY <2>1, <2>2
<1>7. CASE FinalizeSession
  <2>1. CASE outcome = "ok"
    <3>1. Shown(cur) /\ pc # "idle" /\ cur' = cur
      BY <1>7, <2>1 DEF FinalizeSession, WorkerFrame, WorkerSaw
    <3> QED BY <1>7, <3>1, <1>b, <1>d, <1>f, <1>g, <1>s, <1>i, <1>j, <1>k, <1>l, <1>m DEF FinalizeSession, WorkerFrame
  <2>2. CASE outcome # "ok"
    <3>1. pc' \in {"recheck", "capacity", "failed"}
      BY <1>7, <2>2 DEF FinalizeSession, AfterSession, Goto
    <3> QED BY <1>7, <3>1, <1>b, <1>d, <1>f, <1>g, <1>s, <1>i, <1>j, <1>k, <1>l, <1>m DEF FinalizeSession, WorkerFrame
  <2> QED BY <2>1, <2>2
<1>8. CASE RecheckRecovery
  <2>1. CASE pc' = "succeed"
    <3>1. Shown(cur) /\ pc # "idle" /\ cur' = cur
      BY <1>8, <2>1 DEF RecheckRecovery, WorkerFrame, Shown, Goto
    <3> QED BY <1>8, <3>1, <1>b, <1>d, <1>f, <1>g, <1>s, <1>i, <1>j, <1>k, <1>l, <1>m DEF RecheckRecovery, WorkerFrame
  <2>2. CASE pc' = "relaunch"
    BY <1>8, <2>2, <1>b, <1>d, <1>f, <1>g, <1>s, <1>i, <1>j, <1>k, <1>l, <1>m DEF RecheckRecovery, WorkerFrame
  <2> QED BY <1>8, <2>1, <2>2 DEF RecheckRecovery, Goto
<1>9. CASE RelinkSession
  <2>1. Shown(cur) /\ pc # "idle" /\ cur' = cur
    BY <1>9 DEF RelinkSession, WorkerFrame, WorkerSaw
  <2> QED BY <1>9, <2>1, <1>b, <1>d, <1>f, <1>g, <1>s, <1>i, <1>j, <1>k, <1>l, <1>m DEF RelinkSession, WorkerFrame, SetStatus
<1>10. CASE CompleteSource
  <2>1. Shown(cur) /\ pc # "idle" /\ cur' = cur
    BY <1>10 DEF CompleteSource, WorkerFrame, WorkerSaw
  <2>2. source[cur] \in 1..njobs /\ Shown(source[cur])
    BY <1>10, <2>1, <1>d, SourceShown DEF CompleteSource
  <2>3. CompletedShown'
    BY <1>10, <2>2, <1>h DEF CompleteSource
  <2> QED BY <1>10, <2>1, <2>3, <1>b, <1>d, <1>f, <1>g, <1>s, <1>i, <1>j, <1>k, <1>l, <1>m DEF CompleteSource, WorkerFrame
<1>11. CASE CompleteJob
  <2>1. Shown(cur) /\ cur \in 1..njobs
    BY <1>11, <1>d DEF CompleteJob, WorkerSaw
  <2>2. CompletedShown'
    BY <1>11, <2>1, <1>h DEF CompleteJob, SetStatus
  <2> QED BY <1>11, <2>2, <1>b, <1>d, <1>f, <1>g, <1>s, <1>i, <1>j, <1>k, <1>l, <1>m DEF CompleteJob, WorkerReturns, Done
<1>12. CASE CapacityButPosted
  <2>1. Shown(cur) /\ pc # "idle" /\ cur' = cur
    BY <1>12, <1>d, <1>n, <1>r DEF CapacityButPosted, WorkerFrame
  <2> QED BY <1>12, <2>1, <1>b, <1>d, <1>f, <1>g, <1>s, <1>i, <1>j, <1>k, <1>l, <1>m DEF CapacityButPosted, WorkerFrame
<1>13. CASE CapacityRetry
  BY <1>13, <1>b, <1>d, <1>f, <1>g, <1>s, <1>i, <1>j, <1>k, <1>l, <1>m DEF CapacityRetry, WorkerFrame, Goto, SetStatus
<1>14. CASE CapacityExhausted
  BY <1>14, <1>b, <1>d, <1>f, <1>g, <1>s, <1>i, <1>j, <1>k, <1>l, <1>m DEF CapacityExhausted, Done, Goto, SetStatus
<1>15. CASE FailJob
  BY <1>15, <1>b, <1>d, <1>f, <1>g, <1>s, <1>i, <1>j, <1>k, <1>l, <1>m DEF FailJob, WorkerReturns, Done, SetStatus
<1>16. CASE JoinRecovery
  BY <1>16, <1>b, <1>d, <1>f, <1>g, <1>s, <1>i, <1>j, <1>k, <1>l, <1>m DEF JoinRecovery, WorkerReturns, Done, SetStatus
<1>17. CASE EnqueueRecovery
  <2>1. CreateJob(RecoveryStage, cur) /\ cur \in 1..njobs /\ stage[cur] \in IssueCommentStages
    BY <1>17, <1>d DEF EnqueueRecovery, CanRecover
  <2>2. CompletedShown' /\ RecoveryRows'
    BY <2>1, <1>p
  <2> QED BY <1>17, <2>2, <1>b, <1>d, <1>f, <1>g, <1>s, <1>i, <1>j, <1>k, <1>l, <1>m DEF EnqueueRecovery, Goto
<1>18. CASE MarkRecovering
  BY <1>18, <1>b, <1>d, <1>f, <1>g, <1>s, <1>i, <1>j, <1>k, <1>l, <1>m DEF MarkRecovering, WorkerReturns, Done, SetStatus
<1>19. CASE FailRecovery
  BY <1>19, <1>b, <1>d, <1>f, <1>g, <1>s, <1>i, <1>j, <1>k, <1>l, <1>m DEF FailRecovery, WorkerFrame, Goto, SetStatus
<1>20. CASE FailSource
  BY <1>20, <1>b, <1>d, <1>f, <1>g, <1>s, <1>i, <1>j, <1>k, <1>l, <1>m DEF FailSource, WorkerReturns, Done
<1>21. CASE BootStart
  BY <1>21, <1>b, <1>d, <1>f, <1>g, <1>s, <1>i, <1>j, <1>k, <1>l, <1>m DEF BootStart, BootFrame
<1>22. CASE BootSubmit
  BY <1>22, <1>b, <1>d, <1>f, <1>g, <1>s, <1>i, <1>j, <1>k, <1>l, <1>m DEF BootSubmit, BootFrame, BootNext
<1>23. CASE BootVerifySeen
  <2>1. PICK j \in bootVerify :
           /\ bootJob' = j /\ Seen(EffectOf(j, prNumber[j]))
           /\ IF stage[j] = RecoveryStage THEN status' = [status EXCEPT ![source[j]] = "completed"]
              ELSE status' = status
    BY <1>23 DEF BootVerifySeen
  <2>2. j \in 1..njobs /\ Shown(j)
    BY <2>1 DEF Shown, BootType, JobRows
  <2>3. CASE stage[j] = RecoveryStage
    <3>1. source[j] \in 1..njobs /\ Shown(source[j])
      BY <2>2, <2>3, SourceShown
    <3> QED BY <1>23, <2>1, <2>2, <2>3, <3>1, <1>b, <1>d, <1>f, <1>g, <1>s, <1>i, <1>j, <1>k, <1>l, <1>m, <1>h DEF BootVerifySeen, BootFrame, BootSaw
  <2>4. CASE stage[j] # RecoveryStage
    BY <1>23, <2>1, <2>2, <2>4, <1>b, <1>d, <1>f, <1>g, <1>s, <1>i, <1>j, <1>k, <1>l, <1>m DEF BootVerifySeen, BootFrame, BootSaw
  <2> QED BY <2>3, <2>4
<1>24. CASE BootComplete
  <2>1. Shown(bootJob) /\ bootJob \in 1..njobs
    BY <1>24, <1>d DEF BootComplete, BootSaw
  <2>2. CompletedShown'
    BY <1>24, <2>1, <1>h DEF BootComplete, SetStatus
  <2> QED BY <1>24, <2>2, <1>b, <1>d, <1>f, <1>g, <1>s, <1>i, <1>j, <1>k, <1>l, <1>m DEF BootComplete, BootFrame
<1>25. CASE BootRequeue
  <2>1. PICK j \in bootVerify : status' = [status EXCEPT ![j] = "queued"]
    BY <1>25 DEF BootRequeue, SetStatus
  <2>2. CompletedShown'
    BY <2>1, <1>g, <1>s
  <2> QED BY <1>25, <2>2, <1>b, <1>d, <1>f, <1>g, <1>s, <1>i, <1>j, <1>k, <1>l, <1>m DEF BootRequeue, BootFrame
<1>26. CASE BootCloseSession
  BY <1>26, <1>b, <1>d, <1>f, <1>g, <1>s, <1>i, <1>j, <1>k, <1>l, <1>m DEF BootCloseSession, BootFrame, ReconcileSession
<1>27. CASE SweepReadSessions
  BY <1>27, <1>b, <1>d, <1>f, <1>g, <1>s, <1>i, <1>j, <1>k, <1>l, <1>m DEF SweepReadSessions, BootFrame
<1>28. CASE SweepReadJobs
  BY <1>28, <1>b, <1>d, <1>f, <1>g, <1>s, <1>i, <1>j, <1>k, <1>l, <1>m DEF SweepReadJobs, BootFrame, SessionStatusFor
<1>29. CASE SweepSession
  BY <1>29, <1>b, <1>d, <1>f, <1>g, <1>s, <1>i, <1>j, <1>k, <1>l, <1>m DEF SweepSession, BootFrame, ReconcileSession
<1>30. CASE BootDone
  BY <1>30, <1>b, <1>d, <1>f, <1>g, <1>s, <1>i, <1>j, <1>k, <1>l, <1>m DEF BootDone, BootFrame
<1>31. CASE RestartBegin
  BY <1>31, <1>b, <1>d, <1>f, <1>g, <1>s, <1>i, <1>j, <1>k, <1>l, <1>m DEF RestartBegin, RestartFrame
<1>32. CASE RestartSupersede
  <2>1. PICK e \in restartTodo : status' = [status EXCEPT ![e[1]] = "superseded"]
    BY <1>32 DEF RestartSupersede, SetStatus
  <2>2. CompletedShown'
    BY <2>1, <1>g, <1>s
  <2> QED BY <1>32, <2>2, <1>b, <1>d, <1>f, <1>g, <1>s, <1>i, <1>j, <1>k, <1>l, <1>m DEF RestartSupersede, RestartFrame
<1>33. CASE RestartCloseSession
  BY <1>33, <1>b, <1>d, <1>f, <1>g, <1>s, <1>i, <1>j, <1>k, <1>l, <1>m DEF RestartCloseSession, RestartFrame, ReconcileSession
<1>34. CASE RestartEnqueue
  <2>1. CompletedShown' /\ RecoveryRows'
    BY <1>34, <1>p DEF RestartEnqueue, RecoveryStage
  <2> QED BY <1>34, <2>1, <1>b, <1>d, <1>f, <1>g, <1>s, <1>i, <1>j, <1>k, <1>l, <1>m DEF RestartEnqueue, RestartFrame
<1>35. CASE AgentPost
  <2>1. LET e == EffectOf(cur, memPr[cur]) IN
           e[2] = "pr" => e[1] \in 1..njobs /\ stage[e[1]] = "implementation"
    BY <1>35, <1>d, <1>r, EffectIsPr DEF AgentPost, AgentRuns
  <2>2. OpenedRows'
    BY <1>35, <2>1, <1>o DEF AgentPost
  <2> QED BY <1>35, <2>2, <1>b, <1>d, <1>f, <1>g, <1>s, <1>i, <1>j, <1>k, <1>l, <1>m DEF AgentPost
<1>36. CASE Crash
  <2>1. CASE AgentRuns
    <3>1. LET e == EffectOf(cur, memPr[cur]) IN
             e[2] = "pr" => e[1] \in 1..njobs /\ stage[e[1]] = "implementation"
      BY <1>36, <2>1, <1>d, <1>r, EffectIsPr DEF AgentRuns
    <3>2. OpenedRows'
      BY <1>36, <2>1, <3>1, <1>c, <1>b, <1>e DEF Crash, OpenedRows
    <3> QED BY <1>36, <3>2, <1>b, <1>d, <1>f, <1>g, <1>s, <1>i, <1>j, <1>k, <1>l, <1>m DEF Crash, Done
  <2>2. CASE ~AgentRuns
    BY <1>36, <2>2, <1>b, <1>d, <1>f, <1>g, <1>s, <1>i, <1>j, <1>k, <1>l, <1>m DEF Crash, Done
  <2> QED BY <2>1, <2>2
<1>37. CASE \E st \in Arrivals : Arrive(st)
  <2>1. CompletedShown' /\ RecoveryRows'
    BY <1>37, <1>p, <1>q DEF Arrive
  <2> QED BY <1>37, <2>1, <1>b, <1>d, <1>f, <1>g, <1>s, <1>i, <1>j, <1>k, <1>l, <1>m DEF Arrive, HandlerFrame
<1>38. CASE \E j \in Jobs : PullRequestOpened(j)
  <2>1. PICK j \in Jobs : PullRequestOpened(j)
    BY <1>38
  <2>2. j \in 1..njobs /\ stage[j] = "implementation" /\ prs[j] > 0
    BY <2>1 DEF PullRequestOpened, OpenedRows
  <2>3. EffectOf(j, FALSE) = <<j, "pr">>
    BY <2>2 DEF EffectOf, RecoveryStage
  <2>4. Shown(j)
    <3>1. Seen(<<j, "pr">>)
      BY <2>2 DEF Seen
    <3> QED BY <3>1, <2>3 DEF Shown
  <2>5. CompletedShown'
    BY <2>1, <2>2, <2>4, <1>h DEF PullRequestOpened, SetStatus
  <2> QED BY <2>1, <2>5, <1>b, <1>d, <1>f, <1>g, <1>s, <1>i, <1>j, <1>k, <1>l, <1>m DEF PullRequestOpened, HandlerFrame
<1>39. CASE EnqueueReview
  <2>1. CompletedShown' /\ RecoveryRows'
    BY <1>39, <1>p DEF EnqueueReview, RecoveryStage
  <2> QED BY <1>39, <2>1, <1>b, <1>d, <1>f, <1>g, <1>s, <1>i, <1>j, <1>k, <1>l, <1>m DEF EnqueueReview, HandlerFrame
<1>40. CASE \E j \in Jobs : LoseEvent(j)
  BY <1>40, <1>b, <1>d, <1>f, <1>g, <1>s, <1>i, <1>j, <1>k, <1>l, <1>m DEF LoseEvent, WorldFrame
<1>41. CASE \E e \in orphans : OrphanPosts(e)
  <2>1. OpenedRows'
    BY <1>41, <1>o DEF OrphanPosts, OpenedRows
  <2> QED BY <1>41, <2>1, <1>b, <1>d, <1>f, <1>g, <1>s, <1>i, <1>j, <1>k, <1>l, <1>m DEF OrphanPosts, WorldFrame
<1>42. CASE \E e \in orphans : OrphanExits(e)
  BY <1>42, <1>b, <1>d, <1>f, <1>g, <1>s, <1>i, <1>j, <1>k, <1>l, <1>m DEF OrphanExits, WorldFrame
<1>43. CASE UNCHANGED vars
  BY <1>43, <1>b, <1>d, <1>f, <1>g, <1>s, <1>i, <1>j, <1>k, <1>l, <1>m DEF vars
<1> QED
  BY <1>1, <1>2, <1>3, <1>4, <1>5, <1>6, <1>7, <1>8, <1>9, <1>10, <1>11, <1>12, <1>13, <1>14, <1>15, <1>16, <1>17, <1>18, <1>19, <1>20, <1>21, <1>22, <1>23, <1>24, <1>25, <1>26, <1>27, <1>28, <1>29, <1>30, <1>31, <1>32, <1>33, <1>34, <1>35, <1>36, <1>37, <1>38, <1>39, <1>40, <1>41, <1>42, <1>43 DEF Next, WorkerStep, BootStep, RestartStep


---------------------------------------------------------------------------
\* A repository starts with no session, and nothing on GitHub.
LEMMA InitOutcome == Init => SessionsHeld /\ Posted
<1> SUFFICES ASSUME Init PROVE SessionsHeld /\ Posted
  OBVIOUS
<1>1. SessionsHeld
  BY DEF Init, SessionsHeld, LaunchedIsHeld
<1>2. 1..0 = {}
  OBVIOUS
<1> QED BY <1>1, <1>2 DEF Init, Posted, CompletedShown, RecoveryRows, WorkerSaw, BootSaw, OpenedRows

\* What the theorems follow from.
LEMMA OutcomeInvariance == Spec => [](TypeInv /\ SessionsHeld /\ Posted)
<1> DEFINE Inv == TypeInv /\ SessionsHeld /\ Posted
<1>1. Init => Inv
  BY InitType, InitOutcome
<1>2. Inv /\ [Next]_vars => Inv'
  BY TypeStep, SessionStep, PostedStep
<1> HIDE DEF Inv
<1>3. Spec => []Inv
  BY <1>1, <1>2, PTL DEF Spec
<1> QED BY <1>3 DEF Inv

\* A completed row has its comment or pull request on GitHub, whoever completed it and
\* whatever crashed in between.
THEOREM CompletedPosted == Spec => []CompletedMeansPosted
<1>1. TypeInv /\ SessionsHeld /\ Posted => CompletedMeansPosted
  BY DEF Posted, CompletedShown, Shown, CompletedMeansPosted
<1> QED BY <1>1, OutcomeInvariance, PTL

\* Every way out of an attempt closes the session: none this process launched stays
\* launched but the one the worker is busy with.
THEOREM LaunchedHeld == Spec => []LaunchedIsHeld
<1>1. TypeInv /\ SessionsHeld /\ Posted => LaunchedIsHeld
  BY DEF SessionsHeld
<1> QED BY <1>1, OutcomeInvariance, PTL

===========================================================================
