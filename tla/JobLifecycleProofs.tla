------------------------ MODULE JobLifecycleProofs ------------------------
(***************************************************************************)
(* Proofs about JobLifecycle, for every number of jobs, sessions, attempts,*)
(* crashes and restarts.                                                   *)
(***************************************************************************)
EXTENDS JobLifecycle, TLAPS, SequenceTheorems

---------------------------------------------------------------------------
(***************************************************************************)
(* The constant sets, so that no proof below has to open them.             *)
(***************************************************************************)

\* The statuses the service writes are statuses of a job row.
LEMMA StatusValues ==
  /\ {"absent", "queued", "launched", "retrying"} \subseteq Statuses
  /\ {"completed", "failed", "superseded", "recovering"} \subseteq Statuses
  BY DEF Statuses, Active, Terminal

\* The stages the service enqueues are stages.
LEMMA StageValues ==
  /\ RecoveryStage \in Stages /\ Arrivals \subseteq Stages
  /\ "issue_request" \in Stages /\ "review_round" \in Stages
  BY ConstantsAssumption DEF Stages, RecoveryStage, IssueCommentStages, PullRequestCommentStages

\* The attempt a recovery job stands for is within the bound.
LEMMA AttemptValues == {0, 1} \subseteq 0..MaxRecoveryAttempts
  BY DEF MaxRecoveryAttempts

\* Zero is within every bound.
LEMMA Zeros ==
  /\ 0 \in 0..MaxJobs /\ 0 \in 0..MaxSessions /\ 0 \in 0..MaxAttempts
  /\ 0 \in 0..MaxCrashes /\ 0 \in 0..MaxRestarts /\ 0 \in 0..MaxArrivals
  /\ \A n \in Nat : 0 \in 0..n
  BY ConstantsAssumption

(***************************************************************************)
(* What the helpers do to the types.                                       *)
(***************************************************************************)

\* A new row and its place in the queue are of the right kind.
LEMMA CreateJobType ==
  ASSUME JobRows, QueueType, NEW st \in Stages, NEW src \in 0..MaxJobs, CreateJob(st, src)
  PROVE  JobRows' /\ QueueType' /\ njobs' = njobs + 1 /\ njobs + 1 \in Jobs
<1>1. /\ njobs \in Nat /\ njobs + 1 \in Jobs /\ njobs' = njobs + 1 /\ njobs' \in 0..MaxJobs
  BY ConstantsAssumption DEF CreateJob, JobRows, Jobs
<1>2. 1..njobs \subseteq 1..(njobs + 1) /\ njobs + 1 \in 1..(njobs + 1)
  BY <1>1
<1>3. stage' \in [Jobs -> Stages \cup {"none"}]
  BY DEF CreateJob, JobRows
<1>4. source' \in [Jobs -> 0..MaxJobs]
  BY DEF CreateJob, JobRows
<1>5. status' \in [Jobs -> Statuses]
  BY StatusValues DEF CreateJob, JobRows
<1>6. JobRows'
  BY <1>1, <1>3, <1>4, <1>5 DEF CreateJob, JobRows
<1>7. queue' \in Seq(1..(njobs + 1))
  <2>1. queue \in Seq(1..(njobs + 1))
    BY <1>2, SeqMonotonic DEF QueueType
  <2>2. queue' = Append(queue, njobs + 1)
    BY DEF CreateJob
  <2> QED BY <2>1, <2>2, <1>2
<1>8. submitted' \subseteq 1..(njobs + 1)
  BY <1>2 DEF CreateJob, QueueType
<1> QED BY <1>1, <1>6, <1>7, <1>8 DEF QueueType, CreateJob

\* So is a resumed row's.
LEMMA SubmitType ==
  ASSUME JobRows, QueueType, NEW j \in 1..njobs, Submit(j), njobs' = njobs
  PROVE  QueueType'
<1>1. queue \in Seq(1..njobs) /\ submitted \subseteq 1..njobs /\ memPr \in [Jobs -> BOOLEAN]
        /\ prNumber \in [Jobs -> BOOLEAN] /\ j \in Jobs
  BY ConstantsAssumption DEF QueueType, JobRows, Jobs
<1>2. queue' \in Seq(1..njobs)
  BY <1>1 DEF Submit
<1>3. submitted' \subseteq 1..njobs
  BY <1>1 DEF Submit
<1>4. memPr' \in [Jobs -> BOOLEAN]
  BY <1>1 DEF Submit
<1> QED BY <1>2, <1>3, <1>4 DEF QueueType

\* Deleting copies of a comment leaves numbers of comments.
LEMMA PruneType ==
  ASSUME WorldType, NEW j, PruneDuplicates(j)
  PROVE  comments' \in [Jobs -> 0..MaxPosts]
<1>1. comments \in [Jobs -> 0..MaxPosts] /\ MaxPosts \in Nat
  BY ConstantsAssumption DEF WorldType
<1>2. SUFFICES ASSUME NEW t, NEW left \in 1..comments[t], comments' = [comments EXCEPT ![t] = left]
               PROVE  comments' \in [Jobs -> 0..MaxPosts]
  BY <1>1 DEF PruneDuplicates
<1>3. CASE t \in Jobs
  <2>1. comments[t] \in 0..MaxPosts
    BY <1>1, <1>3
  <2>2. left \in 0..MaxPosts
    BY <2>1, <1>1
  <2> QED BY <2>2, <1>2, <1>1
<1>4. CASE t \notin Jobs
  BY <1>4, <1>2, <1>1
<1> QED BY <1>3, <1>4

\* A worker that returned holds nothing.
LEMMA DoneType ==
  ASSUME Done, njobs' \in Nat
  PROVE  WorkerType'
  BY Zeros DEF Done, WorkerType

Effects == ((0..MaxJobs) \X {"comment"}) \cup (Jobs \X {"pr"})

\* What a job leaves on GitHub is a comment of some job or its own pull request.
LEMMA EffectType ==
  ASSUME JobRows, NEW j \in Jobs, NEW knows \in BOOLEAN
  PROVE  EffectOf(j, knows) \in Effects
<1>1. source[j] \in 0..MaxJobs /\ j \in 0..MaxJobs
  BY ConstantsAssumption DEF JobRows, Jobs
<1>2. CASE stage[j] = RecoveryStage
  <2>1. EffectOf(j, knows) = <<source[j], "comment">>
    BY <1>2 DEF EffectOf
  <2> QED BY <2>1, <1>1 DEF Effects
<1>3. CASE stage[j] # RecoveryStage /\ stage[j] = "implementation" /\ ~knows
  <2>1. EffectOf(j, knows) = <<j, "pr">>
    BY <1>3 DEF EffectOf
  <2> QED BY <2>1 DEF Effects
<1>4. CASE stage[j] # RecoveryStage /\ ~(stage[j] = "implementation" /\ ~knows)
  <2>1. EffectOf(j, knows) = <<j, "comment">>
    BY <1>4 DEF EffectOf
  <2> QED BY <2>1, <1>1 DEF Effects
<1> QED BY <1>2, <1>3, <1>4

\* A post changes numbers of comments, or of pull requests and their events.
LEMMA PostType ==
  ASSUME WorldType, NEW e \in Effects, Post(e), orphans' \subseteq Effects
  PROVE  WorldType'
<1>1. /\ comments \in [Jobs -> 0..MaxPosts] /\ prs \in [Jobs -> 0..MaxPosts]
      /\ prEvents \subseteq Jobs /\ MaxPosts \in Nat
  BY ConstantsAssumption DEF WorldType
<1>2. CASE e[2] = "comment" /\ comments[e[1]] < MaxPosts
             /\ comments' = [comments EXCEPT ![e[1]] = @ + 1] /\ UNCHANGED <<prs, prEvents>>
  <2>1. comments' \in [Jobs -> 0..MaxPosts]
    <3>1. CASE e[1] \in Jobs
      <4>1. comments[e[1]] + 1 \in 0..MaxPosts
        BY <1>1, <1>2, <3>1
      <4> QED BY <4>1, <1>1, <1>2
    <3>2. CASE e[1] \notin Jobs
      BY <3>2, <1>1, <1>2
    <3> QED BY <3>1, <3>2
  <2> QED BY <2>1, <1>1, <1>2 DEF WorldType, Effects
<1>3. CASE e[2] = "pr" /\ prs[e[1]] < MaxPosts /\ prs' = [prs EXCEPT ![e[1]] = @ + 1]
             /\ prEvents' = prEvents \cup {e[1]} /\ UNCHANGED comments
  <2>1. e[1] \in Jobs
    BY <1>3 DEF Effects
  <2>2. prs[e[1]] + 1 \in 0..MaxPosts
    BY <2>1, <1>1, <1>3
  <2>3. prs' \in [Jobs -> 0..MaxPosts] /\ prEvents' \subseteq Jobs
    BY <2>1, <2>2, <1>1, <1>3
  <2> QED BY <2>3, <1>1, <1>3 DEF WorldType, Effects
<1> QED BY <1>2, <1>3 DEF Post


---------------------------------------------------------------------------
(***************************************************************************)
(* The type invariant needs besides itself that the worker holds a job     *)
(* exactly when it is not idle, and that the boot loop holds one while it  *)
(* completes or requeues it.                                               *)
(***************************************************************************)
Held ==
  /\ pc = "idle" <=> cur = 0
  /\ boot \in {"complete", "closeCompleted", "closeRequeued"} => bootJob \in bootVerify

TypeInv == TypeOK /\ Held

\* It holds of the rows a repository starts with.
LEMMA InitType == Init => TypeInv
<1> SUFFICES ASSUME Init PROVE TypeInv
  OBVIOUS
<1>1. JobRows /\ SessionRows
  BY ConstantsAssumption, StatusValues, AttemptValues DEF Init, JobRows, SessionRows
<1>2. QueueType
  BY EmptySeq, ConstantsAssumption DEF Init, QueueType
<1>4. WorkerType
  BY Zeros DEF Init, WorkerType
<1>5. BootType /\ HandlerType
  BY Zeros DEF Init, BootType, HandlerType
<1>3. WorldType /\ BoundType
  BY ConstantsAssumption DEF Init, WorldType, BoundType
<1> QED BY <1>1, <1>2, <1>3, <1>4, <1>5 DEF TypeInv, TypeOK, Held, Init

\* Every action keeps the types.
LEMMA TypeStep == TypeInv /\ [Next]_vars => TypeInv'
<1> SUFFICES ASSUME JobRows, SessionRows, QueueType, WorkerType, BootType, HandlerType, WorldType,
                    BoundType, Held, [Next]_vars
             PROVE  TypeInv'
  BY DEF TypeInv, TypeOK
<1> USE ConstantsAssumption DEF jobVars, sessVars, queueVars, workVars, bootVars, restartVars, worldVars, boundVars
<1>1. CASE Dequeue
  <2>1. queue \in Seq(1..njobs) /\ queue # <<>> /\ njobs' = njobs
    BY <1>1 DEF Dequeue, QueueType
  <2>2. Head(queue) \in 1..njobs /\ Tail(queue) \in Seq(1..njobs)
    BY <2>1, HeadTailProperties
  <2>3. QueueType'
    BY <1>1, <2>1, <2>2 DEF Dequeue, QueueType
  <2>4. WorkerType' /\ Held'
    BY <1>1, <2>1, <2>2 DEF Dequeue, WorkerType, Held, JobRows
  <2> QED BY <1>1, <2>3, <2>4 DEF Dequeue, TypeInv, TypeOK, JobRows, SessionRows, BootType, HandlerType, WorldType, BoundType
<1>2. CASE Launch
  <2>1. WorkerType'
    BY <1>2 DEF Launch, WorkerFrame, Up, Goto, WorkerType, JobRows, SessionRows
  <2>2. Held'
    BY <1>2 DEF Launch, WorkerFrame, Up, Goto, Held
  <2> QED BY <1>2, <2>1, <2>2 DEF Launch, WorkerFrame, Up, Goto, TypeInv, TypeOK, JobRows, SessionRows, QueueType, BootType, HandlerType, WorldType, BoundType
<1>3. CASE CreateSession
  <2>1. nsess \in Nat /\ nsess + 1 \in 0..MaxSessions /\ cur \in 0..MaxJobs
    BY <1>3 DEF CreateSession, SessionRows, WorkerType, JobRows
  <2>2. SessionRows'
    BY <1>3, <2>1 DEF CreateSession, SessionRows
  <2>3. WorkerType' /\ Held'
    BY <1>3, <2>1 DEF CreateSession, WorkerFrame, Goto, WorkerType, Held
  <2>4. BoundType'
    BY <1>3, <2>1 DEF CreateSession, WorkerFrame, BoundType
  <2> QED BY <1>3, <2>2, <2>3, <2>4 DEF CreateSession, WorkerFrame, TypeInv, TypeOK, JobRows, QueueType, BootType, HandlerType, WorldType
<1>4. CASE LinkSession
  <2>1. JobRows'
    BY <1>4, StatusValues DEF LinkSession, WorkerFrame, Up, Goto, SetStatus, JobRows, WorkerType
  <2>2. WorkerType'
    BY <1>4 DEF LinkSession, WorkerFrame, Up, Goto, SetStatus, WorkerType, JobRows, SessionRows
  <2>3. Held'
    BY <1>4 DEF LinkSession, WorkerFrame, Up, Goto, SetStatus, Held
  <2> QED BY <1>4, <2>1, <2>2, <2>3 DEF LinkSession, WorkerFrame, Up, Goto, SetStatus, TypeInv, TypeOK, SessionRows, QueueType, BootType, HandlerType, WorldType, BoundType
<1>5. CASE WaitEnds
  <2>1. WorkerType'
    BY <1>5 DEF WaitEnds, WorkerFrame, Up, Goto, WorkerType, JobRows, SessionRows
  <2>2. Held'
    BY <1>5 DEF WaitEnds, WorkerFrame, Up, Goto, Held
  <2> QED BY <1>5, <2>1, <2>2 DEF WaitEnds, WorkerFrame, Up, Goto, TypeInv, TypeOK, JobRows, SessionRows, QueueType, BootType, HandlerType, WorldType, BoundType
<1>6. CASE VerifySideEffect
  <2>1. comments' \in [Jobs -> 0..MaxPosts]
    BY <1>6, PruneType DEF VerifySideEffect, WorldType
  <2>2. WorldType'
    BY <1>6, <2>1 DEF VerifySideEffect, WorldType
  <2>3. WorkerType' /\ Held'
    BY <1>6 DEF VerifySideEffect, WorkerFrame, Goto, WorkerType, Held
  <2> QED BY <1>6, <2>2, <2>3 DEF VerifySideEffect, WorkerFrame, TypeInv, TypeOK, JobRows, SessionRows, QueueType, BootType, HandlerType, BoundType
<1>7. CASE FinalizeSession
  <2>1. SessionRows'
    BY <1>7 DEF FinalizeSession, WorkerFrame, Up, Goto, AfterSession, SessionRows
  <2>2. WorkerType'
    BY <1>7 DEF FinalizeSession, WorkerFrame, Up, Goto, AfterSession, WorkerType, JobRows, SessionRows
  <2>3. Held'
    BY <1>7 DEF FinalizeSession, WorkerFrame, Up, Goto, AfterSession, Held
  <2> QED BY <1>7, <2>1, <2>2, <2>3 DEF FinalizeSession, WorkerFrame, Up, Goto, AfterSession, TypeInv, TypeOK, JobRows, QueueType, BootType, HandlerType, WorldType, BoundType
<1>8. CASE RecheckRecovery
  <2>1. comments' \in [Jobs -> 0..MaxPosts]
    BY <1>8, PruneType DEF RecheckRecovery, WorldType
  <2>2. WorldType'
    BY <1>8, <2>1 DEF RecheckRecovery, WorldType
  <2>3. WorkerType' /\ Held'
    BY <1>8 DEF RecheckRecovery, WorkerFrame, Goto, WorkerType, Held
  <2> QED BY <1>8, <2>2, <2>3 DEF RecheckRecovery, WorkerFrame, TypeInv, TypeOK, JobRows, SessionRows, QueueType, BootType, HandlerType, BoundType
<1>9. CASE RelinkSession
  <2>1. JobRows'
    BY <1>9, StatusValues DEF RelinkSession, WorkerFrame, Up, Goto, SetStatus, JobRows, WorkerType
  <2>2. WorkerType'
    BY <1>9 DEF RelinkSession, WorkerFrame, Up, Goto, SetStatus, WorkerType, JobRows, SessionRows
  <2>3. Held'
    BY <1>9 DEF RelinkSession, WorkerFrame, Up, Goto, SetStatus, Held
  <2> QED BY <1>9, <2>1, <2>2, <2>3 DEF RelinkSession, WorkerFrame, Up, Goto, SetStatus, TypeInv, TypeOK, SessionRows, QueueType, BootType, HandlerType, WorldType, BoundType
<1>10. CASE CompleteSource
  <2>1. JobRows'
    BY <1>10, StatusValues, AttemptValues DEF CompleteSource, WorkerFrame, Up, Goto, JobRows
  <2>2. WorkerType'
    BY <1>10 DEF CompleteSource, WorkerFrame, Up, Goto, WorkerType, JobRows, SessionRows
  <2>3. Held'
    BY <1>10 DEF CompleteSource, WorkerFrame, Up, Goto, Held
  <2> QED BY <1>10, <2>1, <2>2, <2>3 DEF CompleteSource, WorkerFrame, Up, Goto, TypeInv, TypeOK, SessionRows, QueueType, BootType, HandlerType, WorldType, BoundType
<1>11. CASE CompleteJob
  <2>1. JobRows'
    BY <1>11, StatusValues DEF CompleteJob, WorkerReturns, Done, Up, SetStatus, JobRows
  <2>2. WorkerType'
    BY <1>11, DoneType DEF CompleteJob, WorkerReturns, JobRows
  <2>3. Held'
    BY <1>11 DEF CompleteJob, WorkerReturns, Done, Up, SetStatus, Held
  <2> QED BY <1>11, <2>1, <2>2, <2>3 DEF CompleteJob, WorkerReturns, Done, Up, SetStatus, TypeInv, TypeOK, SessionRows, QueueType, BootType, HandlerType, WorldType, BoundType
<1>12. CASE CapacityButPosted
  <2>1. comments' \in [Jobs -> 0..MaxPosts]
    BY <1>12, PruneType DEF CapacityButPosted, WorldType
  <2>2. WorldType'
    BY <1>12, <2>1 DEF CapacityButPosted, WorldType
  <2>3. WorkerType' /\ Held'
    BY <1>12 DEF CapacityButPosted, WorkerFrame, Goto, WorkerType, Held
  <2> QED BY <1>12, <2>2, <2>3 DEF CapacityButPosted, WorkerFrame, TypeInv, TypeOK, JobRows, SessionRows, QueueType, BootType, HandlerType, BoundType
<1>13. CASE CapacityRetry
  <2>1. JobRows'
    BY <1>13, StatusValues DEF CapacityRetry, WorkerFrame, Up, Goto, SetStatus, JobRows
  <2>2. WorkerType'
    BY <1>13 DEF CapacityRetry, WorkerFrame, Up, Goto, SetStatus, WorkerType, JobRows, SessionRows
  <2>3. Held'
    BY <1>13 DEF CapacityRetry, WorkerFrame, Up, Goto, SetStatus, Held
  <2> QED BY <1>13, <2>1, <2>2, <2>3 DEF CapacityRetry, WorkerFrame, Up, Goto, SetStatus, TypeInv, TypeOK, SessionRows, QueueType, BootType, HandlerType, WorldType, BoundType
<1>14. CASE CapacityExhausted
  <2>1. JobRows'
    BY <1>14, StatusValues DEF CapacityExhausted, SetStatus, JobRows
  <2>2. WorkerType' /\ Held'
    <3>1. CASE stage[cur] = RecoveryStage
      BY <1>14, <3>1 DEF CapacityExhausted, Goto, WorkerType, Held
    <3>2. CASE stage[cur] # RecoveryStage
      <4>1. Done /\ njobs' \in Nat
        BY <1>14, <3>2 DEF CapacityExhausted, JobRows
      <4> QED BY <1>14, <4>1, DoneType DEF CapacityExhausted, Done, Held
    <3> QED BY <3>1, <3>2
  <2> QED BY <1>14, <2>1, <2>2 DEF CapacityExhausted, TypeInv, TypeOK, SessionRows, QueueType, BootType, HandlerType, WorldType, BoundType
<1>15. CASE FailJob
  <2>1. JobRows'
    BY <1>15, StatusValues DEF FailJob, WorkerReturns, Done, Up, SetStatus, JobRows
  <2>2. WorkerType'
    BY <1>15, DoneType DEF FailJob, WorkerReturns, JobRows
  <2>3. Held'
    BY <1>15 DEF FailJob, WorkerReturns, Done, Up, SetStatus, Held
  <2> QED BY <1>15, <2>1, <2>2, <2>3 DEF FailJob, WorkerReturns, Done, Up, SetStatus, TypeInv, TypeOK, SessionRows, QueueType, BootType, HandlerType, WorldType, BoundType
<1>16. CASE JoinRecovery
  <2>1. JobRows'
    BY <1>16, StatusValues DEF JoinRecovery, WorkerReturns, Done, Up, SetStatus, JobRows
  <2>2. WorkerType'
    BY <1>16, DoneType DEF JoinRecovery, WorkerReturns, JobRows
  <2>3. Held'
    BY <1>16 DEF JoinRecovery, WorkerReturns, Done, Up, SetStatus, Held
  <2> QED BY <1>16, <2>1, <2>2, <2>3 DEF JoinRecovery, WorkerReturns, Done, Up, SetStatus, TypeInv, TypeOK, SessionRows, QueueType, BootType, HandlerType, WorldType, BoundType
<1>17. CASE EnqueueRecovery
  <2>1. cur \in 0..MaxJobs
    BY DEF WorkerType, JobRows
  <2>2. JobRows' /\ QueueType' /\ njobs' = njobs + 1
    BY <1>17, <2>1, CreateJobType, StageValues DEF EnqueueRecovery
  <2>3. WorkerType' /\ BootType' /\ Held'
    BY <1>17, <2>2 DEF EnqueueRecovery, Goto, WorkerType, BootType, Held, JobRows
  <2> QED BY <1>17, <2>2, <2>3 DEF EnqueueRecovery, TypeInv, TypeOK, SessionRows, HandlerType, WorldType, BoundType
<1>18. CASE MarkRecovering
  <2>1. JobRows'
    BY <1>18, StatusValues, AttemptValues DEF MarkRecovering, WorkerReturns, Done, Up, SetStatus, JobRows
  <2>2. WorkerType'
    BY <1>18, DoneType DEF MarkRecovering, WorkerReturns, JobRows
  <2>3. Held'
    BY <1>18 DEF MarkRecovering, WorkerReturns, Done, Up, SetStatus, Held
  <2> QED BY <1>18, <2>1, <2>2, <2>3 DEF MarkRecovering, WorkerReturns, Done, Up, SetStatus, TypeInv, TypeOK, SessionRows, QueueType, BootType, HandlerType, WorldType, BoundType
<1>19. CASE FailRecovery
  <2>1. JobRows'
    BY <1>19, StatusValues DEF FailRecovery, WorkerFrame, Up, Goto, SetStatus, JobRows
  <2>2. WorkerType'
    BY <1>19 DEF FailRecovery, WorkerFrame, Up, Goto, SetStatus, WorkerType, JobRows, SessionRows
  <2>3. Held'
    BY <1>19 DEF FailRecovery, WorkerFrame, Up, Goto, SetStatus, Held
  <2> QED BY <1>19, <2>1, <2>2, <2>3 DEF FailRecovery, WorkerFrame, Up, Goto, SetStatus, TypeInv, TypeOK, SessionRows, QueueType, BootType, HandlerType, WorldType, BoundType
<1>20. CASE FailSource
  <2>1. JobRows'
    BY <1>20, StatusValues, AttemptValues DEF FailSource, WorkerReturns, Done, Up, JobRows
  <2>2. WorkerType'
    BY <1>20, DoneType DEF FailSource, WorkerReturns, JobRows
  <2>3. Held'
    BY <1>20 DEF FailSource, WorkerReturns, Done, Up, Held
  <2> QED BY <1>20, <2>1, <2>2, <2>3 DEF FailSource, WorkerReturns, Done, Up, TypeInv, TypeOK, SessionRows, QueueType, BootType, HandlerType, WorldType, BoundType
<1>21. CASE BootStart
  <2>1. BootType'
    BY <1>21 DEF BootStart, BootFrame, BootType, JobRows, SessionRows, Jobs, Sessions
  <2>2. Held'
    BY <1>21 DEF BootStart, BootFrame, Held
  <2> QED BY <1>21, <2>1, <2>2 DEF BootStart, BootFrame, TypeInv, TypeOK, JobRows, SessionRows, QueueType, WorkerType, HandlerType, WorldType, BoundType
<1>22. CASE BootSubmit
  <2>1. PICK j \in bootSubmit : Submit(j) /\ bootSubmit' = bootSubmit \ {j}
    BY <1>22 DEF BootSubmit
  <2>2. j \in 1..njobs /\ njobs' = njobs
    BY <1>22, <2>1 DEF BootSubmit, BootType
  <2>3. QueueType'
    BY <2>1, <2>2, SubmitType
  <2>4. BootType' /\ Held'
    BY <1>22, <2>1 DEF BootSubmit, BootFrame, BootType, Held
  <2> QED BY <1>22, <2>3, <2>4 DEF BootSubmit, BootFrame, TypeInv, TypeOK, JobRows, SessionRows, WorkerType, HandlerType, WorldType, BoundType
<1>23. CASE BootVerifySeen
  <2>1. PICK j \in bootVerify : bootJob' = j /\ PruneDuplicates(j)
    BY <1>23 DEF BootVerifySeen
  <2>2. WorldType'
    BY <1>23, <2>1, PruneType DEF BootVerifySeen, WorldType
  <2>3. status' \in [Jobs -> Statuses] /\ recoveryAttempts' \in [Jobs -> 0..MaxRecoveryAttempts]
    BY <1>23, StatusValues, AttemptValues DEF BootVerifySeen, JobRows
  <2>4. JobRows'
    BY <1>23, <2>3 DEF BootVerifySeen, JobRows
  <2>5. BootType' /\ Held'
    BY <1>23, <2>1 DEF BootVerifySeen, BootFrame, BootType, Held
  <2> QED BY <1>23, <2>2, <2>4, <2>5 DEF BootVerifySeen, BootFrame, TypeInv, TypeOK, SessionRows, QueueType, WorkerType, HandlerType, BoundType
<1>24. CASE BootComplete
  <2>1. JobRows'
    BY <1>24, StatusValues DEF BootComplete, BootFrame, SetStatus, JobRows
  <2>2. BootType'
    BY <1>24 DEF BootComplete, BootFrame, SetStatus, BootType, JobRows, SessionRows, Jobs, Sessions
  <2>3. Held'
    BY <1>24 DEF BootComplete, BootFrame, SetStatus, Held
  <2> QED BY <1>24, <2>1, <2>2, <2>3 DEF BootComplete, BootFrame, SetStatus, TypeInv, TypeOK, SessionRows, QueueType, WorkerType, HandlerType, WorldType, BoundType
<1>25. CASE BootRequeue
  <2>1. JobRows'
    BY <1>25, StatusValues DEF BootRequeue, BootFrame, SetStatus, BootNext, JobRows
  <2>2. BootType'
    BY <1>25 DEF BootRequeue, BootFrame, SetStatus, BootNext, BootType, JobRows, SessionRows, Jobs, Sessions
  <2>3. Held'
    BY <1>25 DEF BootRequeue, BootFrame, SetStatus, BootNext, Held
  <2> QED BY <1>25, <2>1, <2>2, <2>3 DEF BootRequeue, BootFrame, SetStatus, BootNext, TypeInv, TypeOK, SessionRows, QueueType, WorkerType, HandlerType, WorldType, BoundType
<1>26. CASE BootCloseSession
  <2>1. bootJob \in bootVerify /\ bootJob \in 1..njobs /\ njobs' = njobs
    BY <1>26 DEF BootCloseSession, Held, BootType
  <2>2. QueueType'
    BY <1>26, <2>1, SubmitType DEF BootCloseSession, QueueType
  <2>3. SessionRows'
    BY <1>26 DEF BootCloseSession, BootFrame, ReconcileSession, SessionRows
  <2>4. BootType' /\ Held'
    BY <1>26, <2>1 DEF BootCloseSession, BootFrame, BootType, Held, JobRows
  <2> QED BY <1>26, <2>2, <2>3, <2>4 DEF BootCloseSession, BootFrame, TypeInv, TypeOK, JobRows, WorkerType, HandlerType, WorldType, BoundType
<1>27. CASE SweepReadSessions
  <2>1. BootType'
    BY <1>27 DEF SweepReadSessions, BootFrame, BootType, JobRows, SessionRows, Jobs, Sessions
  <2>2. Held'
    BY <1>27 DEF SweepReadSessions, BootFrame, Held
  <2> QED BY <1>27, <2>1, <2>2 DEF SweepReadSessions, BootFrame, TypeInv, TypeOK, JobRows, SessionRows, QueueType, WorkerType, HandlerType, WorldType, BoundType
<1>28. CASE SweepReadJobs
  <2>1. BootType'
    BY <1>28 DEF SweepReadJobs, BootFrame, SessionStatusFor, BootType, JobRows, SessionRows, Jobs, Sessions
  <2>2. Held'
    BY <1>28 DEF SweepReadJobs, BootFrame, SessionStatusFor, Held
  <2> QED BY <1>28, <2>1, <2>2 DEF SweepReadJobs, BootFrame, SessionStatusFor, TypeInv, TypeOK, JobRows, SessionRows, QueueType, WorkerType, HandlerType, WorldType, BoundType
<1>29. CASE SweepSession
  <2>1. SessionRows'
    BY <1>29 DEF SweepSession, BootFrame, ReconcileSession, SessionRows, BootType
  <2>2. BootType'
    BY <1>29 DEF SweepSession, BootFrame, ReconcileSession, BootType, JobRows, SessionRows, Jobs, Sessions
  <2>3. Held'
    BY <1>29 DEF SweepSession, BootFrame, ReconcileSession, Held
  <2> QED BY <1>29, <2>1, <2>2, <2>3 DEF SweepSession, BootFrame, ReconcileSession, TypeInv, TypeOK, JobRows, QueueType, WorkerType, HandlerType, WorldType, BoundType
<1>30. CASE BootDone
  <2>1. BootType'
    BY <1>30 DEF BootDone, BootFrame, BootType, JobRows, SessionRows, Jobs, Sessions
  <2>2. Held'
    BY <1>30 DEF BootDone, BootFrame, Held
  <2> QED BY <1>30, <2>1, <2>2 DEF BootDone, BootFrame, TypeInv, TypeOK, JobRows, SessionRows, QueueType, WorkerType, HandlerType, WorldType, BoundType
<1>31. CASE RestartBegin
  <2>0. \A j \in 1..njobs : j \in Jobs /\ sessionOf[j] \in 0..MaxSessions
    BY DEF JobRows, Jobs
  <2>1. HandlerType'
    <3>1. /\ restartTodo' = {<<j, sessionOf[j]>> : j \in 1..njobs}
          /\ restart' = "supersede" /\ UNCHANGED <<restartJob, opened>>
      BY <1>31 DEF RestartBegin, RestartFrame
    <3>2. restartTodo' \subseteq Jobs \X (0..MaxSessions)
      BY <2>0, <3>1
    <3> QED BY <3>1, <3>2 DEF HandlerType
  <2>2. BoundType'
    BY <1>31 DEF RestartBegin, RestartFrame, Serving, BoundType, SessionRows
  <2>3. Held'
    BY <1>31 DEF RestartBegin, RestartFrame, Serving, Held
  <2> QED BY <1>31, <2>1, <2>2, <2>3 DEF RestartBegin, RestartFrame, Serving, TypeInv, TypeOK, JobRows, SessionRows, QueueType, WorkerType, BootType, WorldType
<1>32. CASE RestartSupersede
  <2>1. JobRows'
    BY <1>32, StatusValues DEF RestartSupersede, RestartFrame, Serving, SetStatus, JobRows
  <2>2. HandlerType'
    BY <1>32 DEF RestartSupersede, RestartFrame, Serving, SetStatus, HandlerType, JobRows, SessionRows, Jobs
  <2>3. Held'
    BY <1>32 DEF RestartSupersede, RestartFrame, Serving, SetStatus, Held
  <2> QED BY <1>32, <2>1, <2>2, <2>3 DEF RestartSupersede, RestartFrame, Serving, SetStatus, TypeInv, TypeOK, SessionRows, QueueType, WorkerType, BootType, WorldType, BoundType
<1>33. CASE RestartCloseSession
  <2>1. SessionRows'
    BY <1>33 DEF RestartCloseSession, RestartFrame, Serving, ReconcileSession, SessionRows
  <2>2. HandlerType'
    BY <1>33 DEF RestartCloseSession, RestartFrame, Serving, ReconcileSession, HandlerType, JobRows, SessionRows, Jobs
  <2>3. Held'
    BY <1>33 DEF RestartCloseSession, RestartFrame, Serving, ReconcileSession, Held
  <2> QED BY <1>33, <2>1, <2>2, <2>3 DEF RestartCloseSession, RestartFrame, Serving, ReconcileSession, TypeInv, TypeOK, JobRows, QueueType, WorkerType, BootType, WorldType, BoundType
<1>34. CASE RestartEnqueue
  <2>1. JobRows' /\ QueueType' /\ njobs' = njobs + 1
    BY <1>34, CreateJobType, StageValues DEF RestartEnqueue
  <2>2. WorkerType' /\ BootType' /\ Held' /\ HandlerType'
    BY <1>34, <2>1 DEF RestartEnqueue, RestartFrame, WorkerType, BootType, Held, JobRows, HandlerType
  <2> QED BY <1>34, <2>1, <2>2 DEF RestartEnqueue, RestartFrame, TypeInv, TypeOK, SessionRows, WorldType, BoundType
<1>35. CASE AgentPost
  <2>1. cur \in Jobs /\ memPr[cur] \in BOOLEAN
    BY <1>35 DEF AgentPost, AgentRuns, Held, WorkerType, JobRows, QueueType, Jobs
  <2>2. EffectOf(cur, memPr[cur]) \in Effects
    BY <2>1, EffectType
  <2>3. WorldType'
    BY <1>35, <2>2, PostType DEF AgentPost, WorldType, Effects
  <2>4. JobRows' /\ SessionRows' /\ QueueType' /\ WorkerType'
    BY <1>35 DEF AgentPost, JobRows, SessionRows, QueueType, WorkerType
  <2>5. BootType' /\ HandlerType' /\ BoundType' /\ Held'
    BY <1>35 DEF AgentPost, BootType, HandlerType, BoundType, Held
  <2> QED BY <2>3, <2>4, <2>5 DEF TypeInv, TypeOK
<1>36. CASE Crash
  <2>1. orphans' \subseteq Effects
    <3>1. CASE AgentRuns
      <4>1. cur \in Jobs /\ memPr[cur] \in BOOLEAN
        BY <3>1 DEF AgentRuns, Held, WorkerType, JobRows, QueueType, Jobs
      <4>2. EffectOf(cur, memPr[cur]) \in Effects
        BY <4>1, EffectType
      <4> QED BY <1>36, <4>2 DEF Crash, WorldType, Effects
    <3>2. CASE ~AgentRuns
      BY <1>36, <3>2 DEF Crash, WorldType, Effects
    <3> QED BY <3>1, <3>2
  <2>2. WorldType'
    BY <1>36, <2>1 DEF Crash, WorldType, Effects
  <2>3. QueueType' /\ HandlerType'
    BY <1>36 DEF Crash, QueueType, HandlerType
  <2>4. WorkerType'
    BY <1>36, DoneType DEF Crash, JobRows
  <2>6. BootType' /\ Held'
    BY <1>36, Zeros DEF Crash, Done, BootType, Held, JobRows
  <2>5. BoundType'
    BY <1>36 DEF Crash, BoundType, SessionRows
  <2> QED BY <1>36, <2>2, <2>3, <2>4, <2>5, <2>6 DEF Crash, TypeInv, TypeOK, JobRows, SessionRows
<1>37. CASE \E st \in Arrivals : Arrive(st)
  <2>1. PICK st \in Arrivals : Arrive(st)
    BY <1>37
  <2>2. JobRows' /\ QueueType' /\ njobs' = njobs + 1
    BY <2>1, CreateJobType, StageValues DEF Arrive, HandlerFrame
  <2>3. WorkerType' /\ BootType' /\ Held'
    BY <2>1, <2>2 DEF Arrive, HandlerFrame, WorkerType, BootType, Held, JobRows
  <2>4. HandlerType' /\ BoundType' /\ WorldType' /\ SessionRows'
    BY <2>1 DEF Arrive, HandlerFrame, HandlerType, BoundType, WorldType, SessionRows
  <2> QED BY <2>2, <2>3, <2>4 DEF TypeInv, TypeOK
<1>38. CASE \E j \in Jobs : PullRequestOpened(j)
  <2>1. JobRows'
    BY <1>38, StatusValues DEF PullRequestOpened, HandlerFrame, Serving, SetStatus, JobRows
  <2>2. HandlerType'
    BY <1>38 DEF PullRequestOpened, HandlerFrame, Serving, SetStatus, HandlerType, JobRows, SessionRows, Jobs
  <2>3. WorldType'
    BY <1>38, StatusValues DEF PullRequestOpened, HandlerFrame, Serving, SetStatus, WorldType
  <2>4. Held'
    BY <1>38 DEF PullRequestOpened, HandlerFrame, Serving, SetStatus, Held
  <2> QED BY <1>38, <2>1, <2>2, <2>3, <2>4 DEF PullRequestOpened, HandlerFrame, Serving, SetStatus, TypeInv, TypeOK, SessionRows, QueueType, WorkerType, BootType, BoundType
<1>39. CASE EnqueueReview
  <2>2. JobRows' /\ QueueType' /\ njobs' = njobs + 1
    BY <1>39, CreateJobType, StageValues DEF EnqueueReview, HandlerFrame
  <2>3. WorkerType' /\ BootType' /\ Held'
    BY <1>39, <2>2 DEF EnqueueReview, HandlerFrame, WorkerType, BootType, Held, JobRows
  <2>4. HandlerType' /\ BoundType' /\ WorldType' /\ SessionRows'
    BY <1>39 DEF EnqueueReview, HandlerFrame, HandlerType, BoundType, WorldType, SessionRows
  <2> QED BY <2>2, <2>3, <2>4 DEF TypeInv, TypeOK
<1>40. CASE \E j \in Jobs : LoseEvent(j)
  <2>1. WorldType'
    BY <1>40 DEF LoseEvent, WorldFrame, WorldType
  <2>2. Held'
    BY <1>40 DEF LoseEvent, WorldFrame, Held
  <2> QED BY <1>40, <2>1, <2>2 DEF LoseEvent, WorldFrame, TypeInv, TypeOK, JobRows, SessionRows, QueueType, WorkerType, BootType, HandlerType, BoundType
<1>41. CASE \E e \in orphans : OrphanPosts(e)
  <2>1. PICK e \in orphans : OrphanPosts(e)
    BY <1>41
  <2>2. e \in Effects
    BY <2>1 DEF WorldType, Effects
  <2>3. WorldType'
    BY <2>1, <2>2, PostType DEF OrphanPosts, WorldType, Effects
  <2> QED BY <2>1, <2>3 DEF OrphanPosts, WorldFrame, TypeInv, TypeOK, JobRows, SessionRows, QueueType, WorkerType, BootType, HandlerType, BoundType, Held
<1>42. CASE \E e \in orphans : OrphanExits(e)
  <2>1. WorldType'
    BY <1>42 DEF OrphanExits, WorldFrame, WorldType
  <2>2. Held'
    BY <1>42 DEF OrphanExits, WorldFrame, Held
  <2> QED BY <1>42, <2>1, <2>2 DEF OrphanExits, WorldFrame, TypeInv, TypeOK, JobRows, SessionRows, QueueType, WorkerType, BootType, HandlerType, BoundType
<1>43. CASE UNCHANGED vars
  <2>1. JobRows' /\ SessionRows' /\ QueueType' /\ WorkerType'
    BY <1>43 DEF vars, JobRows, SessionRows, QueueType, WorkerType
  <2>2. BootType' /\ HandlerType' /\ WorldType' /\ BoundType' /\ Held'
    BY <1>43 DEF vars, BootType, HandlerType, WorldType, BoundType, Held
  <2> QED BY <2>1, <2>2 DEF TypeInv, TypeOK
<1> QED
  BY <1>1, <1>2, <1>3, <1>4, <1>5, <1>6, <1>7, <1>8, <1>9, <1>10, <1>11, <1>12, <1>13, <1>14, <1>15, <1>16, <1>17, <1>18, <1>19, <1>20, <1>21, <1>22, <1>23, <1>24, <1>25, <1>26, <1>27, <1>28, <1>29, <1>30, <1>31, <1>32, <1>33, <1>34, <1>35, <1>36, <1>37, <1>38, <1>39, <1>40, <1>41, <1>42, <1>43 DEF Next, WorkerStep, BootStep, RestartStep

---------------------------------------------------------------------------
(***************************************************************************)
(* Every pending row has one, and only one, who will run it.               *)
(***************************************************************************)

\* What this process was given: the worker's job, its queue and the rows the boot
\* loop is still ahead of are kept apart.
Apart ==
  /\ boot = "down" => cur = 0 /\ queue = <<>> /\ submitted = {}
  /\ cur # 0 => cur \in submitted
  /\ (bootSubmit \cup bootVerify) \cap submitted = {}
  /\ bootSubmit \cap bootVerify = {}
  /\ \A i \in DOMAIN queue : queue[i] \in submitted /\ queue[i] # cur
  /\ \A i, k \in DOMAIN queue : queue[i] = queue[k] => i = k

\* The rows that are let go of are not pending any more.
Settled ==
  /\ \A j \in Jobs : status[j] \in Active => j \in 1..njobs
  /\ pc = "failSource" => status[cur] \notin Active
  /\ boot = "closeCompleted" => status[bootJob] \notin Active

IInv == TypeInv /\ Apart /\ Settled /\ PendingIsServed

\* Which statuses are pending.
LEMMA ActiveValues ==
  /\ {"queued", "launched", "retrying"} \subseteq Active
  /\ {"absent", "completed", "failed", "superseded", "recovering"} \cap Active = {}
  BY DEF Active

\* Letting go of a job, and nothing else, keeps them apart.
LEMMA ApartFrame ==
  ASSUME Apart, UNCHANGED <<queue, submitted, bootSubmit, bootVerify>>, cur' = cur \/ cur' = 0,
         \A i \in DOMAIN queue : queue[i] # 0,
         boot' = boot \/ (boot' # "down")
  PROVE  Apart'
  BY DEF Apart

\* So does handing a job to the worker's queue, once.
LEMMA ApartAppend ==
  ASSUME QueueType, Apart, NEW j, j \notin submitted, j # cur,
         queue' = Append(queue, j), submitted' = submitted \cup {j}, cur' = cur, boot' # "down",
         bootSubmit' \subseteq bootSubmit, bootVerify' \subseteq bootVerify,
         j \notin bootSubmit' \cup bootVerify'
  PROVE  Apart' /\ \A k : InQueue(k) \/ k = j => InQueue(k)'
<1> DEFINE n == Len(queue)
<1>1. /\ n \in Nat /\ DOMAIN queue = 1..n /\ DOMAIN queue' = 1..(n + 1)
      /\ \A i \in 1..n : queue'[i] = queue[i]
      /\ queue'[n + 1] = j
  BY DEF QueueType
<1> HIDE DEF n
<1>2. \A i \in DOMAIN queue' : i \in DOMAIN queue \/ i = n + 1
  BY <1>1
<1>3. \A i \in DOMAIN queue' : queue'[i] \in submitted' /\ queue'[i] # cur'
  BY <1>1, <1>2 DEF Apart
<1>4. \A i, k \in DOMAIN queue' : queue'[i] = queue'[k] => i = k
  BY <1>1, <1>2 DEF Apart
<1>5. \A k : InQueue(k) \/ k = j => InQueue(k)'
  BY <1>1 DEF InQueue
<1> QED BY <1>3, <1>4, <1>5 DEF Apart

\* A new job is in no one's hands yet.
LEMMA ApartCreate ==
  ASSUME JobRows, QueueType, WorkerType, BootType, Apart, NEW st, NEW src, CreateJob(st, src),
         boot # "down", UNCHANGED <<cur, boot, bootSubmit, bootVerify>>
  PROVE  Apart' /\ \A k : InQueue(k) \/ k = njobs + 1 => InQueue(k)'
<1>1. njobs \in Nat /\ njobs + 1 \notin 1..njobs /\ njobs + 1 # cur
  BY DEF JobRows, WorkerType
<1>2. njobs + 1 \notin submitted /\ njobs + 1 \notin bootSubmit /\ njobs + 1 \notin bootVerify
  BY <1>1 DEF QueueType, BootType
<1> QED BY <1>1, <1>2, ApartAppend DEF CreateJob

\* Every action keeps the worker's job, its queue and the boot loop's rows apart.
LEMMA ApartStep == TypeInv /\ Apart /\ [Next]_vars => Apart'
<1> SUFFICES ASSUME TypeInv, Apart, [Next]_vars PROVE Apart'
  OBVIOUS
<1> USE DEF jobVars, sessVars, queueVars, workVars, bootVars, restartVars, worldVars, boundVars
<1>0. JobRows /\ QueueType /\ WorkerType /\ BootType /\ Held /\ \A i \in DOMAIN queue : queue[i] # 0
  <2>1. JobRows /\ QueueType /\ WorkerType /\ BootType /\ Held
    BY DEF TypeInv, TypeOK
  <2>2. queue \in Seq(1..njobs) /\ \A i \in DOMAIN queue : i \in 1..Len(queue)
    BY <2>1, LenProperties DEF QueueType
  <2>3. \A i \in DOMAIN queue : queue[i] \in 1..njobs
    BY <2>2, ElementOfSeq
  <2> QED BY <2>1, <2>3

<1>1. CASE Dequeue
  <2> DEFINE n == Len(queue)
  <2>1. /\ n \in Nat \ {0} /\ DOMAIN queue = 1..n /\ Head(queue) = queue[1]
        /\ DOMAIN queue' = 1..(n - 1) /\ \A i \in 1..(n - 1) : queue'[i] = queue[i + 1]
    BY <1>1, <1>0, EmptySeq DEF Dequeue, QueueType
  <2> HIDE DEF n
  <2>2. \A i \in DOMAIN queue' : /\ i + 1 \in DOMAIN queue /\ i + 1 # 1
                                 /\ queue'[i] = queue[i + 1]
    BY <2>1
  <2>3. 1 \in DOMAIN queue /\ queue[1] \in submitted
    BY <2>1 DEF Apart
  <2>4. \A i \in DOMAIN queue' : queue'[i] \in submitted /\ queue'[i] # queue[1] /\ queue'[i] # cur
    BY <2>2, <2>3 DEF Apart
  <2>5. \A i, k \in DOMAIN queue' : queue'[i] = queue'[k] => i = k
    BY <2>1, <2>2 DEF Apart
  <2>6. cur' = cur \/ cur' = queue[1]
    BY <1>1, <2>1 DEF Dequeue
  <2>7. boot' # "down" /\ UNCHANGED <<submitted, bootSubmit, bootVerify>>
    BY <1>1 DEF Dequeue, Up
  <2> QED BY <2>3, <2>4, <2>5, <2>6, <2>7 DEF Apart
<1>2. CASE Launch
  BY <1>0, <1>2, ApartFrame DEF Launch, WorkerFrame
<1>3. CASE CreateSession
  BY <1>0, <1>3, ApartFrame DEF CreateSession, WorkerFrame
<1>4. CASE LinkSession
  BY <1>0, <1>4, ApartFrame DEF LinkSession, WorkerFrame
<1>5. CASE WaitEnds
  BY <1>0, <1>5, ApartFrame DEF WaitEnds, WorkerFrame
<1>6. CASE VerifySideEffect
  BY <1>0, <1>6, ApartFrame DEF VerifySideEffect, WorkerFrame
<1>7. CASE FinalizeSession
  BY <1>0, <1>7, ApartFrame DEF FinalizeSession, WorkerFrame
<1>8. CASE RecheckRecovery
  BY <1>0, <1>8, ApartFrame DEF RecheckRecovery, WorkerFrame
<1>9. CASE RelinkSession
  BY <1>0, <1>9, ApartFrame DEF RelinkSession, WorkerFrame
<1>10. CASE CompleteSource
  BY <1>0, <1>10, ApartFrame DEF CompleteSource, WorkerFrame
<1>11. CASE CompleteJob
  BY <1>0, <1>11, ApartFrame DEF CompleteJob, WorkerReturns, Done
<1>12. CASE CapacityButPosted
  BY <1>0, <1>12, ApartFrame DEF CapacityButPosted, WorkerFrame
<1>13. CASE CapacityRetry
  BY <1>0, <1>13, ApartFrame DEF CapacityRetry, WorkerFrame
<1>14. CASE CapacityExhausted
  BY <1>0, <1>14, ApartFrame DEF CapacityExhausted, Done
<1>15. CASE FailJob
  BY <1>0, <1>15, ApartFrame DEF FailJob, WorkerReturns, Done
<1>16. CASE JoinRecovery
  BY <1>0, <1>16, ApartFrame DEF JoinRecovery, WorkerReturns, Done
<1>17. CASE EnqueueRecovery
  <2>1. CreateJob(RecoveryStage, cur) /\ boot # "down" /\ UNCHANGED <<cur, boot, bootSubmit, bootVerify>>
    BY <1>17 DEF EnqueueRecovery, Up
  <2> QED BY <2>1, <1>0, ApartCreate
<1>18. CASE MarkRecovering
  BY <1>0, <1>18, ApartFrame DEF MarkRecovering, WorkerReturns, Done
<1>19. CASE FailRecovery
  BY <1>0, <1>19, ApartFrame DEF FailRecovery, WorkerFrame
<1>20. CASE FailSource
  BY <1>0, <1>20, ApartFrame DEF FailSource, WorkerReturns, Done
<1>21. CASE BootStart
  BY <1>21 DEF BootStart, BootFrame, Apart
<1>22. CASE BootSubmit
  <2>1. PICK j \in bootSubmit : Submit(j) /\ bootSubmit' = bootSubmit \ {j} /\ boot = "scan"
    BY <1>22 DEF BootSubmit, BootNext
  <2>2. j \notin submitted /\ j # cur /\ j \notin bootVerify
    BY <1>0, <2>1 DEF Apart, BootType
  <2> QED BY <1>22, <2>1, <2>2, <1>0, ApartAppend DEF BootSubmit, BootFrame, Submit
<1>23. CASE BootVerifySeen
  BY <1>0, <1>23, ApartFrame DEF BootVerifySeen, BootFrame
<1>24. CASE BootComplete
  BY <1>0, <1>24, ApartFrame DEF BootComplete, BootFrame
<1>25. CASE BootRequeue
  BY <1>0, <1>25, ApartFrame DEF BootRequeue, BootFrame
<1>26. CASE BootCloseSession
  <2>1. bootJob \in bootVerify /\ boot' # "down" /\ boot # "down"
    BY <1>26, <1>0 DEF BootCloseSession, Held
  <2>2. bootJob \notin submitted /\ bootJob # cur /\ bootJob \notin bootSubmit
    BY <1>0, <2>1 DEF Apart, BootType
  <2>3. CASE boot = "closeRequeued"
    BY <1>26, <2>1, <2>2, <2>3, <1>0, ApartAppend DEF BootCloseSession, BootFrame, Submit
  <2>4. CASE boot # "closeRequeued"
    BY <1>26, <2>1, <2>4 DEF BootCloseSession, BootFrame, Apart
  <2> QED BY <2>3, <2>4
<1>27. CASE SweepReadSessions
  BY <1>0, <1>27, ApartFrame DEF SweepReadSessions, BootFrame
<1>28. CASE SweepReadJobs
  BY <1>0, <1>28, ApartFrame DEF SweepReadJobs, BootFrame
<1>29. CASE SweepSession
  BY <1>0, <1>29, ApartFrame DEF SweepSession, BootFrame
<1>30. CASE BootDone
  BY <1>0, <1>30, ApartFrame DEF BootDone, BootFrame
<1>31. CASE RestartBegin
  BY <1>0, <1>31, ApartFrame DEF RestartBegin, RestartFrame
<1>32. CASE RestartSupersede
  BY <1>0, <1>32, ApartFrame DEF RestartSupersede, RestartFrame
<1>33. CASE RestartCloseSession
  BY <1>0, <1>33, ApartFrame DEF RestartCloseSession, RestartFrame
<1>34. CASE RestartEnqueue
  <2>1. Serving /\ UNCHANGED <<cur, boot, bootSubmit, bootVerify>>
    BY <1>34 DEF RestartEnqueue, RestartFrame
  <2>2. CreateJob("issue_request", 0)
    BY <1>34 DEF RestartEnqueue
  <2> QED BY <2>1, <2>2, <1>0, ApartCreate DEF Serving
<1>35. CASE AgentPost
  BY <1>0, <1>35, ApartFrame DEF AgentPost
<1>36. CASE Crash
  BY <1>36 DEF Crash, Done, Apart
<1>37. CASE \E st \in Arrivals : Arrive(st)
  <2>1. PICK st \in Arrivals : Arrive(st)
    BY <1>37
  <2>2. CreateJob(st, 0) /\ boot # "down" /\ UNCHANGED <<cur, boot, bootSubmit, bootVerify>>
    BY <2>1 DEF Arrive, HandlerFrame, Serving
  <2> QED BY <2>2, <1>0, ApartCreate
<1>38. CASE \E j \in Jobs : PullRequestOpened(j)
  BY <1>0, <1>38, ApartFrame DEF PullRequestOpened, HandlerFrame
<1>39. CASE EnqueueReview
  <2>1. CreateJob("review_round", 0) /\ boot # "down" /\ UNCHANGED <<cur, boot, bootSubmit, bootVerify>>
    BY <1>39 DEF EnqueueReview, HandlerFrame, Serving
  <2> QED BY <2>1, <1>0, ApartCreate
<1>40. CASE \E j \in Jobs : LoseEvent(j)
  BY <1>0, <1>40, ApartFrame DEF LoseEvent, WorldFrame
<1>41. CASE \E e \in orphans : OrphanPosts(e)
  BY <1>0, <1>41, ApartFrame DEF OrphanPosts, WorldFrame
<1>42. CASE \E e \in orphans : OrphanExits(e)
  BY <1>0, <1>42, ApartFrame DEF OrphanExits, WorldFrame
<1>43. CASE UNCHANGED vars
  BY <1>0, <1>43, ApartFrame DEF vars
<1> QED
  BY <1>1, <1>2, <1>3, <1>4, <1>5, <1>6, <1>7, <1>8, <1>9, <1>10, <1>11, <1>12, <1>13, <1>14, <1>15, <1>16, <1>17, <1>18, <1>19, <1>20, <1>21, <1>22, <1>23, <1>24, <1>25, <1>26, <1>27, <1>28, <1>29, <1>30, <1>31, <1>32, <1>33, <1>34, <1>35, <1>36, <1>37, <1>38, <1>39, <1>40, <1>41, <1>42, <1>43 DEF Next, WorkerStep, BootStep, RestartStep

\* Every action leaves a pending row to someone, and settles what it lets go of.
LEMMA PendingStep ==
  TypeInv /\ Apart /\ Settled /\ PendingIsServed /\ [Next]_vars => Settled' /\ PendingIsServed'
<1> SUFFICES ASSUME TypeInv, Apart, Settled, PendingIsServed, [Next]_vars
             PROVE  Settled' /\ PendingIsServed'
  OBVIOUS
<1> USE ActiveValues DEF jobVars, sessVars, queueVars, workVars, bootVars, restartVars, worldVars, boundVars
<1>0. JobRows /\ QueueType /\ WorkerType /\ BootType /\ Held
  BY DEF TypeInv, TypeOK

<1>1. CASE Dequeue
  <2> DEFINE n == Len(queue)
  <2>1. /\ n \in Nat \ {0} /\ DOMAIN queue = 1..n /\ Head(queue) = queue[1]
        /\ DOMAIN queue' = 1..(n - 1) /\ \A i \in 1..(n - 1) : queue'[i] = queue[i + 1]
    BY <1>1, <1>0, EmptySeq DEF Dequeue, QueueType
  <2> HIDE DEF n
  <2>2. \A i \in DOMAIN queue : i # 1 => i - 1 \in DOMAIN queue' /\ queue'[i - 1] = queue[i]
    BY <2>1
  <2>3. \A j : InQueue(j) => j = queue[1] \/ InQueue(j)'
    BY <2>2 DEF InQueue
  <2>4. /\ UNCHANGED <<njobs, status, boot, bootSubmit, bootVerify, bootJob>>
        /\ cur = 0 /\ Up
        /\ \/ cur' = queue[1]
           \/ cur' = 0 /\ status[queue[1]] \notin Active
    <3>1. /\ UNCHANGED <<njobs, status, boot, bootSubmit, bootVerify, bootJob>>
          /\ Up /\ pc = "idle"
      BY <1>1 DEF Dequeue
    <3>2. cur = 0
      BY <3>1, <1>0 DEF Held
    <3>3. CASE status[queue[1]] = "superseded"
      BY <1>1, <2>1, <3>1, <3>2, <3>3 DEF Dequeue
    <3>4. CASE status[queue[1]] # "superseded"
      BY <1>1, <2>1, <3>1, <3>2, <3>4 DEF Dequeue
    <3> QED BY <3>1, <3>2, <3>3, <3>4
  <2>5. pc' # "failSource"
    BY <1>1 DEF Dequeue
  <2>6. \A j \in Jobs : j # 0
    BY DEF Jobs
  <2>7. PendingIsServed'
    BY <2>3, <2>4, <2>6 DEF PendingIsServed, Up
  <2> QED BY <2>4, <2>5, <2>7 DEF Settled
<1>2. CASE Launch
  BY <1>0, <1>2 DEF Launch, WorkerFrame, Goto, Up, Settled, PendingIsServed, InQueue, JobRows, WorkerType, Held
<1>3. CASE CreateSession
  BY <1>0, <1>3 DEF CreateSession, WorkerFrame, Goto, Up, Settled, PendingIsServed, InQueue, JobRows, WorkerType, Held
<1>4. CASE LinkSession
  <2>1. cur \in 1..njobs /\ njobs' = njobs /\ \A j \in Jobs : j # cur => status'[j] = status[j]
    BY <1>4, <1>0 DEF LinkSession, SetStatus, WorkerType, Held, JobRows
  <2>2. /\ UNCHANGED <<cur, queue, boot, bootSubmit, bootVerify, bootJob>>
        /\ pc' # "failSource" /\ Up
    BY <1>4 DEF LinkSession, WorkerFrame, Goto
  <2>3. boot = "closeCompleted" => bootJob # cur /\ bootJob \in Jobs
    BY <1>0, <2>1, ConstantsAssumption DEF Apart, Held, BootType, JobRows, Jobs
  <2>4. Settled'
    BY <2>1, <2>2, <2>3 DEF Settled
  <2> QED BY <2>1, <2>2, <2>4 DEF PendingIsServed, InQueue, Up
<1>5. CASE WaitEnds
  BY <1>0, <1>5 DEF WaitEnds, WorkerFrame, Goto, Up, Settled, PendingIsServed, InQueue, JobRows, WorkerType, Held
<1>6. CASE VerifySideEffect
  BY <1>0, <1>6 DEF VerifySideEffect, WorkerFrame, Goto, Up, Settled, PendingIsServed, InQueue, JobRows, WorkerType, Held
<1>7. CASE FinalizeSession
  BY <1>0, <1>7 DEF FinalizeSession, WorkerFrame, Goto, AfterSession, Up, Settled, PendingIsServed, InQueue, JobRows, WorkerType, Held
<1>8. CASE RecheckRecovery
  BY <1>0, <1>8 DEF RecheckRecovery, WorkerFrame, Goto, Up, Settled, PendingIsServed, InQueue, JobRows, WorkerType, Held
<1>9. CASE RelinkSession
  <2>1. cur \in 1..njobs /\ njobs' = njobs /\ \A j \in Jobs : j # cur => status'[j] = status[j]
    BY <1>9, <1>0 DEF RelinkSession, SetStatus, WorkerType, Held, JobRows
  <2>2. /\ UNCHANGED <<cur, queue, boot, bootSubmit, bootVerify, bootJob>>
        /\ pc' # "failSource" /\ Up
    BY <1>9 DEF RelinkSession, WorkerFrame, Goto
  <2>3. boot = "closeCompleted" => bootJob # cur /\ bootJob \in Jobs
    BY <1>0, <2>1, ConstantsAssumption DEF Apart, Held, BootType, JobRows, Jobs
  <2>4. Settled'
    BY <2>1, <2>2, <2>3 DEF Settled
  <2> QED BY <2>1, <2>2, <2>4 DEF PendingIsServed, InQueue, Up
<1>10. CASE CompleteSource
  BY <1>0, <1>10 DEF CompleteSource, WorkerFrame, Goto, Up, Settled, PendingIsServed, InQueue, JobRows, WorkerType, Held
<1>11. CASE CompleteJob
  BY <1>0, <1>11 DEF CompleteJob, WorkerReturns, Done, SetStatus, Up, Settled, PendingIsServed, InQueue, JobRows, WorkerType, Held
<1>12. CASE CapacityButPosted
  BY <1>0, <1>12 DEF CapacityButPosted, WorkerFrame, Goto, Up, Settled, PendingIsServed, InQueue, JobRows, WorkerType, Held
<1>13. CASE CapacityRetry
  <2>1. cur \in 1..njobs /\ njobs' = njobs /\ \A j \in Jobs : j # cur => status'[j] = status[j]
    BY <1>13, <1>0 DEF CapacityRetry, SetStatus, WorkerType, Held, JobRows
  <2>2. /\ UNCHANGED <<cur, queue, boot, bootSubmit, bootVerify, bootJob>>
        /\ pc' # "failSource" /\ Up
    BY <1>13 DEF CapacityRetry, WorkerFrame, Goto
  <2>3. boot = "closeCompleted" => bootJob # cur /\ bootJob \in Jobs
    BY <1>0, <2>1, ConstantsAssumption DEF Apart, Held, BootType, JobRows, Jobs
  <2>4. Settled'
    BY <2>1, <2>2, <2>3 DEF Settled
  <2> QED BY <2>1, <2>2, <2>4 DEF PendingIsServed, InQueue, Up
<1>14. CASE CapacityExhausted
  BY <1>0, <1>14 DEF CapacityExhausted, Done, Goto, SetStatus, Up, Settled, PendingIsServed, InQueue, JobRows, WorkerType, Held
<1>15. CASE FailJob
  BY <1>0, <1>15 DEF FailJob, WorkerReturns, Done, SetStatus, Up, Settled, PendingIsServed, InQueue, JobRows, WorkerType, Held
<1>16. CASE JoinRecovery
  BY <1>0, <1>16 DEF JoinRecovery, WorkerReturns, Done, SetStatus, Up, Settled, PendingIsServed, InQueue, JobRows, WorkerType, Held
<1>17. CASE EnqueueRecovery
  <2>2. CreateJob(RecoveryStage, cur) /\ boot # "down" /\ boot' # "down" /\ UNCHANGED <<cur, boot, bootSubmit, bootVerify, bootJob>>
    BY <1>17 DEF EnqueueRecovery, Up, Goto
  <2>3. \A k : InQueue(k) \/ k = njobs + 1 => InQueue(k)'
    BY <2>2, <1>0, ApartCreate
  <2>4. /\ njobs \in Nat /\ njobs' = njobs + 1 /\ 1..njobs \subseteq 1..(njobs + 1)
        /\ status' = [status EXCEPT ![njobs + 1] = "queued"] /\ njobs + 1 \notin 1..njobs
        /\ njobs + 1 \in 1..(njobs + 1)
    BY <2>2, <1>0 DEF CreateJob, JobRows
  <2>5. PendingIsServed'
    BY <2>2, <2>3, <2>4, <1>0 DEF PendingIsServed, Up, JobRows
  <2>6. Settled'
    BY <1>17, <2>2, <2>4, <1>0 DEF EnqueueRecovery, Up, Goto, Settled, JobRows, WorkerType, BootType
  <2> QED BY <2>5, <2>6
<1>18. CASE MarkRecovering
  BY <1>0, <1>18 DEF MarkRecovering, WorkerReturns, Done, SetStatus, Up, Settled, PendingIsServed, InQueue, JobRows, WorkerType, Held
<1>19. CASE FailRecovery
  <2>1. cur \in Jobs /\ njobs' = njobs /\ status' = [status EXCEPT ![cur] = "failed"]
    BY <1>19, <1>0, ConstantsAssumption DEF FailRecovery, WorkerFrame, SetStatus, WorkerType, Held, JobRows, Jobs
  <2>2. UNCHANGED <<cur, queue, boot, bootSubmit, bootVerify, bootJob>> /\ Up
    BY <1>19 DEF FailRecovery, WorkerFrame
  <2> QED BY <2>1, <2>2, <1>0 DEF PendingIsServed, InQueue, Up, Settled, JobRows
<1>20. CASE FailSource
  BY <1>0, <1>20 DEF FailSource, WorkerReturns, Done, Up, Settled, PendingIsServed, InQueue, JobRows, WorkerType, Held
<1>21. CASE BootStart
  <2>1. /\ UNCHANGED <<njobs, status, cur, pc>> /\ boot' = "scan" /\ pc = "idle"
        /\ \A j \in 1..njobs : status[j] \in Active => j \in bootSubmit' \cup bootVerify'
    BY <1>21, <1>0 DEF BootStart, BootFrame, Apart, Held, Active
  <2> QED BY <2>1 DEF Settled, PendingIsServed
<1>22. CASE BootSubmit
  <2>1. PICK j \in bootSubmit : Submit(j) /\ bootSubmit' = bootSubmit \ {j} /\ boot = "scan"
    BY <1>22 DEF BootSubmit, BootNext
  <2>2. j \notin submitted /\ j # cur /\ j \notin bootVerify
    BY <1>0, <2>1 DEF Apart, BootType
  <2>3. \A k : InQueue(k) \/ k = j => InQueue(k)'
    BY <1>22, <2>1, <2>2, <1>0, ApartAppend DEF BootSubmit, BootFrame, Submit
  <2>4. UNCHANGED <<njobs, status, cur, pc, boot, bootVerify, bootJob>>
    BY <1>22 DEF BootSubmit, BootFrame
  <2> QED BY <2>1, <2>3, <2>4 DEF PendingIsServed, Settled, Up
<1>23. CASE BootVerifySeen
  <2>1. \A j \in Jobs : status'[j] = status[j] \/ status'[j] = "completed"
    BY <1>23, <1>0 DEF BootVerifySeen, JobRows
  <2>2. /\ UNCHANGED <<njobs, cur, pc, queue, bootSubmit, bootVerify>>
        /\ boot = "scan" /\ boot' = "complete"
    BY <1>23 DEF BootVerifySeen, BootFrame, BootNext
  <2>3. cur = 0 \/ cur \in Jobs
    BY <1>0, ConstantsAssumption DEF WorkerType, JobRows, Jobs
  <2>4. pc = "failSource" => cur \in Jobs
    BY <2>3, <1>0 DEF Held
  <2>5. \A j \in Jobs : status'[j] \in Active => status[j] \in Active
    BY <2>1
  <2> QED BY <2>2, <2>4, <2>5 DEF PendingIsServed, Settled, InQueue, Up
<1>24. CASE BootComplete
  <2>1. bootJob \in Jobs /\ status' = [status EXCEPT ![bootJob] = "completed"]
    BY <1>24, <1>0, ConstantsAssumption DEF BootComplete, SetStatus, Held, BootType, JobRows, Jobs
  <2>2. /\ UNCHANGED <<njobs, cur, pc, queue, bootSubmit, bootVerify, bootJob>> /\ Up
    BY <1>24 DEF BootComplete, BootFrame, Up
  <2>3. pc = "failSource" => cur \in Jobs
    BY <1>0, ConstantsAssumption DEF WorkerType, JobRows, Jobs, Held
  <2>4. \A j \in Jobs : status'[j] \in Active => status[j] \in Active
    BY <2>1, <1>0 DEF JobRows
  <2>5. status'[bootJob] \notin Active
    BY <2>1, <1>0 DEF JobRows
  <2> QED BY <2>2, <2>3, <2>4, <2>5 DEF PendingIsServed, Settled, InQueue, Up
<1>25. CASE BootRequeue
  <2>1. PICK j \in bootVerify : status' = [status EXCEPT ![j] = "queued"]
    BY <1>25 DEF BootRequeue, SetStatus
  <2>2. /\ UNCHANGED <<njobs, cur, pc, queue, bootSubmit, bootVerify>> /\ Up
        /\ boot' = "closeRequeued"
    BY <1>25 DEF BootRequeue, BootFrame, BootNext, Up
  <2>3. pc = "failSource" => cur \in Jobs /\ cur # j
    BY <2>1, <1>0, ConstantsAssumption DEF WorkerType, JobRows, Jobs, Held, Apart
  <2>4. \A k \in Jobs : k = j \/ status'[k] = status[k]
    BY <2>1, <1>0 DEF JobRows
  <2>5. j \in 1..njobs
    BY <2>1, <1>0 DEF BootType
  <2> QED BY <2>1, <2>2, <2>3, <2>4, <2>5 DEF PendingIsServed, Settled, InQueue, Up
<1>26. CASE BootCloseSession
  <2>1. bootJob \in bootVerify /\ boot' = "scan" /\ boot # "down"
    BY <1>26, <1>0 DEF BootCloseSession, Held
  <2>2. bootJob \notin submitted /\ bootJob # cur /\ bootJob \notin bootSubmit
    BY <1>0, <2>1 DEF Apart, BootType
  <2>3. UNCHANGED <<njobs, status, cur, pc, bootSubmit>> /\ bootVerify' = bootVerify \ {bootJob}
    BY <1>26 DEF BootCloseSession, BootFrame
  <2>4. CASE boot = "closeRequeued"
    <3>1. \A k : InQueue(k) \/ k = bootJob => InQueue(k)'
      BY <1>26, <2>1, <2>2, <2>3, <2>4, <1>0, ApartAppend DEF BootCloseSession, Submit
    <3> QED BY <2>1, <2>3, <3>1 DEF PendingIsServed, Settled, Up
  <2>5. CASE boot = "closeCompleted" /\ queue' = queue
    BY <2>1, <2>3, <2>5 DEF PendingIsServed, Settled, InQueue, Up
  <2> QED BY <1>26, <2>4, <2>5 DEF BootCloseSession
<1>27. CASE SweepReadSessions
  BY <1>0, <1>27 DEF SweepReadSessions, BootFrame, Up, Settled, PendingIsServed, InQueue, JobRows, WorkerType, Held
<1>28. CASE SweepReadJobs
  BY <1>0, <1>28 DEF SweepReadJobs, BootFrame, SessionStatusFor, Up, Settled, PendingIsServed, InQueue, JobRows, WorkerType, Held
<1>29. CASE SweepSession
  BY <1>0, <1>29 DEF SweepSession, BootFrame, Up, Settled, PendingIsServed, InQueue, JobRows, WorkerType, Held
<1>30. CASE BootDone
  BY <1>0, <1>30 DEF BootDone, BootFrame, Up, Settled, PendingIsServed, InQueue, JobRows, WorkerType, Held
<1>31. CASE RestartBegin
  BY <1>0, <1>31 DEF RestartBegin, RestartFrame, Up, Settled, PendingIsServed, InQueue, JobRows, WorkerType, Held
<1>32. CASE RestartSupersede
  BY <1>0, <1>32 DEF RestartSupersede, RestartFrame, SetStatus, Up, Settled, PendingIsServed, InQueue, JobRows, WorkerType, Held
<1>33. CASE RestartCloseSession
  BY <1>0, <1>33 DEF RestartCloseSession, RestartFrame, Up, Settled, PendingIsServed, InQueue, JobRows, WorkerType, Held
<1>34. CASE RestartEnqueue
  <2>1. Serving /\ UNCHANGED <<cur, pc, boot, bootSubmit, bootVerify, bootJob>>
    BY <1>34 DEF RestartEnqueue, RestartFrame
  <2>2. CreateJob("issue_request", 0)
    BY <1>34 DEF RestartEnqueue
  <2>3. \A k : InQueue(k) \/ k = njobs + 1 => InQueue(k)'
    BY <2>1, <2>2, <1>0, ApartCreate DEF Serving
  <2>4. /\ njobs \in Nat /\ njobs' = njobs + 1 /\ 1..njobs \subseteq 1..(njobs + 1)
        /\ status' = [status EXCEPT ![njobs + 1] = "queued"] /\ njobs + 1 \notin 1..njobs
        /\ njobs + 1 \in 1..(njobs + 1)
    BY <2>2, <1>0 DEF CreateJob, JobRows
  <2>5. PendingIsServed'
    BY <2>1, <2>3, <2>4, <1>0 DEF PendingIsServed, Serving, Up, JobRows
  <2>6. Settled'
    BY <2>1, <2>4, <1>0 DEF Serving, Settled, JobRows, WorkerType
  <2> QED BY <2>5, <2>6
<1>35. CASE AgentPost
  BY <1>0, <1>35 DEF AgentPost, Up, Settled, PendingIsServed, InQueue, JobRows, WorkerType, Held
<1>36. CASE Crash
  BY <1>0, <1>36 DEF Crash, Done, AgentRuns, Up, Settled, PendingIsServed, InQueue, JobRows, WorkerType, Held
<1>37. CASE \E st \in Arrivals : Arrive(st)
  <2>1. PICK st \in Arrivals : Arrive(st)
    BY <1>37
  <2>2. CreateJob(st, 0) /\ boot # "down" /\ boot' # "down" /\ UNCHANGED <<cur, boot, bootSubmit, bootVerify, bootJob>>
    BY <2>1 DEF Arrive, HandlerFrame, Serving
  <2>3. \A k : InQueue(k) \/ k = njobs + 1 => InQueue(k)'
    BY <2>2, <1>0, ApartCreate
  <2>4. /\ njobs \in Nat /\ njobs' = njobs + 1 /\ 1..njobs \subseteq 1..(njobs + 1)
        /\ status' = [status EXCEPT ![njobs + 1] = "queued"] /\ njobs + 1 \notin 1..njobs
        /\ njobs + 1 \in 1..(njobs + 1)
    BY <2>2, <1>0 DEF CreateJob, JobRows
  <2>5. PendingIsServed'
    BY <2>2, <2>3, <2>4, <1>0 DEF PendingIsServed, Up, JobRows
  <2>6. Settled'
    BY <2>1, <2>2, <2>4, <1>0 DEF Arrive, HandlerFrame, Serving, Settled, JobRows, WorkerType, BootType
  <2> QED BY <2>5, <2>6
<1>38. CASE \E j \in Jobs : PullRequestOpened(j)
  BY <1>0, <1>38 DEF PullRequestOpened, HandlerFrame, SetStatus, Up, Settled, PendingIsServed, InQueue, JobRows, WorkerType, Held
<1>39. CASE EnqueueReview
  <2>2. CreateJob("review_round", 0) /\ boot # "down" /\ boot' # "down" /\ UNCHANGED <<cur, boot, bootSubmit, bootVerify, bootJob>>
    BY <1>39 DEF EnqueueReview, HandlerFrame, Serving
  <2>3. \A k : InQueue(k) \/ k = njobs + 1 => InQueue(k)'
    BY <2>2, <1>0, ApartCreate
  <2>4. /\ njobs \in Nat /\ njobs' = njobs + 1 /\ 1..njobs \subseteq 1..(njobs + 1)
        /\ status' = [status EXCEPT ![njobs + 1] = "queued"] /\ njobs + 1 \notin 1..njobs
        /\ njobs + 1 \in 1..(njobs + 1)
    BY <2>2, <1>0 DEF CreateJob, JobRows
  <2>5. PendingIsServed'
    BY <2>2, <2>3, <2>4, <1>0 DEF PendingIsServed, Up, JobRows
  <2>6. Settled'
    BY <1>39, <2>2, <2>4, <1>0 DEF EnqueueReview, HandlerFrame, Serving, Settled, JobRows, WorkerType, BootType
  <2> QED BY <2>5, <2>6
<1>40. CASE \E j \in Jobs : LoseEvent(j)
  BY <1>0, <1>40 DEF LoseEvent, WorldFrame, Up, Settled, PendingIsServed, InQueue, JobRows, WorkerType, Held
<1>41. CASE \E e \in orphans : OrphanPosts(e)
  BY <1>0, <1>41 DEF OrphanPosts, WorldFrame, Up, Settled, PendingIsServed, InQueue, JobRows, WorkerType, Held
<1>42. CASE \E e \in orphans : OrphanExits(e)
  BY <1>0, <1>42 DEF OrphanExits, WorldFrame, Up, Settled, PendingIsServed, InQueue, JobRows, WorkerType, Held
<1>43. CASE UNCHANGED vars
  BY <1>0, <1>43 DEF vars, Up, Settled, PendingIsServed, InQueue, JobRows, WorkerType, Held
<1> QED
  BY <1>1, <1>2, <1>3, <1>4, <1>5, <1>6, <1>7, <1>8, <1>9, <1>10, <1>11, <1>12, <1>13, <1>14, <1>15, <1>16, <1>17, <1>18, <1>19, <1>20, <1>21, <1>22, <1>23, <1>24, <1>25, <1>26, <1>27, <1>28, <1>29, <1>30, <1>31, <1>32, <1>33, <1>34, <1>35, <1>36, <1>37, <1>38, <1>39, <1>40, <1>41, <1>42, <1>43 DEF Next, WorkerStep, BootStep, RestartStep

\* A repository starts with no row and a process that is not up.
LEMMA InitServed == Init => Apart /\ Settled /\ PendingIsServed
<1> SUFFICES ASSUME Init PROVE Apart /\ Settled /\ PendingIsServed
  OBVIOUS
<1>1. queue = <<>> /\ submitted = {} /\ bootSubmit = {} /\ bootVerify = {} /\ cur = 0 /\ boot = "down"
  BY DEF Init
<1>2. DOMAIN queue = {}
  BY <1>1
<1>3. \A j \in Jobs : status[j] \notin Active
  BY ActiveValues DEF Init
<1> QED BY <1>1, <1>2, <1>3 DEF Init, Apart, Settled, PendingIsServed, Up

---------------------------------------------------------------------------
(***************************************************************************)
(* The theorems.                                                           *)
(***************************************************************************)

\* The inductive invariant holds in every state of every behaviour.
LEMMA Invariance == Spec => []IInv
<1>1. Init => IInv
  BY InitType, InitServed DEF IInv
<1>2. IInv /\ [Next]_vars => IInv'
  BY TypeStep, ApartStep, PendingStep DEF IInv
<1> QED BY <1>1, <1>2, PTL DEF Spec

\* Rows, queue and boot loop name only rows that exist and hold only values the
\* code writes, however many jobs arrive and processes crash.
THEOREM TypeCorrect == Spec => []TypeOK
<1>1. IInv => TypeOK
  BY DEF IInv, TypeInv
<1> QED BY <1>1, Invariance, PTL

\* No pending row of jobs.json is ever forgotten by a process that is up: the
\* worker holds it, its queue does, or the boot loop will reach it.
THEOREM PendingServed == Spec => []PendingIsServed
<1>1. IInv => PendingIsServed
  BY DEF IInv
<1> QED BY <1>1, Invariance, PTL

\* One process never hands a job to its worker twice.
THEOREM NeverRunTwice == Spec => []NoDoubleRun
<1>1. IInv => NoDoubleRun
  BY DEF IInv, Apart, NoDoubleRun
<1> QED BY <1>1, Invariance, PTL

===========================================================================
