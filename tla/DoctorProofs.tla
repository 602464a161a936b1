---------------------------- MODULE DoctorProofs ----------------------------
(***************************************************************************)
(* What Doctor says of its report, proved for every number of jobs,        *)
(* sessions, crashes and unreadable files.                                 *)
(***************************************************************************)
EXTENDS Doctor, JobLifecycleProofs

(***************************************************************************)
(* Sessions as the server writes them: a row keeps its job, and a session  *)
(* that has ended is not launched again.                                   *)
(***************************************************************************)
OfJobs == \A s \in 1..nsess : sessJob[s] \in Jobs

SessionsStay ==
  /\ nsess \in Nat /\ nsess' \in Nat /\ nsess <= nsess'
  /\ \A s \in 1..nsess : /\ sessJob'[s] = sessJob[s]
                         /\ sessStatus'[s] = "launched" => sessStatus[s] = "launched"

\* No step of the server launches an ended session again or gives it to another job.
LEMMA ServerStays == TypeInv /\ OfJobs /\ [Next]_vars => SessionsStay /\ OfJobs'
<1> SUFFICES ASSUME JobRows, SessionRows, WorkerType, BootType, Held, OfJobs, [Next]_vars
             PROVE  SessionsStay /\ OfJobs'
  BY DEF TypeInv, TypeOK
<1>0. nsess \in Nat /\ 1..nsess \subseteq Sessions
  BY ConstantsAssumption DEF SessionRows, Sessions
<1> USE <1>0 DEF jobVars, sessVars, queueVars, workVars, bootVars, restartVars, worldVars, boundVars, SessionsStay, OfJobs
<1>1. CASE Dequeue
  BY <1>1 DEF Dequeue
<1>2. CASE Launch
  BY <1>2 DEF Launch, WorkerFrame, Goto
<1>3. CASE LinkSession
  BY <1>3 DEF LinkSession, WorkerFrame, Goto, SetStatus
<1>4. CASE WaitEnds
  BY <1>4 DEF WaitEnds, WorkerFrame, Goto
<1>5. CASE VerifySideEffect
  BY <1>5 DEF VerifySideEffect, WorkerFrame, Goto
<1>6. CASE RecheckRecovery
  BY <1>6 DEF RecheckRecovery, WorkerFrame, Goto
<1>7. CASE RelinkSession
  BY <1>7 DEF RelinkSession, WorkerFrame, Goto, SetStatus
<1>8. CASE CompleteSource
  BY <1>8 DEF CompleteSource, WorkerFrame, Goto
<1>9. CASE CompleteJob
  BY <1>9 DEF CompleteJob, WorkerReturns, Done, SetStatus
<1>10. CASE CapacityButPosted
  BY <1>10 DEF CapacityButPosted, WorkerFrame, Goto
<1>11. CASE CapacityRetry
  BY <1>11 DEF CapacityRetry, WorkerFrame, Goto, SetStatus
<1>12. CASE CapacityExhausted
  BY <1>12 DEF CapacityExhausted, Done, Goto, SetStatus
<1>13. CASE FailJob
  BY <1>13 DEF FailJob, WorkerReturns, Done, SetStatus
<1>14. CASE JoinRecovery
  BY <1>14 DEF JoinRecovery, WorkerReturns, Done, SetStatus
<1>15. CASE EnqueueRecovery
  BY <1>15 DEF EnqueueRecovery, Goto
<1>16. CASE MarkRecovering
  BY <1>16 DEF MarkRecovering, WorkerReturns, Done, SetStatus
<1>17. CASE FailRecovery
  BY <1>17 DEF FailRecovery, WorkerFrame, Goto, SetStatus
<1>18. CASE FailSource
  BY <1>18 DEF FailSource, WorkerReturns, Done
<1>19. CASE BootStart
  BY <1>19 DEF BootStart, BootFrame
<1>20. CASE BootSubmit
  BY <1>20 DEF BootSubmit, BootFrame, BootNext
<1>21. CASE BootVerifySeen
  BY <1>21 DEF BootVerifySeen, BootFrame, BootNext
<1>22. CASE BootComplete
  BY <1>22 DEF BootComplete, BootFrame, SetStatus
<1>23. CASE BootRequeue
  BY <1>23 DEF BootRequeue, BootFrame, SetStatus, BootNext
<1>24. CASE SweepReadSessions
  BY <1>24 DEF SweepReadSessions, BootFrame
<1>25. CASE SweepReadJobs
  BY <1>25 DEF SweepReadJobs, BootFrame
<1>26. CASE BootDone
  BY <1>26 DEF BootDone, BootFrame
<1>27. CASE RestartBegin
  BY <1>27 DEF RestartBegin, RestartFrame
<1>28. CASE RestartSupersede
  BY <1>28 DEF RestartSupersede, RestartFrame, SetStatus
<1>29. CASE RestartEnqueue
  BY <1>29 DEF RestartEnqueue, RestartFrame
<1>30. CASE AgentPost
  BY <1>30 DEF AgentPost
<1>31. CASE Crash
  BY <1>31 DEF Crash, Done
<1>32. CASE \E st \in Arrivals : Arrive(st)
  BY <1>32 DEF Arrive, HandlerFrame
<1>33. CASE \E j \in Jobs : PullRequestOpened(j)
  BY <1>33 DEF PullRequestOpened, HandlerFrame, SetStatus
<1>34. CASE EnqueueReview
  BY <1>34 DEF EnqueueReview, HandlerFrame
<1>35. CASE \E j \in Jobs : LoseEvent(j)
  BY <1>35 DEF LoseEvent, WorldFrame
<1>36. CASE \E e \in orphans : OrphanPosts(e)
  BY <1>36 DEF OrphanPosts, WorldFrame
<1>37. CASE \E e \in orphans : OrphanExits(e)
  BY <1>37 DEF OrphanExits, WorldFrame
<1>38. CASE UNCHANGED vars
  BY <1>38 DEF vars
<1>39. CASE CreateSession
  <2>1. nsess \in Nat /\ nsess' = nsess + 1 /\ nsess' \in Sessions /\ cur \in Jobs
    BY <1>39, ConstantsAssumption DEF CreateSession, SessionRows, JobRows, WorkerType, Held, Sessions, Jobs
  <2>2. /\ sessJob' = [sessJob EXCEPT ![nsess + 1] = cur]
        /\ sessStatus' = [sessStatus EXCEPT ![nsess + 1] = "launched"]
    BY <1>39 DEF CreateSession
  <2>3. \A s \in 1..nsess : sessJob'[s] = sessJob[s] /\ sessStatus'[s] = sessStatus[s]
    BY <2>1, <2>2 DEF SessionRows
  <2>4. sessJob'[nsess'] \in Jobs
    BY <2>1, <2>2 DEF SessionRows
  <2> QED BY <2>1, <2>3, <2>4
<1>40. CASE FinalizeSession
  <2>1. \A s \in Sessions : sessStatus'[s] = "launched" => sessStatus[s] = "launched"
    BY <1>40 DEF FinalizeSession, SessionRows
  <2> QED BY <1>40, <2>1 DEF FinalizeSession
<1>41. CASE BootCloseSession
  <2>1. \A s \in Sessions : sessStatus'[s] = "launched" => sessStatus[s] = "launched"
    BY <1>41 DEF BootCloseSession, ReconcileSession, SessionRows
  <2> QED BY <1>41, <2>1 DEF BootCloseSession, BootFrame
<1>42. CASE SweepSession
  <2>1. PICK e \in sweepTodo : ReconcileSession(e[1], e[2])
    BY <1>42 DEF SweepSession
  <2>2. e[2] \in {"completed", "failed"}
    BY <2>1 DEF BootType
  <2>3. \A s \in Sessions : sessStatus'[s] = "launched" => sessStatus[s] = "launched"
    BY <2>1, <2>2 DEF ReconcileSession, SessionRows
  <2> QED BY <1>42, <2>3 DEF SweepSession, BootFrame
<1>43. CASE RestartCloseSession
  <2>1. \A s \in Sessions : sessStatus'[s] = "launched" => sessStatus[s] = "launched"
    BY <1>43 DEF RestartCloseSession, ReconcileSession, SessionRows
  <2> QED BY <1>43, <2>1 DEF RestartCloseSession, RestartFrame
<1> QED
  BY <1>1, <1>2, <1>3, <1>4, <1>5, <1>6, <1>7, <1>8, <1>9, <1>10, <1>11, <1>12, <1>13, <1>14, <1>15, <1>16, <1>17, <1>18, <1>19, <1>20, <1>21, <1>22, <1>23, <1>24, <1>25, <1>26, <1>27, <1>28, <1>29, <1>30, <1>31, <1>32, <1>33, <1>34, <1>35, <1>36, <1>37, <1>38, <1>39, <1>40, <1>41, <1>42, <1>43 DEF Next, WorkerStep, BootStep, RestartStep

---------------------------------------------------------------------------
(***************************************************************************)
(* Doctor.                                                                 *)
(***************************************************************************)
AllFiles == Required \cup {"processed_events", "terminal_targets", "events_jsonl"}

\* The files are read in their order; what has been read is in jobsRead and sessionsRead,
\* and nothing is between two readings.
Shape ==
  /\ doctor \in {"idle", "first", "pause", "second", "done"}
  /\ files \in Seq(AllFiles) /\ Len(files) <= 6
  /\ \A i \in 1..Len(files) : files[i] = SnapshotFiles[6 - Len(files) + i]
  /\ old \subseteq 1..nsess /\ (doctor = "idle" => old = {})
  /\ jobsRead \in [Jobs -> Statuses]
  /\ doctor \notin Readings => jobsRead = NoJobs /\ sessionsRead = {} /\ errors = {}
  /\ Len(files) >= 5 => jobsRead = NoJobs
  /\ Len(files) >= 4 => sessionsRead = {}

\* Drift of this moment, drift by the jobs as read and the sessions as they are, and
\* drift as read: doctor's history has seen each of them.
SeenSoFar ==
  /\ seen \in [Readings -> SUBSET Sessions]
  /\ doctor \in Readings =>
       /\ DriftNow \subseteq seen[doctor]
       /\ \A s \in old : jobsRead[sessJob[s]] \in Terminal /\ sessStatus[s] = "launched" => s \in seen[doctor]
       /\ Drift \subseteq seen[doctor]
  /\ suspects \subseteq seen["first"]
  /\ ReportedDriftIsReal

\* Drift that lasts is in what was read, if it could be read.
LastingSoFar ==
  /\ lasting \subseteq DriftNow
  /\ blind \in BOOLEAN
  /\ doctor \in Readings /\ Len(files) <= 4 /\ "jobs" \notin errors
       => \A s \in lasting : jobsRead[sessJob[s]] \in Terminal
  /\ doctor \in Readings /\ Len(files) <= 3 /\ "sessions" \notin errors => lasting \subseteq sessionsRead
  /\ doctor = "second" /\ ~blind => errors \cap {"jobs", "sessions"} = {}
  /\ DOMAIN results = {"storage_files", "stuck_jobs", "stuck_sessions"}
  /\ doctor \in {"pause", "second"} => lasting \subseteq suspects \/ results.storage_files = "fail"
  /\ doctor = "done" /\ ~blind /\ lasting # {}
       => results.storage_files = "fail" \/ results.stuck_sessions = "fail"

DInv == TypeInv /\ OfJobs /\ Shape /\ SeenSoFar /\ LastingSoFar

\* A sequence that is not empty has a length.
LEMMA NotEmpty ==
  ASSUME NEW S, NEW s \in Seq(S), s # <<>>
  PROVE  Len(s) # 0
<1>1. \A q \in Seq(S) : q # <<>> => Len(q) \in Nat \ {0}
  BY EmptySeq
<1> QED BY <1>1

\* The next file follows from how many are left.
LEMMA NextFile ==
  ASSUME Shape, files # <<>>
  PROVE  /\ Len(files) \in 1..6 /\ Len(Tail(files)) = Len(files) - 1
         /\ Tail(files) \in Seq(AllFiles)
         /\ \A i \in 1..Len(Tail(files)) : Tail(files)[i] = SnapshotFiles[6 - Len(Tail(files)) + i]
         /\ Head(files) = "jobs" <=> Len(files) = 5
         /\ Head(files) = "sessions" <=> Len(files) = 4
<1>1. files \in Seq(AllFiles) /\ Len(files) \in 1..6
  <2>1. files \in Seq(AllFiles) /\ Len(files) \in Nat /\ Len(files) <= 6
    BY DEF Shape
  <2>2. Len(files) # 0
    BY <2>1, NotEmpty
  <2>3. \A n \in Nat : n <= 6 /\ n # 0 => n \in 1..6
    OBVIOUS
  <2> QED BY <2>1, <2>2, <2>3, Zenon
<1>2. /\ Len(Tail(files)) = Len(files) - 1 /\ Tail(files) \in Seq(AllFiles)
      /\ \A i \in 1..Len(Tail(files)) : Tail(files)[i] = files[i + 1]
  BY <1>1, HeadTailProperties
<1>3. \A i \in 1..Len(Tail(files)) : Tail(files)[i] = SnapshotFiles[6 - Len(Tail(files)) + i]
  BY <1>1, <1>2 DEF Shape
<1>4. Head(files) = files[1] /\ files[1] = SnapshotFiles[7 - Len(files)]
  BY <1>1 DEF Shape
<1>5. /\ SnapshotFiles[1] = "registry" /\ SnapshotFiles[2] = "jobs" /\ SnapshotFiles[3] = "sessions"
      /\ SnapshotFiles[4] = "processed_events" /\ SnapshotFiles[5] = "terminal_targets"
      /\ SnapshotFiles[6] = "events_jsonl"
  BY DEF SnapshotFiles
<1>6. \/ Len(files) = 1 /\ Head(files) = "events_jsonl"
      \/ Len(files) = 2 /\ Head(files) = "terminal_targets"
      \/ Len(files) = 3 /\ Head(files) = "processed_events"
      \/ Len(files) = 4 /\ Head(files) = "sessions"
      \/ Len(files) = 5 /\ Head(files) = "jobs"
      \/ Len(files) = 6 /\ Head(files) = "registry"
  <2>1. \/ Len(files) = 1 \/ Len(files) = 2 \/ Len(files) = 3
        \/ Len(files) = 4 \/ Len(files) = 5 \/ Len(files) = 6
    BY <1>1
  <2>2. CASE Len(files) = 1
    BY <1>4, <1>5, <2>2
  <2>3. CASE Len(files) = 2
    BY <1>4, <1>5, <2>3
  <2>4. CASE Len(files) = 3
    BY <1>4, <1>5, <2>4
  <2>5. CASE Len(files) = 4
    BY <1>4, <1>5, <2>5
  <2>6. CASE Len(files) = 5
    BY <1>4, <1>5, <2>6
  <2>7. CASE Len(files) = 6
    BY <1>4, <1>5, <2>7
  <2> QED BY <2>1, <2>2, <2>3, <2>4, <2>5, <2>6, <2>7
<1>7. (Head(files) = "jobs" <=> Len(files) = 5) /\ (Head(files) = "sessions" <=> Len(files) = 4)
  <2> DEFINE n == Len(files)
             h == Head(files)
  <2>1. \/ n = 1 /\ h = "events_jsonl"
        \/ n = 2 /\ h = "terminal_targets"
        \/ n = 3 /\ h = "processed_events"
        \/ n = 4 /\ h = "sessions"
        \/ n = 5 /\ h = "jobs"
        \/ n = 6 /\ h = "registry"
    BY <1>6
  <2> HIDE DEF n, h
  <2>2. (h = "jobs" <=> n = 5) /\ (h = "sessions" <=> n = 4)
    BY <2>1
  <2> QED BY <2>2 DEF n, h
<1> QED BY <1>1, <1>2, <1>3, <1>7

\* The list of all the files is what a reading starts from, with no row read.
LEMMA AllOfThem ==
  /\ SnapshotFiles \in Seq(AllFiles) /\ Len(SnapshotFiles) = 6
  /\ NoJobs \in [Jobs -> Statuses] /\ \A j \in Jobs : NoJobs[j] \notin Terminal
  BY DEF SnapshotFiles, AllFiles, Required, NoJobs, Statuses, Terminal

\* The invariant holds before doctor starts.
LEMMA DoctorInitially == DoctorInit => DInv
<1> SUFFICES ASSUME DoctorInit PROVE DInv
  OBVIOUS
<1>1. TypeInv
  BY InitType DEF DoctorInit
<1>2. OfJobs
  BY DEF DoctorInit, Init, OfJobs
<1>3. Shape
  BY AllOfThem DEF DoctorInit, Shape, Readings
<1>4. SeenSoFar
  BY DEF DoctorInit, SeenSoFar, Readings, ReportedDriftIsReal
<1>5. LastingSoFar
  BY DEF DoctorInit, LastingSoFar, Readings
<1> QED BY <1>1, <1>2, <1>3, <1>4, <1>5 DEF DInv

\* The server's rows stay as they are while doctor moves, and both change as their types say.
LEMMA RowsStep == TypeInv /\ OfJobs /\ DoctorNext => TypeInv' /\ OfJobs' /\ SessionsStay
<1> SUFFICES ASSUME TypeInv, OfJobs, DoctorNext PROVE TypeInv' /\ OfJobs' /\ SessionsStay
  OBVIOUS
<1>1. [Next]_vars
  BY DEF DoctorNext, ServerStep
<1> QED BY <1>1, TypeStep, ServerStays

\* The files are read one by one in their order, by every step.
LEMMA ShapeStep == TypeInv /\ OfJobs /\ Shape /\ DoctorNext => Shape'
<1> SUFFICES ASSUME TypeInv, OfJobs, Shape, DoctorNext PROVE Shape'
  OBVIOUS
<1>0. nsess \in Nat /\ nsess' \in Nat /\ 1..nsess \subseteq 1..nsess' /\ status \in [Jobs -> Statuses]
  BY RowsStep DEF SessionsStay, TypeInv, TypeOK, JobRows
<1> USE DEF readVars, ageVars, reportVars, Readings
<1>1. CASE ServerStep
  BY <1>0, <1>1 DEF ServerStep, Shape
<1>2. CASE Start /\ UNCHANGED vars
  <2>1. files' = SnapshotFiles /\ jobsRead = NoJobs /\ sessionsRead = {}
    BY <1>2 DEF Start, Shape
  <2>2. \A i \in 1..6 : files'[i] = SnapshotFiles[6 - 6 + i]
    BY <2>1
  <2>3. Len(files') = 6 /\ files' \in Seq(AllFiles)
    BY <2>1, AllOfThem
  <2>4. \A i \in 1..Len(files') : files'[i] = SnapshotFiles[6 - Len(files') + i]
    BY <2>2, <2>3
  <2> QED BY <1>0, <1>2, <2>1, <2>3, <2>4 DEF Start, Shape, vars, sessVars
<1>3. CASE ReadFile /\ UNCHANGED vars
  <2>1. files' = Tail(files) /\ files # <<>>
    BY <1>3 DEF ReadFile
  <2>2. jobsRead' \in [Jobs -> Statuses]
    BY <1>0, <1>3 DEF ReadFile, Shape
  <2>3. Len(files') >= 5 => jobsRead' = NoJobs
    BY <1>3, <2>1, NextFile DEF ReadFile, Shape
  <2>4. Len(files') >= 4 => sessionsRead' = {}
    BY <1>3, <2>1, NextFile DEF ReadFile, Shape
  <2> QED BY <1>0, <1>3, <2>1, <2>2, <2>3, <2>4, NextFile DEF ReadFile, Shape, vars, sessVars
<1>4. CASE FileFails /\ UNCHANGED vars
  <2>1. files' = Tail(files) /\ files # <<>>
    BY <1>4 DEF FileFails
  <2> QED BY <1>0, <1>4, <2>1, NextFile DEF FileFails, Shape, vars, sessVars
<1>5. CASE EventsCutShort /\ UNCHANGED vars
  <2>1. files' = <<>> /\ Len(files') = 0 /\ files' \in Seq(AllFiles)
    BY <1>5 DEF EventsCutShort
  <2> QED BY <1>0, <1>5, <2>1 DEF EventsCutShort, Shape, vars, sessVars
<1>6. CASE Check /\ UNCHANGED vars
  BY <1>0, <1>6, AllOfThem DEF Check, Shape, vars, sessVars
<1>7. CASE ReadAgain /\ UNCHANGED vars
  <2>1. files' = SnapshotFiles /\ jobsRead = NoJobs /\ sessionsRead = {}
    BY <1>7 DEF ReadAgain, Shape
  <2>3. Len(files') = 6 /\ files' \in Seq(AllFiles)
    BY <2>1, AllOfThem
  <2>4. \A i \in 1..Len(files') : files'[i] = SnapshotFiles[6 - Len(files') + i]
    BY <2>1, <2>3
  <2> QED BY <1>0, <1>7, <2>1, <2>3, <2>4 DEF ReadAgain, Shape, vars, sessVars
<1>8. CASE Confirm /\ UNCHANGED vars
  BY <1>0, <1>8, AllOfThem DEF Confirm, Shape, vars, sessVars
<1> QED BY <1>1, <1>2, <1>3, <1>4, <1>5, <1>6, <1>7, <1>8 DEF DoctorNext, DoctorStep

\* What a reading has seen it goes on having seen.
LEMMA WatchGrows ==
  ASSUME TypeInv', old' \subseteq 1..nsess', Watch, seen \in [Readings -> SUBSET Sessions]
  PROVE  /\ seen' \in [Readings -> SUBSET Sessions]
         /\ \A r \in Readings : seen[r] \subseteq seen'[r]
         /\ doctor' \in Readings => DriftNow' \subseteq seen'[doctor']
<1>1. 1..nsess' \subseteq Sessions
  BY ConstantsAssumption DEF TypeInv, TypeOK, SessionRows, Sessions
<1>2. DriftNow' \subseteq Sessions
  BY <1>1 DEF DriftNow
<1> QED BY <1>2 DEF Watch

\* Every step keeps what was read within what was seen.
LEMMA SeenStep == TypeInv /\ OfJobs /\ Shape /\ SeenSoFar /\ DoctorNext => SeenSoFar'
<1> SUFFICES ASSUME TypeInv, OfJobs, Shape, SeenSoFar, DoctorNext PROVE SeenSoFar'
  OBVIOUS
<1>1. TypeInv' /\ OfJobs' /\ SessionsStay /\ Shape'
  BY RowsStep, ShapeStep
<1>2. /\ seen' \in [Readings -> SUBSET Sessions]
      /\ \A r \in Readings : seen[r] \subseteq seen'[r]
      /\ doctor' \in Readings => DriftNow' \subseteq seen'[doctor']
  BY <1>1, WatchGrows DEF DoctorNext, Shape, SeenSoFar
<1>3. \A s \in old : s \in 1..nsess /\ sessJob[s] \in Jobs
  BY DEF Shape, OfJobs
<1>4. "first" \in Readings /\ "second" \in Readings
  BY DEF Readings
\* As long as doctor reads on, what its history need not have seen it need not see now.
<1>5. ASSUME doctor' = doctor, old' = old, reported' = reported, suspects' = suspects,
             doctor \in Readings => 
               /\ \A s \in old : jobsRead'[sessJob'[s]] \in Terminal /\ sessStatus'[s] = "launched" => s \in seen'[doctor]
               /\ Drift' \subseteq seen'[doctor]
      PROVE  SeenSoFar'
  BY <1>2, <1>4, <1>5 DEF SeenSoFar, ReportedDriftIsReal
<1> USE DEF readVars, ageVars, reportVars
<1>6. CASE ServerStep
  BY <1>1, <1>2, <1>3, <1>5, <1>6 DEF ServerStep, SeenSoFar, SessionsStay, Drift
<1>7. CASE Start /\ UNCHANGED vars
  <2>1. jobsRead' = NoJobs /\ sessionsRead' = {} /\ doctor' = "first"
    BY <1>7 DEF Start, Shape, Readings
  <2>2. \A s \in old' : sessJob'[s] \in Jobs
    BY <1>1 DEF Shape, OfJobs
  <2> QED BY <1>2, <1>4, <1>7, <2>1, <2>2, AllOfThem DEF Start, SeenSoFar, Drift, ReportedDriftIsReal
<1>8. CASE ReadFile /\ UNCHANGED vars
  <2>1. CASE Head(files) = "jobs"
    <3>1. jobsRead' = status /\ sessionsRead' = {} /\ doctor \in Readings
      <4>1. Len(files) = 5
        BY <1>8, <2>1, NextFile DEF ReadFile
      <4> QED BY <1>8, <2>1, <4>1 DEF ReadFile, Shape
    <3>2. \A s \in old : status[sessJob[s]] \in Terminal /\ sessStatus[s] = "launched" => s \in DriftNow
      BY DEF DriftNow
    <3> QED BY <1>2, <1>5, <1>8, <3>1, <3>2 DEF ReadFile, SeenSoFar, Drift, vars, sessVars
  <2>2. CASE Head(files) = "sessions"
    <3>1. jobsRead' = jobsRead /\ sessionsRead' = {s \in 1..nsess : sessStatus[s] = "launched"}
      BY <1>8, <2>2 DEF ReadFile
    <3> QED BY <1>2, <1>5, <1>8, <3>1 DEF ReadFile, SeenSoFar, Drift, vars, sessVars
  <2>3. CASE Head(files) \notin {"jobs", "sessions"}
    BY <1>2, <1>5, <1>8, <2>3 DEF ReadFile, SeenSoFar, Drift, vars, sessVars
  <2> QED BY <2>1, <2>2, <2>3
<1>9. CASE FileFails /\ UNCHANGED vars
  BY <1>2, <1>5, <1>9 DEF FileFails, SeenSoFar, Drift, vars, sessVars
<1>10. CASE EventsCutShort /\ UNCHANGED vars
  BY <1>2, <1>5, <1>10 DEF EventsCutShort, SeenSoFar, Drift, vars, sessVars
<1>11. CASE Check /\ UNCHANGED vars
  <2>1. suspects' \subseteq seen["first"] /\ reported' = reported /\ doctor' \notin Readings
    BY <1>4, <1>11 DEF Check, SeenSoFar, Readings
  <2> QED BY <1>2, <1>4, <2>1 DEF SeenSoFar, ReportedDriftIsReal
<1>12. CASE ReadAgain /\ UNCHANGED vars
  <2>1. jobsRead' = NoJobs /\ sessionsRead' = {} /\ doctor' = "second"
    BY <1>12 DEF ReadAgain, Shape, Readings
  <2>2. \A s \in old' : sessJob'[s] \in Jobs
    BY <1>1 DEF Shape, OfJobs
  <2> QED BY <1>2, <1>4, <1>12, <2>1, <2>2, AllOfThem DEF ReadAgain, SeenSoFar, Drift, ReportedDriftIsReal
<1>13. CASE Confirm /\ UNCHANGED vars
  <2>1. Drift \subseteq seen["second"] /\ suspects \subseteq seen["first"]
    BY <1>4, <1>13 DEF Confirm, SeenSoFar
  <2>2. reported' = suspects \cap Drift /\ suspects' = suspects /\ doctor' \notin Readings
    BY <1>13 DEF Confirm, Readings
  <2> QED BY <1>2, <1>4, <2>1, <2>2 DEF SeenSoFar, ReportedDriftIsReal
<1> QED BY <1>6, <1>7, <1>8, <1>9, <1>10, <1>11, <1>12, <1>13 DEF DoctorNext, DoctorStep

\* Every step keeps drift that lasts in what was read.
LEMMA LastingStep == TypeInv /\ OfJobs /\ Shape /\ LastingSoFar /\ DoctorNext => LastingSoFar'
<1> SUFFICES ASSUME TypeInv, OfJobs, Shape, LastingSoFar, DoctorNext PROVE LastingSoFar'
  OBVIOUS
<1>1. TypeInv' /\ OfJobs' /\ SessionsStay /\ Shape'
  BY RowsStep, ShapeStep
<1>2. lasting' \subseteq DriftNow' /\ (doctor # "idle" => lasting' \subseteq lasting)
  BY DEF DoctorNext, Watch
<1>3. \A s \in lasting : /\ s \in old /\ s \in 1..nsess /\ sessJob[s] \in Jobs
                         /\ sessStatus[s] = "launched" /\ status[sessJob[s]] \in Terminal
  BY DEF LastingSoFar, DriftNow, Shape, OfJobs
<1>4. Len(files) \in Nat
  BY DEF Shape
<1> USE <1>4 DEF readVars, ageVars, reportVars, Readings
<1>5. CASE ServerStep
  <2>1. \A s \in lasting : sessJob'[s] = sessJob[s]
    BY <1>1, <1>3 DEF SessionsStay
  <2>2. CASE doctor = "idle"
    BY <1>2, <1>5, <2>2 DEF ServerStep, LastingSoFar
  <2>3. CASE doctor # "idle"
    BY <1>2, <1>5, <2>1, <2>3 DEF ServerStep, LastingSoFar
  <2> QED BY <2>2, <2>3
<1>6. CASE Start /\ UNCHANGED vars
  <2>1. Len(files') = 6
    BY <1>6, AllOfThem DEF Start
  <2> QED BY <1>2, <1>6, <2>1 DEF Start, LastingSoFar
<1>7. CASE ReadFile /\ UNCHANGED vars
  <2>1. /\ Len(files') = Len(files) - 1
        /\ Head(files) = "jobs" <=> Len(files) = 5
        /\ Head(files) = "sessions" <=> Len(files) = 4
    BY <1>7, NextFile DEF ReadFile
  <2>2. doctor' = doctor /\ errors' = errors /\ blind' = blind /\ results' = results /\ suspects' = suspects
        /\ sessJob' = sessJob /\ doctor \in Readings /\ lasting' \subseteq lasting
    BY <1>2, <1>7 DEF ReadFile, vars, sessVars
  <2>3. Len(files') <= 4 /\ "jobs" \notin errors => \A s \in lasting : jobsRead'[sessJob[s]] \in Terminal
    BY <1>3, <1>7, <2>1, <2>2 DEF ReadFile, LastingSoFar
  <2>4. Len(files') <= 3 /\ "sessions" \notin errors => lasting \subseteq sessionsRead'
    BY <1>3, <1>7, <2>1, <2>2 DEF ReadFile, LastingSoFar
  <2> QED BY <1>2, <2>2, <2>3, <2>4 DEF LastingSoFar
<1>8. CASE FileFails /\ UNCHANGED vars
  <2>1. /\ Len(files') = Len(files) - 1
        /\ Head(files) = "jobs" <=> Len(files) = 5
        /\ Head(files) = "sessions" <=> Len(files) = 4
    BY <1>8, NextFile DEF FileFails
  <2>2. /\ doctor' = doctor /\ errors' = errors \cup {Head(files)} /\ results' = results /\ suspects' = suspects
        /\ sessJob' = sessJob /\ doctor \in Readings /\ lasting' \subseteq lasting
        /\ jobsRead' = jobsRead /\ sessionsRead' = sessionsRead
        /\ blind' = (blind \/ (doctor = "second" /\ Head(files) \in {"jobs", "sessions"}))
    BY <1>2, <1>8 DEF FileFails, vars, sessVars
  <2>3. Len(files') <= 4 /\ "jobs" \notin errors' => \A s \in lasting : jobsRead'[sessJob[s]] \in Terminal
    BY <2>1, <2>2 DEF LastingSoFar
  <2>4. Len(files') <= 3 /\ "sessions" \notin errors' => lasting \subseteq sessionsRead'
    BY <2>1, <2>2 DEF LastingSoFar
  <2>5. blind' \in BOOLEAN /\ (doctor' = "second" /\ ~blind' => errors' \cap {"jobs", "sessions"} = {})
    BY <2>2 DEF LastingSoFar
  <2> QED BY <1>2, <2>2, <2>3, <2>4, <2>5 DEF LastingSoFar
<1>9. CASE EventsCutShort /\ UNCHANGED vars
  <2>1. Len(files) = 1 /\ files' = <<>>
    BY <1>9 DEF EventsCutShort
  <2>2. Len(files') = 0
    BY <2>1
  <2> QED BY <1>2, <1>9, <2>1, <2>2 DEF EventsCutShort, LastingSoFar, vars, sessVars
<1>10. CASE Check /\ UNCHANGED vars
  <2>1. Len(files) = 0 /\ doctor = "first" /\ lasting' \subseteq lasting /\ blind' = blind
    BY <1>2, <1>10 DEF Check
  <2>2. results' = [storage_files |-> StorageFiles, stuck_jobs |-> StuckJobs,
                    stuck_sessions |-> IF Doubtful THEN "warn" ELSE "ok"]
    BY <1>10 DEF Check
  <2>3. errors \cap {"jobs", "sessions"} = {} => lasting \subseteq Drift
    BY <1>3, <2>1 DEF LastingSoFar, Drift
  <2>4. errors \cap {"jobs", "sessions"} # {} => results'.storage_files = "fail"
    BY <2>2 DEF StorageFiles, Required
  <2>5. suspects' = Drift /\ doctor' = IF Drift = {} THEN "done" ELSE "pause"
    BY <1>10 DEF Check
  <2>6. DOMAIN results' = {"storage_files", "stuck_jobs", "stuck_sessions"}
    BY <2>2
  <2> QED BY <1>2, <2>1, <2>3, <2>4, <2>5, <2>6 DEF LastingSoFar
<1>11. CASE ReadAgain /\ UNCHANGED vars
  <2>1. Len(files') = 6 /\ errors' = {}
    BY <1>11, AllOfThem DEF ReadAgain, Shape
  <2> QED BY <1>2, <1>11, <2>1 DEF ReadAgain, LastingSoFar
<1>12. CASE Confirm /\ UNCHANGED vars
  <2>1. Len(files) = 0 /\ doctor = "second" /\ lasting' \subseteq lasting /\ blind' = blind /\ doctor' = "done"
    BY <1>2, <1>12 DEF Confirm
  <2>2. /\ results'.storage_files = results.storage_files
        /\ results'.stuck_sessions = Verdict(suspects \cap Drift) /\ DOMAIN results' = DOMAIN results
    BY <1>12 DEF Confirm, LastingSoFar
  <2>3. ~blind => lasting \subseteq Drift
    BY <1>3, <2>1 DEF LastingSoFar, Drift
  <2> QED BY <1>2, <2>1, <2>2, <2>3 DEF LastingSoFar, Verdict
<1> QED BY <1>5, <1>6, <1>7, <1>8, <1>9, <1>10, <1>11, <1>12 DEF DoctorNext, DoctorStep

\* The invariant holds throughout.
LEMMA DoctorInvariance == DoctorSpec => []DInv
<1>1. DInv /\ DoctorNext => DInv'
  BY RowsStep, ShapeStep, SeenStep, LastingStep DEF DInv
<1>2. DInv /\ UNCHANGED <<vars, doctorVars>> => DInv'
  <2> SUFFICES ASSUME DInv, UNCHANGED <<vars, doctorVars>> PROVE DInv'
    OBVIOUS
  <2>1. TypeInv' /\ OfJobs' /\ SessionsStay
    BY TypeStep, ServerStays DEF DInv
  <2>2. Shape'
    BY DEF DInv, Shape, vars, sessVars, doctorVars, readVars, ageVars, reportVars, historyVars
  <2>3. DriftNow' = DriftNow /\ Drift' = Drift
    BY DEF DriftNow, Drift, vars, sessVars, jobVars, doctorVars, readVars, ageVars
  <2>4. SeenSoFar'
    BY <2>3 DEF DInv, SeenSoFar, ReportedDriftIsReal, vars, sessVars, doctorVars, readVars, ageVars, reportVars, historyVars
  <2>5. LastingSoFar'
    BY <2>3 DEF DInv, LastingSoFar, vars, sessVars, doctorVars, readVars, ageVars, reportVars, historyVars
  <2> QED BY <2>1, <2>2, <2>4, <2>5 DEF DInv
<1> QED BY <1>1, <1>2, DoctorInitially, PTL DEF DoctorSpec

\* However many rows the server writes while doctor reads, and wherever it dies and starts
\* again: a session that is reported was in drift during both readings.
THEOREM ReportedIsReal == DoctorSpec => []ReportedDriftIsReal
<1>1. DInv => ReportedDriftIsReal
  BY DEF DInv, SeenSoFar
<1> QED BY <1>1, DoctorInvariance, PTL

\* Drift of the whole run ends it with exit code 2, unless the second reading missed a file.
THEOREM LastingIsReported == DoctorSpec => []LastingDriftIsReported
<1>1. DInv => LastingDriftIsReported
  <2> SUFFICES ASSUME DInv, doctor = "done", lasting # {}, ~blind,
                      NEW others \in SUBSET {"ok", "warn", "fail", "skip"}, NEW strict \in BOOLEAN
               PROVE  ExitCode(others, strict) = 2
    BY DEF LastingDriftIsReported
  <2>1. \E c \in DOMAIN results : results[c] = "fail"
    BY DEF DInv, LastingSoFar
  <2>2. Rank("fail") = 2
    BY DEF Rank
  <2>3. 2 \in {Rank(results[c]) : c \in DOMAIN results} \cup {Rank(s) : s \in others}
    BY <2>1, <2>2
  <2>4. Overall(others) = "fail"
    BY <2>3 DEF Overall
  <2> QED BY <2>4 DEF ExitCode
<1> QED BY <1>1, DoctorInvariance, PTL

---------------------------------------------------------------------------
(***************************************************************************)
(* Types.                                                                  *)
(***************************************************************************)
\* What doctor keeps is about the sessions and jobs whose ages it took at its start.
Taken ==
  /\ ancient \subseteq old /\ oldJobs \subseteq Jobs /\ sessionsRead \subseteq Sessions
  /\ errors \subseteq AllFiles
  /\ results \in [storage_files : {"ok", "warn", "fail"}, stuck_jobs : {"ok", "warn"},
                  stuck_sessions : {"ok", "warn", "fail"}]
  /\ reported \subseteq suspects /\ suspects \subseteq old
  /\ doctor # "done" => reported = {}
  /\ doctor \in {"pause", "second"} => suspects # {}
  /\ seen \in [Readings -> SUBSET old]

\* The ages are taken once, so that what was kept of them stays within them.
LEMMA AgesStay == Shape /\ DoctorNext => old \subseteq old'
<1> SUFFICES ASSUME Shape, DoctorNext PROVE old \subseteq old'
  OBVIOUS
<1>1. CASE Start
  BY <1>1 DEF Start, Shape
<1>2. CASE ~Start
  BY <1>2 DEF DoctorNext, DoctorStep, ServerStep, ReadFile, FileFails, EventsCutShort, Check, ReadAgain, Confirm, ageVars
<1> QED BY <1>1, <1>2

\* Every step keeps it so.
LEMMA TakenStep == TypeInv /\ OfJobs /\ Shape /\ Taken /\ DoctorNext => Taken'
<1> SUFFICES ASSUME TypeInv, OfJobs, Shape, Taken, DoctorNext PROVE Taken'
  OBVIOUS
<1>1. TypeInv' /\ Shape' /\ old \subseteq old'
  BY RowsStep, ShapeStep, AgesStay
<1>2. 1..njobs \subseteq Jobs /\ 1..nsess \subseteq Sessions
  BY ConstantsAssumption DEF TypeInv, TypeOK, JobRows, SessionRows, Jobs, Sessions
<1>3. seen' \in [Readings -> SUBSET old']
  <2>1. DriftNow' \subseteq old'
    BY DEF DriftNow
  <2> QED BY <1>1, <2>1 DEF DoctorNext, Watch, Taken
<1> USE DEF readVars, ageVars, reportVars
<1>4. CASE ServerStep
  BY <1>3, <1>4 DEF ServerStep, Taken
<1>5. CASE Start
  BY <1>1, <1>2, <1>3, <1>5 DEF Start, Taken
<1>6. CASE ReadFile
  BY <1>2, <1>3, <1>6 DEF ReadFile, Taken
<1>7. CASE FileFails
  <2>1. Head(files) \in AllFiles
    BY <1>7, NextFile DEF FileFails, Shape
  <2> QED BY <1>3, <1>7, <2>1 DEF FileFails, Taken
<1>8. CASE EventsCutShort
  BY <1>3, <1>8 DEF EventsCutShort, Taken, AllFiles
<1>9. CASE Check
  <2>1. suspects' = Drift /\ Drift \subseteq old /\ (doctor' \in {"pause", "second"} => Drift # {})
    BY <1>9 DEF Check, Drift
  <2>2. results' \in [storage_files : {"ok", "warn", "fail"}, stuck_jobs : {"ok", "warn"},
                      stuck_sessions : {"ok", "warn", "fail"}]
    BY <1>9 DEF Check, StorageFiles, StuckJobs
  <2>3. reported' = {}
    BY <1>9 DEF Check, Taken
  <2> QED BY <1>3, <1>9, <2>1, <2>2, <2>3 DEF Check, Taken
<1>10. CASE ReadAgain
  BY <1>3, <1>10 DEF ReadAgain, Taken
<1>11. CASE Confirm
  <2>1. results' \in [storage_files : {"ok", "warn", "fail"}, stuck_jobs : {"ok", "warn"},
                      stuck_sessions : {"ok", "warn", "fail"}]
    BY <1>11 DEF Confirm, Verdict, Taken
  <2> QED BY <1>3, <1>11, <2>1 DEF Confirm, Taken
<1> QED BY <1>4, <1>5, <1>6, <1>7, <1>8, <1>9, <1>10, <1>11 DEF DoctorNext, DoctorStep

\* doctor's state has its types: the second reading is for suspicions only, what is reported
\* was suspected, and doctor ends with checks that have a status.
THEOREM DoctorTypes == DoctorSpec => []DoctorTypeOK
<1>1. DoctorInit => Taken
  BY DEF DoctorInit, Taken, Readings
<1>2. DInv /\ Taken /\ [DoctorNext]_<<vars, doctorVars>> => Taken'
  <2> SUFFICES ASSUME DInv, Taken, [DoctorNext]_<<vars, doctorVars>> PROVE Taken'
    OBVIOUS
  <2>1. CASE DoctorNext
    BY <2>1, TakenStep DEF DInv
  <2>2. CASE UNCHANGED <<vars, doctorVars>>
    BY <2>2 DEF Taken, doctorVars, readVars, ageVars, reportVars, historyVars
  <2> QED BY <2>1, <2>2
<1>3. DInv /\ Taken => DoctorTypeOK
  <2> SUFFICES ASSUME DInv, Taken PROVE DoctorTypeOK
    OBVIOUS
  <2>1. nsess \in Nat /\ 1..nsess \subseteq Sessions
    BY ConstantsAssumption DEF DInv, TypeInv, TypeOK, SessionRows, Sessions
  <2>2. old \subseteq Sessions /\ lasting \subseteq old /\ blind \in BOOLEAN
    BY <2>1 DEF DInv, Shape, LastingSoFar, DriftNow
  <2> QED BY <2>2 DEF DInv, Shape, Taken, DoctorTypeOK, AllFiles
<1> QED BY <1>1, <1>2, <1>3, DoctorInvariance, PTL DEF DoctorSpec
===========================================================================
