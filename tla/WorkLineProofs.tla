--------------------------- MODULE WorkLineProofs ---------------------------
(***************************************************************************)
(* WorkLine, proved for every number of jobs, runs and events: types, that *)
(* the record of a line knows every agent run a row of the line names,     *)
(* that agents keep their worktree, and that a merge is cleaned up after.  *)
(***************************************************************************)
EXTENDS WorkLine, SequenceTheorems, FiniteSetTheorems, TLAPS

---------------------------------------------------------------------------
(***************************************************************************)
(* Types.  Besides itself, TypeOK needs that queue, agents and messages    *)
(* name rows that exist, and that a run that is recorded has a number.     *)
(***************************************************************************)
Links ==
  /\ \A i \in 1..Len(queue) : queue[i] \in 1..njobs
  /\ cur \in 0..njobs /\ hjob \in 0..njobs
  /\ Len(jobOf) <= MaxRuns /\ \A s \in 1..Len(jobOf) : jobOf[s] \in 1..njobs
  /\ posted \subseteq 1..njobs /\ mail \subseteq posted
  /\ pc \in {"record", "link"} => run \in Runs

\* Everything is typed at the start.
LEMMA InitType == Init => TypeOK /\ Links
<1> SUFFICES ASSUME Init PROVE TypeOK /\ Links
  OBVIOUS
<1> USE ConstantsAssumption DEF Init
<1>1. RowType
  BY DEF RowType, Jobs, Stages, Runs
<1>2. LineType
  BY DEF LineType, Records, NoRecord, Runs
<1>3. WorkerType
  <2>1. <<>> \in Seq(Jobs)
    BY EmptySeq
  <2> QED BY <2>1 DEF WorkerType, NoHeld, Runs
<1>4. AgentType
  <2>1. <<>> \in Seq(Jobs)
    BY EmptySeq
  <2> QED BY <2>1 DEF AgentType
<1>5. HandlerType
  <2>1. cut \in BOOLEAN
    BY Zenon
  <2>2. happened \subseteq Events /\ source \subseteq Runs
    OBVIOUS
  <2> QED BY <2>1, <2>2 DEF HandlerType
<1>6. Links
  <2>1. Len(queue) = 0 /\ Len(jobOf) = 0
    BY EmptySeq
  <2> QED BY <2>1 DEF Links
<1> QED BY <1>1, <1>2, <1>3, <1>4, <1>5, <1>6 DEF TypeOK

\* A new row comes after the others, which stay, and is queued last.
LEMMA Enqueued ==
  ASSUME RowType, WorkerType, Links, NEW s \in Stages, NEW line \in BOOLEAN, NEW ids \in SUBSET Runs,
         Enqueue(s, line, ids)
  PROVE  /\ RowType' /\ njobs \in Nat /\ njobs' = njobs + 1 /\ njobs + 1 \in Jobs
         /\ \A j \in 1..njobs' : j \in 1..njobs \/ j = njobs + 1
         /\ stage'[njobs + 1] = s /\ hasLine'[njobs + 1] = line /\ runIds'[njobs + 1] = ids
         /\ \A j \in 1..njobs : /\ stage'[j] = stage[j] /\ hasLine'[j] = hasLine[j]
                                /\ runIds'[j] = runIds[j]
         /\ session' = session
         /\ queue' \in Seq(Jobs) /\ \A i \in 1..Len(queue') : queue'[i] \in 1..njobs'
<1>1. /\ njobs \in Nat /\ njobs' = njobs + 1 /\ njobs + 1 \in Jobs /\ njobs' \in 0..MaxJobs
      /\ \A j \in 1..njobs : j \in Jobs /\ j # njobs + 1
      /\ \A j \in 1..njobs' : j \in 1..njobs \/ j = njobs + 1
      /\ njobs + 1 \in 1..njobs' /\ 1..njobs \subseteq 1..njobs'
  BY ConstantsAssumption DEF Enqueue, RowType, Jobs
<1>2. RowType'
  BY <1>1 DEF Enqueue, RowType
<1>3. /\ stage'[njobs + 1] = s /\ hasLine'[njobs + 1] = line /\ runIds'[njobs + 1] = ids
      /\ \A j \in 1..njobs : /\ stage'[j] = stage[j] /\ hasLine'[j] = hasLine[j]
                             /\ runIds'[j] = runIds[j]
      /\ session' = session
  BY <1>1 DEF Enqueue, RowType
<1>4. /\ queue' \in Seq(Jobs) /\ Len(queue') = Len(queue) + 1 /\ queue'[Len(queue) + 1] = njobs + 1
      /\ \A i \in 1..Len(queue) : queue'[i] = queue[i]
  BY <1>1, AppendProperties DEF Enqueue, WorkerType
<1>5. ASSUME NEW i \in 1..Len(queue') PROVE queue'[i] \in 1..njobs'
  <2>1. Len(queue) \in Nat
    BY LenProperties DEF WorkerType
  <2>2. i \in 1..Len(queue) \/ i = Len(queue) + 1
    BY <1>4, <2>1
  <2> QED BY <1>1, <1>4, <2>2 DEF Links
<1> QED BY <1>1, <1>2, <1>3, <1>4, <1>5

\* An update changes a record that is there, or nothing.
LEMMA Updated ==
  ASSUME NEW line \in BOOLEAN, NEW new, UpdateLine(line, new)
  PROVE  record' = record \/ (record.status # "absent" /\ record' = new)
  BY DEF UpdateLine, UpdateRecord

\* Every step of worker, agents and handlers keeps the types.
LEMMA TypeStep == TypeOK /\ Links /\ [Next]_vars => TypeOK' /\ Links'
<1> SUFFICES ASSUME RowType, LineType, WorkerType, AgentType, HandlerType, Links, [Next]_vars
             PROVE  RowType' /\ LineType' /\ WorkerType' /\ AgentType' /\ HandlerType' /\ Links'
  BY DEF TypeOK
<1>0. /\ njobs \in Nat /\ 1..njobs \subseteq Jobs /\ njobs <= MaxJobs
      /\ cur # 0 => cur \in 1..njobs /\ cur \in Jobs
      /\ hjob # 0 => hjob \in 1..njobs /\ hjob \in Jobs
      /\ mail \subseteq 1..njobs
  BY ConstantsAssumption DEF RowType, Links, Jobs
<1>00. /\ cur # 0 => hasLine[cur] \in BOOLEAN /\ runIds[cur] \in SUBSET Runs
       /\ hjob # 0 => hasLine[hjob] \in BOOLEAN /\ runIds[hjob] \in SUBSET Runs
       /\ held.line \in BOOLEAN /\ held.ids \in SUBSET Runs
  BY <1>0 DEF RowType, WorkerType
<1> USE ConstantsAssumption, <1>0, <1>00 DEF rowVars, recordVars, gitVars, workVars, agentVars,
    stepVars, handlerVars, githubVars, historyVars
<1>1. CASE Take
  <2>a. /\ queue \in Seq(Jobs) /\ queue # <<>> /\ Len(queue) \in Nat \ {0}
        /\ Head(queue) = queue[1] /\ Tail(queue) \in Seq(Jobs) /\ Len(Tail(queue)) = Len(queue) - 1
        /\ \A i \in 1..Len(Tail(queue)) : Tail(queue)[i] = queue[i + 1]
    <3>1. \A q \in Seq(Jobs) : q # <<>> => Len(q) \in Nat \ {0}
      BY EmptySeq
    <3> QED BY <1>1, <3>1, HeadTailProperties DEF Take, WorkerType
  <2>b. Head(queue) \in 1..njobs /\ \A i \in 1..Len(Tail(queue)) : Tail(queue)[i] \in 1..njobs
    <3>1. 1 \in 1..Len(queue) /\ \A i \in 1..Len(Tail(queue)) : i + 1 \in 1..Len(queue)
      BY <2>a
    <3> QED BY <2>a, <3>1 DEF Links
  <2>c. hasLine[Head(queue)] \in BOOLEAN /\ runIds[Head(queue)] \in SUBSET Runs
    BY <2>b DEF RowType
  <2>1. RowType'
    BY <1>1 DEF Take, At, Calm, Happens, RowType
  <2>2. LineType'
    BY <1>1 DEF Take, At, Calm, Happens, LineType
  <2>3. WorkerType'
    BY <1>1, <2>a, <2>b, <2>c DEF Take, At, Calm, Happens, WorkerType
  <2>4. AgentType'
    BY <1>1 DEF Take, At, Calm, Happens, AgentType
  <2>5. HandlerType'
    BY <1>1 DEF Take, At, Calm, Happens, HandlerType
  <2>6. Links'
    BY <1>1, <2>a, <2>b DEF Take, At, Calm, Happens, Links
  <2> QED BY <2>1, <2>2, <2>3, <2>4, <2>5, <2>6
<1>2. CASE Skip
  <2>1. RowType'
    BY <1>2 DEF Skip, At, Calm, Happens, RowType
  <2>2. LineType'
    BY <1>2 DEF Skip, At, Calm, Happens, LineType
  <2>3. WorkerType'
    BY <1>2 DEF Skip, At, Calm, Happens, WorkerType
  <2>4. AgentType'
    BY <1>2 DEF Skip, At, Calm, Happens, AgentType
  <2>5. HandlerType'
    BY <1>2 DEF Skip, At, Calm, Happens, HandlerType
  <2>6. Links'
    BY <1>2 DEF Skip, At, Calm, Happens, Links
  <2> QED BY <2>1, <2>2, <2>3, <2>4, <2>5, <2>6
<1>3. CASE Prepare
  <2>1. RowType'
    BY <1>3 DEF Prepare, Events, At, Calm, Happens, RowType
  <2>2. LineType'
    BY <1>3 DEF Prepare, Events, At, Calm, Happens, LineType
  <2>3. WorkerType'
    BY <1>3 DEF Prepare, Events, At, Calm, Happens, WorkerType
  <2>4. AgentType'
    BY <1>3 DEF Prepare, Events, At, Calm, Happens, AgentType
  <2>5. HandlerType'
    BY <1>3 DEF Prepare, Events, At, Calm, Happens, HandlerType
  <2>6. Links'
    BY <1>3 DEF Prepare, Events, At, Calm, Happens, Links
  <2> QED BY <2>1, <2>2, <2>3, <2>4, <2>5, <2>6
<1>4. CASE ReadLine
  <2>1. RowType'
    BY <1>4 DEF ReadLine, Records, At, Calm, Happens, RowType, LineType, WorkerType
  <2>2. LineType'
    BY <1>4 DEF ReadLine, Records, At, Calm, Happens, LineType
  <2>3. WorkerType'
    BY <1>4 DEF ReadLine, Records, At, Calm, Happens, WorkerType, LineType
  <2>4. AgentType'
    BY <1>4 DEF ReadLine, Records, At, Calm, Happens, AgentType
  <2>5. HandlerType'
    BY <1>4 DEF ReadLine, Records, At, Calm, Happens, HandlerType
  <2>6. Links'
    BY <1>4 DEF ReadLine, Records, At, Calm, Happens, Links
  <2> QED BY <2>1, <2>2, <2>3, <2>4, <2>5, <2>6
<1>5. CASE WriteLine
  <2>1. RowType'
    BY <1>5 DEF WriteLine, UpsertRecord, NoRecord, Records, At, Calm, Happens, RowType
  <2>2. LineType'
    BY <1>5 DEF WriteLine, UpsertRecord, NoRecord, Records, At, Calm, Happens, LineType, WorkerType
  <2>3. WorkerType'
    BY <1>5 DEF WriteLine, UpsertRecord, NoRecord, Records, At, Calm, Happens, WorkerType
  <2>4. AgentType'
    BY <1>5 DEF WriteLine, UpsertRecord, NoRecord, Records, At, Calm, Happens, AgentType
  <2>5. HandlerType'
    BY <1>5 DEF WriteLine, UpsertRecord, NoRecord, Records, At, Calm, Happens, HandlerType
  <2>6. Links'
    BY <1>5 DEF WriteLine, UpsertRecord, NoRecord, Records, At, Calm, Happens, Links
  <2> QED BY <2>1, <2>2, <2>3, <2>4, <2>5, <2>6
<1>6. CASE Launch
  <2>a. \/ /\ run' = Len(jobOf) + 1 /\ Len(jobOf) < MaxRuns /\ pc' = "record"
           /\ jobOf' = Append(jobOf, cur) /\ alive' = alive \cup {run'}
        \/ UNCHANGED <<jobOf, run, alive>> /\ pc' = "failed"
    BY <1>6, AppendProperties DEF Launch, At, Calm, AgentType, WorkerType
  <2>b. /\ Len(jobOf) \in Nat /\ Append(jobOf, cur) \in Seq(Jobs)
        /\ Len(Append(jobOf, cur)) = Len(jobOf) + 1 /\ Append(jobOf, cur)[Len(jobOf) + 1] = cur
        /\ \A s \in 1..Len(jobOf) : Append(jobOf, cur)[s] = jobOf[s]
    BY <1>6, AppendProperties, LenProperties DEF Launch, At, AgentType, WorkerType
  <2>c. cur \in 1..njobs /\ pc = "launch"
    BY <1>6 DEF Launch, At, WorkerType
  <2>d. Len(jobOf) + 1 \in Runs \/ pc' = "failed"
    BY <2>a, <2>b DEF Runs
  <2>e. jobOf' \in Seq(Jobs) /\ alive' \subseteq 1..Len(jobOf')
    <3>1. alive \subseteq 1..Len(jobOf) /\ jobOf \in Seq(Jobs)
      BY DEF AgentType
    <3>2. 1..Len(jobOf) \subseteq 1..(Len(jobOf) + 1) /\ Len(jobOf) + 1 \in 1..(Len(jobOf) + 1)
      BY <2>b
    <3> QED BY <2>a, <2>b, <3>1, <3>2
  <2>f. /\ Len(jobOf') <= MaxRuns
        /\ \A s \in 1..Len(jobOf') : jobOf'[s] \in 1..njobs
        /\ pc' # "link" /\ (pc' = "record" => run' \in Runs)
    <3>1. CASE jobOf' = Append(jobOf, cur) /\ pc' = "record" /\ run' = Len(jobOf) + 1 /\ Len(jobOf) < MaxRuns
      <4>1. \A s \in 1..(Len(jobOf) + 1) : s \in 1..Len(jobOf) \/ s = Len(jobOf) + 1
        BY <2>b
      <4> QED BY <2>b, <2>c, <2>d, <3>1, <4>1 DEF Links
    <3>2. CASE jobOf' = jobOf /\ pc' = "failed"
      BY <3>2 DEF Links
    <3> QED BY <2>a, <3>1, <3>2
  <2>g. UNCHANGED <<njobs, queue, cur, hjob, posted, mail>>
    BY <1>6 DEF Launch, At
  <2>1. RowType'
    BY <1>6 DEF Launch, Runs, At, Calm, Happens, RowType
  <2>2. LineType'
    BY <1>6 DEF Launch, Runs, At, Calm, Happens, LineType
  <2>3. WorkerType'
    BY <1>6, <2>a, <2>b DEF Launch, Runs, At, Calm, Happens, WorkerType
  <2>4. AgentType'
    BY <1>6, <2>e DEF Launch, Runs, At, Calm, Happens, AgentType
  <2>5. HandlerType'
    BY <1>6 DEF Launch, Runs, At, Calm, Happens, HandlerType
  <2>6. Links'
    BY <2>f, <2>g DEF Links
  <2> QED BY <2>1, <2>2, <2>3, <2>4, <2>5, <2>6
<1>7. CASE RecordRun
  <2>a. record' = record \/ record' = [record EXCEPT !.status = "agent_running", !.retryable = TRUE,
                                                 !.ids = record.ids \cup {run}]
    BY <1>7, Updated DEF RecordRun

  <2>b. /\ run \in Runs /\ record.ids \cup {run} \in SUBSET Runs
        /\ record \in [status : {"absent", "worktree_ready", "agent_running", "agent_completed", "failed", "merged"},
                      ids : SUBSET Runs, retryable : BOOLEAN,
                      cleanup : {"preserved", "cleaned", "cleanup_failed"}]
    BY <1>7 DEF RecordRun, At, Links, LineType, Records
  <2>c. record' \in Records
    BY <2>a, <2>b DEF Records
  <2>d. UNCHANGED <<read, tree, branch>>
    BY <1>7 DEF RecordRun
  <2>1. RowType'
    BY <1>7 DEF RecordRun, Records, At, Calm, Happens, RowType
  <2>2. LineType'
    BY <2>c, <2>d DEF LineType
  <2>3. WorkerType'
    BY <1>7 DEF RecordRun, Records, At, Calm, Happens, WorkerType
  <2>4. AgentType'
    BY <1>7 DEF RecordRun, Records, At, Calm, Happens, AgentType
  <2>5. HandlerType'
    BY <1>7 DEF RecordRun, Records, At, Calm, Happens, HandlerType
  <2>6. Links'
    BY <1>7 DEF RecordRun, Records, At, Calm, Happens, Links
  <2> QED BY <2>1, <2>2, <2>3, <2>4, <2>5, <2>6
<1>8. CASE LinkRow
  <2>a. run \in Runs /\ run \in 0..MaxRuns
    BY <1>8 DEF LinkRow, At, Links, Runs
  <2>1. RowType'
    BY <1>8, <2>a DEF LinkRow, At, Calm, Happens, RowType, WorkerType
  <2>2. LineType'
    BY <1>8 DEF LinkRow, At, Calm, Happens, LineType
  <2>3. WorkerType'
    BY <1>8, <2>a DEF LinkRow, At, Calm, Happens, WorkerType
  <2>4. AgentType'
    BY <1>8 DEF LinkRow, At, Calm, Happens, AgentType
  <2>5. HandlerType'
    BY <1>8 DEF LinkRow, At, Calm, Happens, HandlerType
  <2>6. Links'
    BY <1>8 DEF LinkRow, At, Calm, Happens, Links
  <2> QED BY <2>1, <2>2, <2>3, <2>4, <2>5, <2>6
<1>9. CASE WaitEnds
  <2>1. RowType'
    BY <1>9 DEF WaitEnds, Events, At, Calm, Happens, RowType
  <2>2. LineType'
    BY <1>9 DEF WaitEnds, Events, At, Calm, Happens, LineType
  <2>3. WorkerType'
    BY <1>9 DEF WaitEnds, Events, At, Calm, Happens, WorkerType
  <2>4. AgentType'
    BY <1>9 DEF WaitEnds, Events, At, Calm, Happens, AgentType
  <2>5. HandlerType'
    BY <1>9 DEF WaitEnds, Events, At, Calm, Happens, HandlerType
  <2>6. Links'
    BY <1>9 DEF WaitEnds, Events, At, Calm, Happens, Links
  <2> QED BY <2>1, <2>2, <2>3, <2>4, <2>5, <2>6
<1>10. CASE EndLine
  <2>a. \/ record' = record \/ record' = [record EXCEPT !.status = "agent_completed"]
        \/ record' = [record EXCEPT !.status = "failed", !.retryable = TRUE]
    BY <1>10, Updated DEF EndLine
  <2>1. RowType'
    BY <1>10 DEF EndLine, Records, At, Calm, Happens, RowType
  <2>2. LineType'
    BY <1>10, <2>a DEF EndLine, Records, At, Calm, Happens, LineType
  <2>3. WorkerType'
    BY <1>10 DEF EndLine, Records, At, Calm, Happens, WorkerType
  <2>4. AgentType'
    BY <1>10 DEF EndLine, Records, At, Calm, Happens, AgentType
  <2>5. HandlerType'
    BY <1>10 DEF EndLine, Records, At, Calm, Happens, HandlerType
  <2>6. Links'
    BY <1>10 DEF EndLine, Records, At, Calm, Happens, Links
  <2> QED BY <2>1, <2>2, <2>3, <2>4, <2>5, <2>6
<1>11. CASE EndRow
  <2>a. UNCHANGED <<njobs, queue, jobOf, hjob, posted, mail>> /\ cur' = 0 /\ pc' = "idle"
    BY <1>11 DEF EndRow, At
  <2>1. RowType'
    BY <1>11 DEF EndRow, NoHeld, At, Calm, Happens, RowType, WorkerType
  <2>2. LineType'
    BY <1>11 DEF EndRow, NoHeld, At, Calm, Happens, LineType
  <2>3. WorkerType'
    BY <1>11 DEF EndRow, NoHeld, At, Calm, Happens, WorkerType
  <2>4. AgentType'
    BY <1>11 DEF EndRow, NoHeld, At, Calm, Happens, AgentType
  <2>5. HandlerType'
    BY <1>11 DEF EndRow, NoHeld, At, Calm, Happens, HandlerType
  <2>6. Links'
    BY <2>a DEF Links
  <2> QED BY <2>1, <2>2, <2>3, <2>4, <2>5, <2>6
<1>12. CASE Post
  <2>a. PICK s \in alive : /\ posted' = posted \cup {jobOf[s]} /\ mail' = mail \cup {jobOf[s]}
                           /\ pr' = "open" \/ pr' = pr
    BY <1>12 DEF Post
  <2>b. jobOf[s] \in 1..njobs
    BY DEF AgentType, Links
  <2>1. RowType'
    BY <1>12 DEF Post, RowType
  <2>2. LineType'
    BY <1>12 DEF Post, LineType
  <2>3. WorkerType'
    BY <1>12 DEF Post, WorkerType
  <2>4. AgentType'
    BY <1>12, <2>a, <2>b DEF Post, AgentType
  <2>5. HandlerType'
    BY <1>12, <2>a DEF Post, HandlerType
  <2>6. Links'
    BY <1>12, <2>a, <2>b DEF Post, Links
  <2> QED BY <2>1, <2>2, <2>3, <2>4, <2>5, <2>6
<1>13. CASE Redeliver
  <2>1. RowType'
    BY <1>13 DEF Redeliver, Happens, Events, RowType
  <2>2. LineType'
    BY <1>13 DEF Redeliver, Happens, Events, LineType
  <2>3. WorkerType'
    BY <1>13 DEF Redeliver, Happens, Events, WorkerType
  <2>4. AgentType'
    BY <1>13 DEF Redeliver, Happens, Events, AgentType
  <2>5. HandlerType'
    BY <1>13 DEF Redeliver, Happens, Events, HandlerType
  <2>6. Links'
    BY <1>13 DEF Redeliver, Happens, Events, Links
  <2> QED BY <2>1, <2>2, <2>3, <2>4, <2>5, <2>6
<1>14. CASE Approve
  <2>a. Enqueue("implementation", FALSE, {})
    BY <1>14 DEF Approve, Handles, Calm, Happens, Events
  <2>b. {} \in SUBSET Runs /\ FALSE \in BOOLEAN /\ "implementation" \in Stages
    BY <1>14 DEF Approve, Handles, Calm, Happens, Events, RowType, HandlerType, LineageIds, Stages
  <2>c. /\ RowType' /\ njobs' = njobs + 1 /\ queue' \in Seq(Jobs)
        /\ \A i \in 1..Len(queue') : queue'[i] \in 1..njobs'
    BY <2>a, <2>b, Enqueued
  <2>1. RowType'
    BY <2>c
  <2>2. LineType'
    BY <1>14 DEF Approve, Handles, Calm, Happens, Events, LineType
  <2>3. WorkerType'
    BY <1>14, <2>c DEF Approve, Handles, Calm, Happens, Events, WorkerType
  <2>4. AgentType'
    BY <1>14 DEF Approve, Handles, Calm, Happens, Events, AgentType
  <2>5. HandlerType'
    BY <1>14 DEF Approve, Handles, Calm, Happens, Events, HandlerType
  <2>6. Links'
    BY <1>14, <2>c DEF Approve, Handles, Calm, Happens, Events, Links
  <2> QED BY <2>1, <2>2, <2>3, <2>4, <2>5, <2>6
<1>15. CASE CompleteImplementation
  <2>1. RowType'
    BY <1>15 DEF CompleteImplementation, Handles, Onward, Idle, Calm, Receive, RowType
  <2>2. LineType'
    BY <1>15 DEF CompleteImplementation, Handles, Onward, Idle, Calm, Receive, LineType
  <2>3. WorkerType'
    BY <1>15 DEF CompleteImplementation, Handles, Onward, Idle, Calm, Receive, WorkerType
  <2>4. AgentType'
    BY <1>15 DEF CompleteImplementation, Handles, Onward, Idle, Calm, Receive, AgentType
  <2>5. HandlerType'
    BY <1>15 DEF CompleteImplementation, Handles, Onward, Idle, Calm, Receive, HandlerType
  <2>6. Links'
    BY <1>15 DEF CompleteImplementation, Handles, Onward, Idle, Calm, Receive, Links
  <2> QED BY <2>1, <2>2, <2>3, <2>4, <2>5, <2>6
<1>16. CASE QueueReview
  <2>z. hjob \in 1..njobs
    BY <1>16 DEF QueueReview, Handles, HandlerType

  <2>a. Enqueue("review_round", hasLine[hjob], LineageIds(hjob))
    BY <1>16 DEF QueueReview, Handles, Idle, Calm
  <2>b. LineageIds(hjob) \in SUBSET Runs /\ hasLine[hjob] \in BOOLEAN /\ "review_round" \in Stages
    BY <1>16 DEF QueueReview, Handles, Idle, Calm, RowType, HandlerType, LineageIds, Stages
  <2>c. /\ RowType' /\ njobs' = njobs + 1 /\ queue' \in Seq(Jobs)
        /\ \A i \in 1..Len(queue') : queue'[i] \in 1..njobs'
    BY <2>a, <2>b, Enqueued
  <2>1. RowType'
    BY <2>c
  <2>2. LineType'
    BY <1>16 DEF QueueReview, Handles, Idle, Calm, LineType
  <2>3. WorkerType'
    BY <1>16, <2>c DEF QueueReview, Handles, Idle, Calm, WorkerType
  <2>4. AgentType'
    BY <1>16 DEF QueueReview, Handles, Idle, Calm, AgentType
  <2>5. HandlerType'
    BY <1>16 DEF QueueReview, Handles, Idle, Calm, HandlerType
  <2>6. Links'
    BY <1>16, <2>c DEF QueueReview, Handles, Idle, Calm, Links
  <2> QED BY <2>1, <2>2, <2>3, <2>4, <2>5, <2>6
<1>17. CASE HandleComment
  <2>a. PICK j \in mail :
          /\ mail' = mail \ {j} /\ processed' = processed \cup {j}
          /\ \/ Enqueue(FollowUp(j), hasLine[j], LineageIds(j)) /\ Calm
             \/ UNCHANGED <<rowVars, queue>> /\ (Calm \/ Happens("error"))
    BY <1>17 DEF HandleComment, Receive
  <2>b. /\ j \in 1..njobs /\ FollowUp(j) \in Stages /\ hasLine[j] \in BOOLEAN
        /\ LineageIds(j) \in SUBSET Runs
    <3>1. FollowUp(j) \in Stages
      BY DEF FollowUp, Stages
    <3> QED BY <3>1 DEF RowType, LineageIds
  <2>c. /\ RowType' /\ queue' \in Seq(Jobs) /\ njobs <= njobs' /\ njobs' \in Nat
        /\ \A i \in 1..Len(queue') : queue'[i] \in 1..njobs'
    <3>1. CASE Enqueue(FollowUp(j), hasLine[j], LineageIds(j))
      BY <2>b, <3>1, Enqueued
    <3>2. CASE UNCHANGED <<rowVars, queue>>
      BY <3>2 DEF RowType, WorkerType, Links
    <3> QED BY <2>a, <3>1, <3>2
  <2>1. RowType'
    BY <2>c
  <2>2. LineType'
    BY <1>17 DEF HandleComment, Handles, Calm, Happens, Events, LineType
  <2>3. WorkerType'
    BY <1>17, <2>c DEF HandleComment, Handles, Calm, Happens, Events, WorkerType
  <2>4. AgentType'
    BY <1>17, <2>a DEF HandleComment, Handles, Calm, Happens, Events, AgentType
  <2>5. HandlerType'
    BY <1>17, <2>a DEF HandleComment, Handles, Calm, Happens, Events, HandlerType
  <2>6. Links'
    BY <1>17, <2>a, <2>c DEF HandleComment, Handles, Calm, Happens, Events, Links
  <2> QED BY <2>1, <2>2, <2>3, <2>4, <2>5, <2>6
<1>18. CASE HandleConflictRequest
  <2>a. Enqueue("merge_conflict_resolution", FALSE, {})
    BY <1>18 DEF HandleConflictRequest, Handles, Happens, Events
  <2>b. {} \in SUBSET Runs /\ FALSE \in BOOLEAN /\ "merge_conflict_resolution" \in Stages
    BY <1>18 DEF HandleConflictRequest, Handles, Happens, Events, RowType, HandlerType, LineageIds, Stages
  <2>c. /\ RowType' /\ njobs' = njobs + 1 /\ queue' \in Seq(Jobs)
        /\ \A i \in 1..Len(queue') : queue'[i] \in 1..njobs'
    BY <2>a, <2>b, Enqueued
  <2>1. RowType'
    BY <2>c
  <2>2. LineType'
    BY <1>18 DEF HandleConflictRequest, Handles, Happens, Events, LineType
  <2>3. WorkerType'
    BY <1>18, <2>c DEF HandleConflictRequest, Handles, Happens, Events, WorkerType
  <2>4. AgentType'
    BY <1>18 DEF HandleConflictRequest, Handles, Happens, Events, AgentType
  <2>5. HandlerType'
    BY <1>18 DEF HandleConflictRequest, Handles, Happens, Events, HandlerType
  <2>6. Links'
    BY <1>18, <2>c DEF HandleConflictRequest, Handles, Happens, Events, Links
  <2> QED BY <2>1, <2>2, <2>3, <2>4, <2>5, <2>6
<1>19. CASE ReceiveVerdict
  <2>1. RowType'
    BY <1>19 DEF ReceiveVerdict, Handles, Receive, Calm, RowType
  <2>2. LineType'
    BY <1>19 DEF ReceiveVerdict, Handles, Receive, Calm, LineType
  <2>3. WorkerType'
    BY <1>19 DEF ReceiveVerdict, Handles, Receive, Calm, WorkerType
  <2>4. AgentType'
    BY <1>19 DEF ReceiveVerdict, Handles, Receive, Calm, AgentType
  <2>5. HandlerType'
    BY <1>19 DEF ReceiveVerdict, Handles, Receive, Calm, HandlerType, RowType
  <2>6. Links'
    BY <1>19 DEF ReceiveVerdict, Handles, Receive, Calm, Links
  <2> QED BY <2>1, <2>2, <2>3, <2>4, <2>5, <2>6
<1>20. CASE Merge
  <2>a. /\ hjob \in 0..MaxJobs /\ hstep = "merge" /\ cut' = cut
        /\ happened' \in {happened, happened \cup {"conflict"}, happened \cup {"error"}}
        /\ pr' \in {pr, "merged"} /\ mergedBy' \in {mergedBy, hjob}
        /\ \/ hstep' \in {"merged", "conflict"} /\ hjob' = hjob /\ source' = source
           \/ hstep' = "idle" /\ hjob' = 0 /\ source' = {}
    BY <1>20 DEF Merge, Handles, Onward, Idle, Calm, Happens, HandlerType
  <2>b. happened' \subseteq Events /\ source' \subseteq Runs
    BY <2>a DEF HandlerType, Events
  <2>c. cut' \in BOOLEAN
    BY <2>a, Zenon DEF HandlerType
  <2>1. RowType'
    BY <1>20 DEF Merge, Handles, Onward, Idle, Calm, Happens, Events, RowType
  <2>2. LineType'
    BY <1>20 DEF Merge, Handles, Onward, Idle, Calm, Happens, Events, LineType
  <2>3. WorkerType'
    BY <1>20 DEF Merge, Handles, Onward, Idle, Calm, Happens, Events, WorkerType
  <2>4. AgentType'
    BY <1>20 DEF Merge, Handles, Onward, Idle, Calm, Happens, Events, AgentType
  <2>5. HandlerType'
    BY <2>a, <2>b, <2>c DEF HandlerType
  <2>6. Links'
    BY <1>20 DEF Merge, Handles, Onward, Idle, Calm, Happens, Events, Links
  <2> QED BY <2>1, <2>2, <2>3, <2>4, <2>5, <2>6
<1>21. CASE RecordConflict
  <2>z. hjob \in 1..njobs /\ hasLine[hjob] \in BOOLEAN
    BY <1>21 DEF RecordConflict, Handles, Onward, Calm, HandlerType
  <2>a. record' = record \/ record' = [record EXCEPT !.retryable = TRUE]
    BY <1>21, <2>z, Updated DEF RecordConflict
  <2>1. RowType'
    BY <1>21, <2>z DEF RecordConflict, Handles, Onward, Calm, Records, RowType, HandlerType
  <2>2. LineType'
    BY <1>21, <2>a DEF RecordConflict, Handles, Onward, Calm, Records, LineType
  <2>3. WorkerType'
    BY <1>21 DEF RecordConflict, Handles, Onward, Calm, Records, WorkerType
  <2>4. AgentType'
    BY <1>21 DEF RecordConflict, Handles, Onward, Calm, Records, AgentType
  <2>5. HandlerType'
    BY <1>21 DEF RecordConflict, Handles, Onward, Calm, Records, HandlerType
  <2>6. Links'
    BY <1>21 DEF RecordConflict, Handles, Onward, Calm, Records, Links
  <2> QED BY <2>1, <2>2, <2>3, <2>4, <2>5, <2>6
<1>22. CASE QueueResolution
  <2>z. hjob \in 1..njobs
    BY <1>22 DEF QueueResolution, Handles, HandlerType

  <2>a. Enqueue("merge_conflict_resolution", hasLine[hjob], source)
    BY <1>22 DEF QueueResolution, Handles, Onward, Calm
  <2>b. source \in SUBSET Runs /\ hasLine[hjob] \in BOOLEAN /\ "merge_conflict_resolution" \in Stages
    BY <1>22 DEF QueueResolution, Handles, Onward, Calm, RowType, HandlerType, LineageIds, Stages
  <2>c. /\ RowType' /\ njobs' = njobs + 1 /\ queue' \in Seq(Jobs)
        /\ \A i \in 1..Len(queue') : queue'[i] \in 1..njobs'
    BY <2>a, <2>b, Enqueued
  <2>1. RowType'
    BY <2>c
  <2>2. LineType'
    BY <1>22 DEF QueueResolution, Handles, Onward, Calm, LineType
  <2>3. WorkerType'
    BY <1>22, <2>c DEF QueueResolution, Handles, Onward, Calm, WorkerType
  <2>4. AgentType'
    BY <1>22 DEF QueueResolution, Handles, Onward, Calm, AgentType
  <2>5. HandlerType'
    BY <1>22 DEF QueueResolution, Handles, Onward, Calm, HandlerType
  <2>6. Links'
    BY <1>22, <2>c DEF QueueResolution, Handles, Onward, Calm, Links
  <2> QED BY <2>1, <2>2, <2>3, <2>4, <2>5, <2>6
<1>23. CASE RecordProcessed
  <2>a. UNCHANGED <<njobs, queue, cur, pc, run, jobOf, posted, mail>> /\ hjob' \in {0, hjob}
    BY <1>23 DEF RecordProcessed, Handles, Onward, Idle
  <2>1. RowType'
    BY <1>23 DEF RecordProcessed, Handles, Onward, Idle, Calm, RowType
  <2>2. LineType'
    BY <1>23 DEF RecordProcessed, Handles, Onward, Idle, Calm, LineType
  <2>3. WorkerType'
    BY <1>23 DEF RecordProcessed, Handles, Onward, Idle, Calm, WorkerType
  <2>4. AgentType'
    BY <1>23 DEF RecordProcessed, Handles, Onward, Idle, Calm, AgentType, HandlerType
  <2>5. HandlerType'
    BY <1>23 DEF RecordProcessed, Handles, Onward, Idle, Calm, HandlerType
  <2>6. Links'
    BY <2>a DEF Links
  <2> QED BY <2>1, <2>2, <2>3, <2>4, <2>5, <2>6
<1>24. CASE RecordMerged
  <2>z. hjob \in 1..njobs /\ hasLine[hjob] \in BOOLEAN
    BY <1>24 DEF RecordMerged, Handles, Onward, Idle, Calm, HandlerType
  <2>a. record' = record \/ record' = [record EXCEPT !.status = "merged", !.retryable = FALSE]
    BY <1>24, <2>z, Updated DEF RecordMerged
  <2>1. RowType'
    BY <1>24, <2>z DEF RecordMerged, Handles, Onward, Idle, Calm, Records, RowType, HandlerType
  <2>2. LineType'
    BY <1>24, <2>a DEF RecordMerged, Handles, Onward, Idle, Calm, Records, LineType
  <2>3. WorkerType'
    BY <1>24 DEF RecordMerged, Handles, Onward, Idle, Calm, Records, WorkerType
  <2>4. AgentType'
    BY <1>24 DEF RecordMerged, Handles, Onward, Idle, Calm, Records, AgentType
  <2>5. HandlerType'
    BY <1>24 DEF RecordMerged, Handles, Onward, Idle, Calm, Records, HandlerType
  <2>6. Links'
    BY <1>24 DEF RecordMerged, Handles, Onward, Idle, Calm, Records, Links
  <2> QED BY <2>1, <2>2, <2>3, <2>4, <2>5, <2>6
<1>25. CASE RemoveWorktree
  <2>1. RowType'
    BY <1>25 DEF RemoveWorktree, Handles, Onward, Idle, Calm, Happens, Events, RowType
  <2>2. LineType'
    BY <1>25 DEF RemoveWorktree, Handles, Onward, Idle, Calm, Happens, Events, LineType
  <2>3. WorkerType'
    BY <1>25 DEF RemoveWorktree, Handles, Onward, Idle, Calm, Happens, Events, WorkerType
  <2>4. AgentType'
    BY <1>25 DEF RemoveWorktree, Handles, Onward, Idle, Calm, Happens, Events, AgentType
  <2>5. HandlerType'
    <3>1. /\ hjob \in 0..MaxJobs /\ hstep = "remove" /\ cut' = cut /\ UNCHANGED <<pr, mergedBy>>
          /\ happened' \in {happened, happened \cup {"gitFailure"}}
          /\ \/ hstep' \in {"branch", "cleanup_failed"} /\ hjob' = hjob /\ source' = source
             \/ hstep' = "idle" /\ hjob' = 0 /\ source' = {}
      BY <1>25 DEF RemoveWorktree, Handles, Onward, Idle, Calm, Happens, HandlerType
    <3>2. happened' \subseteq Events /\ source' \subseteq Runs
      BY <3>1 DEF HandlerType, Events
    <3>3. cut' \in BOOLEAN
      BY <3>1, Zenon DEF HandlerType
    <3> QED BY <3>1, <3>2, <3>3 DEF HandlerType
  <2>6. Links'
    BY <1>25 DEF RemoveWorktree, Handles, Onward, Idle, Calm, Happens, Events, Links
  <2> QED BY <2>1, <2>2, <2>3, <2>4, <2>5, <2>6
<1>26. CASE DeleteBranch
  <2>1. RowType'
    BY <1>26 DEF DeleteBranch, Handles, Onward, Calm, Happens, Events, RowType
  <2>2. LineType'
    BY <1>26 DEF DeleteBranch, Handles, Onward, Calm, Happens, Events, LineType
  <2>3. WorkerType'
    BY <1>26 DEF DeleteBranch, Handles, Onward, Calm, Happens, Events, WorkerType
  <2>4. AgentType'
    BY <1>26 DEF DeleteBranch, Handles, Onward, Calm, Happens, Events, AgentType
  <2>5. HandlerType'
    BY <1>26 DEF DeleteBranch, Handles, Onward, Calm, Happens, Events, HandlerType
  <2>6. Links'
    BY <1>26 DEF DeleteBranch, Handles, Onward, Calm, Happens, Events, Links
  <2> QED BY <2>1, <2>2, <2>3, <2>4, <2>5, <2>6
<1>27. CASE RecordCleanup
  <2>z. hjob \in 1..njobs /\ hasLine[hjob] \in BOOLEAN
    BY <1>27 DEF RecordCleanup, Handles, Idle, Calm, HandlerType
  <2>a. record' = record \/ record' = [record EXCEPT !.cleanup = hstep]
    BY <1>27, <2>z, Updated DEF RecordCleanup
  <2>1. RowType'
    BY <1>27, <2>z DEF RecordCleanup, Handles, Idle, Calm, Records, RowType, HandlerType
  <2>2. LineType'
    BY <1>27, <2>a DEF RecordCleanup, Handles, Idle, Calm, Records, LineType
  <2>3. WorkerType'
    BY <1>27 DEF RecordCleanup, Handles, Idle, Calm, Records, WorkerType
  <2>4. AgentType'
    BY <1>27 DEF RecordCleanup, Handles, Idle, Calm, Records, AgentType
  <2>5. HandlerType'
    BY <1>27 DEF RecordCleanup, Handles, Idle, Calm, Records, HandlerType
  <2>6. Links'
    BY <1>27 DEF RecordCleanup, Handles, Idle, Calm, Records, Links
  <2> QED BY <2>1, <2>2, <2>3, <2>4, <2>5, <2>6
<1>28. CASE Crash
  <2>a. queue' \in Seq(Jobs) /\ Len(queue') = 0
    BY <1>28, EmptySeq DEF Crash
  <2>b. cut' \in BOOLEAN
    BY <1>28, Zenon DEF Crash, HandlerType
  <2>1. RowType'
    BY <1>28 DEF Crash, Idle, NoHeld, NoRecord, Records, Events, RowType
  <2>2. LineType'
    BY <1>28 DEF Crash, Idle, NoHeld, NoRecord, Records, Events, LineType
  <2>3. WorkerType'
    BY <1>28, <2>a DEF Crash, Idle, NoHeld, NoRecord, Records, Events, WorkerType
  <2>4. AgentType'
    BY <1>28 DEF Crash, Idle, NoHeld, NoRecord, Records, Events, AgentType
  <2>5. HandlerType'
    BY <1>28, <2>b DEF Crash, Idle, NoHeld, NoRecord, Records, Events, HandlerType
  <2>6. Links'
    BY <1>28, <2>a DEF Crash, Idle, NoHeld, NoRecord, Records, Events, Links
  <2> QED BY <2>1, <2>2, <2>3, <2>4, <2>5, <2>6
<1>29. CASE Restart
  <2>a. PICK done \in SUBSET {j \in posted : status[j] = "launched"} :
          status' = [j \in Jobs |-> IF j \in done THEN "completed"
                                    ELSE IF status[j] = "launched" THEN "queued" ELSE status[j]]
    BY <1>29 DEF Restart
  <2> DEFINE pending == {j \in 1..njobs : status'[j] \in {"queued", "retrying"}}
  <2>b. IsFiniteSet(pending)
    <3>1. IsFiniteSet(1..njobs)
      BY njobs \in Int, 1 \in Int, FS_Interval
    <3>2. pending \subseteq 1..njobs
      OBVIOUS
    <3> QED BY <3>1, <3>2, FS_Subset
  <2>c. Cardinality(pending) \in Nat
    BY <2>b, FS_CardinalityType
  <2>d. PICK q \in [1..Cardinality(pending) -> pending] : queue' = q
    BY <1>29 DEF Restart
  <2>e. queue' \in Seq(1..njobs)
    <3>1. queue' \in [1..Cardinality(pending) -> 1..njobs]
      BY <2>d
    <3> QED BY <2>c, <3>1, SeqDef
  <2>f. queue' \in Seq(Jobs) /\ \A i \in 1..Len(queue') : queue'[i] \in 1..njobs
    BY <2>e, ElementOfSeq, SeqMonotonic
  <2>1. RowType'
    BY <1>29, <2>a DEF Restart, Calm, RowType
  <2>2. LineType'
    BY <1>29 DEF Restart, Calm, LineType
  <2>3. WorkerType'
    BY <1>29, <2>f DEF Restart, Calm, WorkerType
  <2>4. AgentType'
    BY <1>29 DEF Restart, Calm, AgentType
  <2>5. HandlerType'
    BY <1>29 DEF Restart, Calm, HandlerType
  <2>6. Links'
    BY <1>29, <2>f DEF Restart, Calm, Links
  <2> QED BY <2>1, <2>2, <2>3, <2>4, <2>5, <2>6
<1>30. CASE UNCHANGED vars
  BY <1>30 DEF vars, RowType, LineType, WorkerType, AgentType, HandlerType, Links
<1> QED BY <1>1, <1>2, <1>3, <1>4, <1>5, <1>6, <1>7, <1>8, <1>9, <1>10, <1>11, <1>12, <1>13, <1>14,
           <1>15, <1>16, <1>17, <1>18, <1>19, <1>20, <1>21, <1>22, <1>23, <1>24, <1>25, <1>26,
           <1>27, <1>28, <1>29, <1>30 DEF Next

---------------------------------------------------------------------------
(***************************************************************************)
(* What the record knows.  RunsAreRemembered needs that a record that is   *)
(* updated is there, that the metadata the worker holds and a handler has  *)
(* read are known to it, and that a row without the line has no runs when  *)
(* its job is about to get one.                                            *)
(***************************************************************************)
\* Every agent run that a row of the line names is in the line's record, whatever order
\* the worker's writes, the handlers' writes, further approvals and crashes come in.
RunsAreRemembered ==
  \A j \in 1..njobs : hasLine[j] => (runIds[j] \cup {session[j]}) \ {0} \subseteq record.ids

Known == record.ids
Recorded == record.status # "absent"

Rows ==
  /\ \A j \in Jobs : j > njobs => session[j] = 0
  /\ \A j \in 1..njobs :
       /\ hasLine[j] /\ ~Prepares(j) => Recorded
       /\ stage[j] \in {"review_round", "fix"} => hasLine[j]
       /\ ~hasLine[j] /\ Prepares(j) => runIds[j] = {} /\ session[j] = 0

\* An agent of an implementation, and what it posts, comes after its line.
Effects ==
  /\ \A s \in 1..Len(jobOf) : Prepares(jobOf[s]) => hasLine[jobOf[s]] /\ Recorded
  /\ \A j \in posted : Prepares(j) => hasLine[j] /\ Recorded

AtWork ==
  cur # 0 =>
    /\ held.line = hasLine[cur]
    /\ held.line => held.ids \subseteq Known
    /\ Prepares(cur) /\ ~held.line => held.ids = {}
    /\ pc \in {"read", "write"} => Prepares(cur)
    /\ pc = "write" => held.line /\ held.ids = Known
    /\ pc \in {"launch", "record", "link"} =>
         (Prepares(cur) => held.line) /\ (held.line => Recorded)
    /\ pc = "link" /\ held.line => run \in Known

Handling ==
  /\ hstep \in {"idle", "opened"} => source = {}
  /\ hstep = "opened" => stage[hjob] = "implementation" /\ hjob \in posted
  /\ hstep \notin {"idle", "opened"} => stage[hjob] = "final_verdict"
  /\ hjob # 0 /\ hasLine[hjob] => source \subseteq Known

Memory == Rows /\ RunsAreRemembered /\ Effects /\ AtWork /\ Handling

\* The rows there are keep stage and line; the record forgets nothing.
OldRows ==
  /\ njobs \in Nat /\ njobs' \in Nat /\ njobs <= njobs'
  /\ \A j \in 1..njobs : stage'[j] = stage[j] /\ hasLine'[j] = hasLine[j]
  /\ \A j \in 1..njobs : Prepares(j)' <=> Prepares(j)
Grows == Known \subseteq Known' /\ (Recorded => Recorded')

\* A step that leaves the rows alone.
LEMMA RowsKept ==
  ASSUME RowType, Rows, RunsAreRemembered, Grows, UNCHANGED <<njobs, stage, session, hasLine, runIds>>
  PROVE  OldRows /\ Rows' /\ RunsAreRemembered'
<1>1. OldRows
  BY ConstantsAssumption DEF RowType, OldRows, Prepares
<1>2. Rows'
  BY DEF Rows, Grows, Prepares
<1>3. RunsAreRemembered'
  BY DEF RunsAreRemembered, Grows, Known
<1> QED BY <1>1, <1>2, <1>3

\* A new row is remembered, and recorded where it has to be.
LEMMA RowAdded ==
  ASSUME RowType, WorkerType, Links, Rows, RunsAreRemembered, Grows, Known \in SUBSET Runs,
         NEW s \in Stages, NEW line \in BOOLEAN, NEW ids \in SUBSET Runs,
         Enqueue(s, line, ids),
         line => ids \subseteq Known,
         line /\ s \notin {"implementation", "fix"} => Recorded,
         s \in {"review_round", "fix"} => line,
         ~line /\ s \in {"implementation", "fix"} => ids = {}
  PROVE  OldRows /\ Rows' /\ RunsAreRemembered'
<1>1. /\ RowType' /\ njobs \in Nat /\ njobs' = njobs + 1 /\ njobs + 1 \in Jobs
      /\ \A j \in 1..njobs' : j \in 1..njobs \/ j = njobs + 1
      /\ stage'[njobs + 1] = s /\ hasLine'[njobs + 1] = line /\ runIds'[njobs + 1] = ids
      /\ \A j \in 1..njobs : /\ stage'[j] = stage[j] /\ hasLine'[j] = hasLine[j]
                             /\ runIds'[j] = runIds[j]
      /\ session' = session
  BY Enqueued
<1>2. OldRows
  BY <1>1 DEF OldRows, Prepares
<1>3. session[njobs + 1] = 0
  BY <1>1 DEF Rows
<1>4. Rows'
  <2>1. \A j \in Jobs : j > njobs' => session'[j] = 0
    BY <1>1 DEF Rows, Jobs
  <2>2. ASSUME NEW j \in 1..njobs
        PROVE  /\ hasLine'[j] /\ ~Prepares(j)' => Recorded'
               /\ stage'[j] \in {"review_round", "fix"} => hasLine'[j]
               /\ ~hasLine'[j] /\ Prepares(j)' => runIds'[j] = {} /\ session'[j] = 0
    BY <1>1, <1>2 DEF Rows, Grows, OldRows
  <2>3. ASSUME NEW j, j = njobs + 1
        PROVE  /\ hasLine'[j] /\ ~Prepares(j)' => Recorded'
               /\ stage'[j] \in {"review_round", "fix"} => hasLine'[j]
               /\ ~hasLine'[j] /\ Prepares(j)' => runIds'[j] = {} /\ session'[j] = 0
    BY <1>1, <1>3, <2>3 DEF Grows, Prepares
  <2> QED BY <1>1, <2>1, <2>2, <2>3 DEF Rows
<1>5. RunsAreRemembered'
  <2>1. \A j \in 1..njobs : hasLine'[j] => (runIds'[j] \cup {session'[j]}) \ {0} \subseteq Known'
    BY <1>1 DEF RunsAreRemembered, Grows, Known
  <2>2. hasLine'[njobs + 1] => (runIds'[njobs + 1] \cup {session'[njobs + 1]}) \ {0} \subseteq Known'
    BY <1>1, <1>3 DEF Grows
  <2> QED BY <1>1, <2>1, <2>2 DEF RunsAreRemembered, Known
<1> QED BY <1>2, <1>4, <1>5

\* What agents have done stays done with a line.
LEMMA EffectsKept ==
  ASSUME AgentType, Links, Effects, OldRows, Grows, UNCHANGED <<jobOf, posted>>
  PROVE  Effects'
<1>1. ASSUME NEW s \in 1..Len(jobOf), Prepares(jobOf[s])' PROVE hasLine'[jobOf[s]] /\ Recorded'
  <2>1. jobOf[s] \in 1..njobs
    BY DEF Links
  <2> QED BY <1>1, <2>1 DEF Effects, OldRows, Grows
<1>2. ASSUME NEW j \in posted, Prepares(j)' PROVE hasLine'[j] /\ Recorded'
  <2>1. j \in 1..njobs
    BY DEF Links
  <2> QED BY <1>2, <2>1 DEF Effects, OldRows, Grows
<1> QED BY <1>1, <1>2 DEF Effects, Prepares

\* The worker's facts outlive a step of somebody else.
LEMMA AtWorkKept ==
  ASSUME Links, AtWork, OldRows, Grows, Known' = Known, UNCHANGED <<pc, cur, held, run>>
  PROVE  AtWork'
<1>1. cur # 0 => cur \in 1..njobs
  BY DEF Links
<1>2. cur # 0 => (Prepares(cur)' <=> Prepares(cur)) /\ hasLine'[cur] = hasLine[cur]
  BY <1>1 DEF OldRows
<1> QED BY <1>2 DEF AtWork, Grows, Prepares

\* So do those of the handler.
LEMMA HandlingKept ==
  ASSUME Links, HandlerType, Handling, OldRows, Grows, UNCHANGED <<hstep, hjob, source>>, posted \subseteq posted'
  PROVE  Handling'
<1>1. hjob # 0 => hjob \in 1..njobs
  BY DEF Links
<1> QED BY <1>1 DEF Handling, OldRows, Grows, HandlerType

\* A handler of a verdict goes on, or ends.
LEMMA HandlerMoves ==
  ASSUME Links, HandlerType, Handling, OldRows, Grows,
         \/ Idle
         \/ /\ hstep \notin {"idle", "opened"} /\ UNCHANGED <<hjob, source>>
            /\ hstep' \notin {"idle", "opened"}
  PROVE  Handling'
<1>1. CASE Idle
  BY <1>1 DEF Idle, Handling
<1>2. CASE hstep \notin {"idle", "opened"} /\ UNCHANGED <<hjob, source>> /\ hstep' \notin {"idle", "opened"}
  <2>1. hjob # 0 /\ hjob \in 1..njobs
    BY <1>2 DEF HandlerType, Links
  <2> QED BY <1>2, <2>1 DEF Handling, OldRows, Grows
<1> QED BY <1>1, <1>2

\* Every step keeps what the record knows in step with the rows.
LEMMA MemoryStep == TypeOK /\ Links /\ Memory /\ [Next]_vars => Memory'
<1> SUFFICES ASSUME RowType, LineType, WorkerType, AgentType, HandlerType, Links,
                    Rows, RunsAreRemembered, Effects, AtWork, Handling, [Next]_vars
             PROVE  Memory'
  BY DEF TypeOK, Memory
<1>0. /\ njobs \in Nat /\ 1..njobs \subseteq Jobs /\ Known \in SUBSET Runs
      /\ cur # 0 => cur \in 1..njobs /\ cur \in Jobs
      /\ hjob # 0 => hjob \in 1..njobs /\ hjob \in Jobs
      /\ mail \subseteq 1..njobs
  BY ConstantsAssumption DEF RowType, LineType, Records, Known, Links, Jobs
<1>00. /\ cur # 0 => hasLine[cur] \in BOOLEAN /\ runIds[cur] \in SUBSET Runs
       /\ hjob # 0 => hasLine[hjob] \in BOOLEAN /\ runIds[hjob] \in SUBSET Runs
       /\ held.line \in BOOLEAN /\ held.ids \in SUBSET Runs
  BY <1>0 DEF RowType, WorkerType
\* A step of the worker that writes no row, and no less than the record knew.
<1>A. ASSUME UNCHANGED <<njobs, stage, session, hasLine, runIds, hstep, hjob, source, posted, jobOf>>,
             Grows, AtWork'
      PROVE  Memory'
  <2>1. OldRows /\ Rows' /\ RunsAreRemembered'
    BY <1>A, RowsKept
  <2> QED BY <1>A, <2>1, EffectsKept, HandlingKept DEF Memory
\* A step of a handler that writes nothing the record should know.
<1>B. ASSUME UNCHANGED <<njobs, stage, session, hasLine, runIds, pc, cur, held, run, posted, jobOf>>,
             Grows, Known' = Known,
             \/ Idle
             \/ UNCHANGED <<hstep, hjob, source>>
             \/ /\ hstep \notin {"idle", "opened"} /\ UNCHANGED <<hjob, source>>
                /\ hstep' \notin {"idle", "opened"}
      PROVE  Memory'
  <2>1. OldRows /\ Rows' /\ RunsAreRemembered'
    BY <1>B, RowsKept
  <2>2. Handling'
    BY <1>B, <2>1, HandlingKept, HandlerMoves
  <2> QED BY <1>B, <2>1, <2>2, EffectsKept, AtWorkKept DEF Memory
<1>C. record' = record => Grows /\ Known' = Known
  BY DEF Grows, Known, Recorded
<1> USE <1>0, <1>00 DEF rowVars, recordVars, gitVars, workVars, agentVars, stepVars, handlerVars,
    githubVars, historyVars
<1>1. CASE Take
  <2>1. /\ queue # <<>> /\ cur' = Head(queue) /\ pc' = "start" /\ record' = record
        /\ held' = [line |-> hasLine[Head(queue)], ids |-> runIds[Head(queue)]]
        /\ UNCHANGED <<njobs, stage, session, hasLine, runIds, hstep, hjob, source, posted, jobOf>>
    BY <1>1 DEF Take, At
  <2>2. Head(queue) \in 1..njobs
    <3>1. \A q \in Seq(Jobs) : q # <<>> => Len(q) \in Nat \ {0}
      BY EmptySeq
    <3>2. Head(queue) = queue[1] /\ 1 \in 1..Len(queue)
      BY <2>1, <3>1, HeadTailProperties DEF WorkerType
    <3> QED BY <3>2 DEF Links
  <2>3. runIds[Head(queue)] \subseteq Runs /\ 0 \notin Runs
    BY <2>2, ConstantsAssumption DEF RowType, Runs
  <2>4. AtWork'
    BY <2>1, <2>2, <2>3, <1>C DEF AtWork, Rows, RunsAreRemembered, Known, Prepares
  <2> QED BY <1>A, <1>C, <2>1, <2>4
<1>2. CASE Skip
  <2>1. /\ cur # 0 /\ ~Prepares(cur) /\ pc' = "launch" /\ UNCHANGED <<record, cur, held, run>>
        /\ UNCHANGED <<njobs, stage, session, hasLine, runIds, hstep, hjob, source, posted, jobOf>>
    BY <1>2 DEF Skip, At, WorkerType
  <2>2. AtWork'
    BY <2>1, <1>C DEF AtWork, Rows, Known, Prepares, Recorded
  <2> QED BY <1>A, <1>C, <2>1, <2>2
<1>3. CASE Prepare
  <2>1. /\ cur # 0 /\ Prepares(cur) /\ pc' \in {"read", "failed"} /\ UNCHANGED <<record, cur, held, run>>
        /\ UNCHANGED <<njobs, stage, session, hasLine, runIds, hstep, hjob, source, posted, jobOf>>
    BY <1>3 DEF Prepare, At, WorkerType
  <2>2. AtWork'
    BY <2>1, <1>C DEF AtWork, Known, Prepares
  <2> QED BY <1>A, <1>C, <2>1, <2>2
<1>4. CASE ReadLine
  <2>1. /\ cur # 0 /\ cur \in Jobs /\ pc = "read" /\ pc' = "write"
        /\ held' = [line |-> TRUE, ids |-> held.ids \cup Known]
        /\ hasLine' = [hasLine EXCEPT ![cur] = TRUE]
        /\ runIds' = [runIds EXCEPT ![cur] = held.ids \cup Known]
        /\ UNCHANGED <<njobs, stage, session, record, cur, run, hstep, hjob, source, posted, jobOf>>
    BY <1>4 DEF ReadLine, At, WorkerType, Known
  <2>2. Prepares(cur) /\ held.ids \cup Known = Known
    BY <2>1 DEF AtWork
  <2>3. /\ hasLine'[cur] = TRUE /\ runIds'[cur] = Known
        /\ \A j \in 1..njobs : j # cur => hasLine'[j] = hasLine[j] /\ runIds'[j] = runIds[j]
    BY <2>1, <2>2 DEF RowType
  <2>4. session[cur] \in Known \cup {0}
    BY <2>1, <2>2 DEF Rows, RunsAreRemembered, Known
  <2>5. Rows'
    BY <2>1, <2>2, <2>3, <1>C DEF Rows, Grows, Prepares
  <2>6. RunsAreRemembered'
    <3>1. \A j \in 1..njobs : hasLine'[j] => (runIds'[j] \cup {session'[j]}) \ {0} \subseteq Known
      BY <2>1, <2>3, <2>4 DEF RunsAreRemembered, Known
    <3> QED BY <2>1, <3>1 DEF RunsAreRemembered, Known
  <2>7. Effects'
    <3>1. \A s \in 1..Len(jobOf) : jobOf[s] \in 1..njobs
      BY DEF Links
    <3>2. posted \subseteq 1..njobs
      BY DEF Links
    <3>3. \A j \in 1..njobs : hasLine[j] => hasLine'[j]
      BY <2>3
    <3> QED BY <2>1, <3>1, <3>2, <3>3 DEF Effects, Prepares, Recorded
  <2>8. AtWork'
    BY <2>1, <2>2, <2>3 DEF AtWork, Known, Prepares
  <2>9. Handling'
    <3>1. CASE hjob # 0 /\ hjob # cur
      BY <2>1, <2>3, <3>1 DEF Handling, Known
    <3>2. CASE hjob # 0 /\ hjob = cur
      BY <2>1, <2>2, <3>2 DEF Handling, Prepares
    <3>3. CASE hjob = 0
      BY <2>1, <3>3 DEF Handling, HandlerType
    <3> QED BY <3>1, <3>2, <3>3
  <2> QED BY <2>5, <2>6, <2>7, <2>8, <2>9 DEF Memory
<1>5. CASE WriteLine
  <2>1. /\ cur # 0 /\ pc = "write" /\ pc' = "launch" /\ UNCHANGED <<cur, held, run>>
        /\ record' = [read EXCEPT !.status = "worktree_ready", !.ids = held.ids]
        /\ UNCHANGED <<njobs, stage, session, hasLine, runIds, hstep, hjob, source, posted, jobOf>>
    BY <1>5 DEF WriteLine, UpsertRecord, At, WorkerType
  <2>2. Known' = held.ids /\ Recorded'
    BY <2>1 DEF Known, Recorded, LineType, Records
  <2>3. Known' = Known
    BY <2>1, <2>2 DEF AtWork
  <2>4. AtWork'
    BY <2>1, <2>2, <2>3 DEF AtWork, Prepares
  <2> QED BY <1>A, <2>1, <2>2, <2>3, <2>4 DEF Grows
<1>6. CASE Launch
  <2>1. /\ cur # 0 /\ pc = "launch" /\ UNCHANGED <<cur, held, record>>
        /\ \/ pc' = "record" /\ jobOf' = Append(jobOf, cur)
           \/ pc' = "failed" /\ jobOf' = jobOf
        /\ UNCHANGED <<njobs, stage, session, hasLine, runIds, hstep, hjob, source, posted>>
    BY <1>6 DEF Launch, At, WorkerType
  <2>2. OldRows /\ Rows' /\ RunsAreRemembered' /\ Grows /\ Known' = Known
    BY <2>1, <1>C, RowsKept
  <2>3. AtWork'
    BY <2>1, <2>2 DEF AtWork, Grows, Prepares
  <2>4. Handling'
    BY <2>1, <2>2, HandlingKept
  <2>5. Effects'
    <3>1. CASE jobOf' = jobOf
      BY <2>1, <2>2, <3>1, EffectsKept
    <3>2. CASE jobOf' = Append(jobOf, cur)
      <4>1. /\ Len(jobOf) \in Nat /\ Len(jobOf') = Len(jobOf) + 1 /\ jobOf'[Len(jobOf) + 1] = cur
            /\ \A s \in 1..Len(jobOf) : jobOf'[s] = jobOf[s]
        BY <2>1, <3>2, AppendProperties, LenProperties DEF AgentType
      <4>2. \A s \in 1..Len(jobOf') : s \in 1..Len(jobOf) \/ s = Len(jobOf) + 1
        BY <4>1
      <4>3. Prepares(cur) => hasLine[cur] /\ Recorded
        BY <2>1 DEF AtWork
      <4>4. ASSUME NEW s \in 1..Len(jobOf'), Prepares(jobOf'[s])
            PROVE  hasLine[jobOf'[s]] /\ Recorded
        BY <4>1, <4>2, <4>3, <4>4 DEF Effects
      <4> QED BY <2>1, <4>4 DEF Effects, Prepares, Recorded
    <3> QED BY <2>1, <3>1, <3>2
  <2> QED BY <2>2, <2>3, <2>4, <2>5 DEF Memory
<1>7. CASE RecordRun
  <2>1. /\ cur # 0 /\ pc = "record" /\ pc' = "link" /\ UNCHANGED <<cur, held, run>>
        /\ UNCHANGED <<njobs, stage, session, hasLine, runIds, hstep, hjob, source, posted, jobOf>>
    BY <1>7 DEF RecordRun, At, WorkerType
  <2>2. \/ held.line /\ Recorded /\ record' = [record EXCEPT !.status = "agent_running", !.retryable = TRUE,
                                                            !.ids = record.ids \cup {run}]
        \/ held.line /\ ~Recorded /\ record' = record
        \/ ~held.line /\ record' = record
    BY <1>7 DEF RecordRun, UpdateLine, UpdateRecord, Recorded
  <2>3. \/ held.line /\ Known' = Known \cup {run} /\ Recorded'
        \/ ~held.line /\ record' = record
    BY <2>1, <2>2 DEF AtWork, Known, Recorded, LineType, Records
  <2>4. Grows
    BY <2>3, <1>C DEF Grows
  <2>5. AtWork'
    BY <2>1, <2>3, <2>4 DEF AtWork, Grows, Prepares
  <2> QED BY <1>A, <2>1, <2>4, <2>5
<1>8. CASE LinkRow
  <2>1. /\ cur # 0 /\ cur \in Jobs /\ pc = "link" /\ pc' = "wait" /\ UNCHANGED <<cur, run, record>>
        /\ held' = [line |-> held.line, ids |-> held.ids \cup {run}]
        /\ session' = [session EXCEPT ![cur] = run]
        /\ hasLine' = [hasLine EXCEPT ![cur] = held.line]
        /\ runIds' = [runIds EXCEPT ![cur] = held.ids \cup {run}]
        /\ UNCHANGED <<njobs, stage, hstep, hjob, source, posted, jobOf>>
    BY <1>8 DEF LinkRow, At, WorkerType
  <2>2. /\ session'[cur] = run /\ hasLine'[cur] = hasLine[cur] /\ runIds'[cur] = held.ids \cup {run}
        /\ \A j \in Jobs : j # cur => /\ session'[j] = session[j] /\ hasLine'[j] = hasLine[j]
                                      /\ runIds'[j] = runIds[j]
    BY <2>1 DEF RowType, AtWork
  <2>3. OldRows /\ Grows /\ Known' = Known
    BY <2>1, <2>2, <1>C DEF OldRows, Prepares
  <2>4. Rows'
    <3>1. Prepares(cur) => hasLine[cur]
      BY <2>1 DEF AtWork
    <3>2. \A j \in Jobs : j > njobs => session'[j] = 0
      BY <2>1, <2>2 DEF Rows
    <3>3. ASSUME NEW j \in 1..njobs
          PROVE  /\ hasLine'[j] /\ ~Prepares(j)' => Recorded'
                 /\ stage'[j] \in {"review_round", "fix"} => hasLine'[j]
                 /\ ~hasLine'[j] /\ Prepares(j)' => runIds'[j] = {} /\ session'[j] = 0
      <4>1. CASE j = cur
        BY <2>1, <2>2, <2>3, <3>1, <4>1 DEF Rows, OldRows, Grows
      <4>2. CASE j # cur
        BY <2>1, <2>2, <2>3, <4>2 DEF Rows, OldRows, Grows
      <4> QED BY <4>1, <4>2
    <3> QED BY <2>1, <3>2, <3>3 DEF Rows
  <2>5. RunsAreRemembered'
    <3>1. hasLine[cur] => held.ids \cup {run} \subseteq Known
      BY <2>1 DEF AtWork
    <3>2. \A j \in 1..njobs : hasLine'[j] => (runIds'[j] \cup {session'[j]}) \ {0} \subseteq Known
      BY <2>2, <3>1 DEF RunsAreRemembered, Known
    <3> QED BY <2>1, <3>2 DEF RunsAreRemembered, Known
  <2>6. AtWork'
    BY <2>1, <2>2, <2>3 DEF AtWork, OldRows
  <2> QED BY <2>1, <2>3, <2>4, <2>5, <2>6, EffectsKept, HandlingKept DEF Memory
<1>9. CASE WaitEnds
  <2>1. /\ cur # 0 /\ pc' \in {"completed", "start", "failed"} /\ UNCHANGED <<record, cur, held>>
        /\ UNCHANGED <<njobs, stage, session, hasLine, runIds, hstep, hjob, source, posted, jobOf>>
    BY <1>9 DEF WaitEnds, At, WorkerType
  <2>2. AtWork'
    BY <2>1, <1>C DEF AtWork, Prepares
  <2> QED BY <1>A, <1>C, <2>1, <2>2
<1>10. CASE EndLine
  <2>1. /\ cur # 0 /\ pc' \in {"completedRow", "failedRow"} /\ UNCHANGED <<cur, held>>
        /\ UNCHANGED <<njobs, stage, session, hasLine, runIds, hstep, hjob, source, posted, jobOf>>
    BY <1>10 DEF EndLine, At, WorkerType
  <2>2. \/ record' = record \/ record' = [record EXCEPT !.status = "agent_completed"]
        \/ record' = [record EXCEPT !.status = "failed", !.retryable = TRUE]
    BY <1>10, Updated DEF EndLine
  <2>3. Grows /\ Known' = Known
    BY <2>2 DEF Grows, Known, Recorded, LineType, Records
  <2>4. AtWork'
    BY <2>1, <2>3 DEF AtWork, Prepares
  <2> QED BY <1>A, <2>1, <2>3, <2>4
<1>11. CASE EndRow
  <2>1. /\ cur # 0 /\ cur \in Jobs /\ cur' = 0 /\ record' = record
        /\ hasLine' = [hasLine EXCEPT ![cur] = held.line]
        /\ runIds' = [runIds EXCEPT ![cur] = held.ids]
        /\ UNCHANGED <<njobs, stage, session, hstep, hjob, source, posted, jobOf>>
    BY <1>11 DEF EndRow, At, WorkerType
  <2>2. /\ hasLine'[cur] = hasLine[cur] /\ runIds'[cur] = held.ids
        /\ \A j \in Jobs : j # cur => hasLine'[j] = hasLine[j] /\ runIds'[j] = runIds[j]
    BY <2>1 DEF RowType, AtWork
  <2>3. OldRows /\ Grows /\ Known' = Known
    BY <2>1, <2>2, <1>C DEF OldRows, Prepares
  <2>4. Rows'
    <3>1. ASSUME NEW j \in 1..njobs
          PROVE  /\ hasLine'[j] /\ ~Prepares(j)' => Recorded'
                 /\ stage'[j] \in {"review_round", "fix"} => hasLine'[j]
                 /\ ~hasLine'[j] /\ Prepares(j)' => runIds'[j] = {} /\ session'[j] = 0
      <4>1. CASE j = cur
        BY <2>1, <2>2, <2>3, <4>1 DEF Rows, OldRows, Grows, AtWork
      <4>2. CASE j # cur
        BY <2>1, <2>2, <2>3, <4>2 DEF Rows, OldRows, Grows
      <4> QED BY <4>1, <4>2
    <3> QED BY <2>1, <3>1 DEF Rows
  <2>5. RunsAreRemembered'
    <3>1. hasLine[cur] => held.ids \subseteq Known
      BY <2>1 DEF AtWork
    <3>2. \A j \in 1..njobs : hasLine'[j] => (runIds'[j] \cup {session'[j]}) \ {0} \subseteq Known
      BY <2>1, <2>2, <3>1 DEF RunsAreRemembered, Known
    <3> QED BY <2>1, <3>2 DEF RunsAreRemembered, Known
  <2>6. AtWork'
    BY <2>1 DEF AtWork
  <2> QED BY <2>1, <2>3, <2>4, <2>5, <2>6, EffectsKept, HandlingKept DEF Memory
<1>12. CASE Post
  <2>1. PICK s \in alive : posted' = posted \cup {jobOf[s]}
    BY <1>12 DEF Post
  <2>2. /\ UNCHANGED <<njobs, stage, session, hasLine, runIds, hstep, hjob, source, jobOf, record>>
        /\ UNCHANGED <<pc, cur, held, run>>
    BY <1>12 DEF Post
  <2>3. OldRows /\ Rows' /\ RunsAreRemembered' /\ Grows /\ Known' = Known
    BY <2>2, <1>C, RowsKept
  <2>4. Effects'
    <3>1. s \in 1..Len(jobOf)
      BY DEF AgentType
    <3>2. \A j \in posted' : Prepares(j) => hasLine[j] /\ Recorded
      BY <2>1, <3>1 DEF Effects
    <3> QED BY <2>2, <3>2 DEF Effects, Prepares, Recorded
  <2> QED BY <2>1, <2>2, <2>3, <2>4, AtWorkKept, HandlingKept DEF Memory
<1>13. CASE Redeliver
  BY <1>B, <1>C, <1>13 DEF Redeliver
\* A handler that queues a job.
<1>D. ASSUME NEW s \in Stages, NEW line \in BOOLEAN, NEW ids \in SUBSET Runs,
             Enqueue(s, line, ids),
             line => ids \subseteq Known,
             line /\ s \notin {"implementation", "fix"} => Recorded,
             s \in {"review_round", "fix"} => line,
             ~line /\ s \in {"implementation", "fix"} => ids = {},
             UNCHANGED <<record, pc, cur, held, run, posted, jobOf>>,
             \/ Idle
             \/ UNCHANGED <<hstep, hjob, source>>
             \/ /\ hstep \notin {"idle", "opened"} /\ UNCHANGED <<hjob, source>>
                /\ hstep' \notin {"idle", "opened"}
      PROVE  Memory'
  <2>1. OldRows /\ Rows' /\ RunsAreRemembered'
    BY <1>C, <1>D, RowAdded
  <2>2. Handling'
    BY <1>C, <1>D, <2>1, HandlingKept, HandlerMoves
  <2> QED BY <1>C, <1>D, <2>1, <2>2, EffectsKept, AtWorkKept DEF Memory
<1>14. CASE Approve
  <2>1. /\ Enqueue("implementation", FALSE, {})
        /\ UNCHANGED <<record, pc, cur, held, run, posted, jobOf, hstep, hjob, source>>
    BY <1>14 DEF Approve, Handles
  <2>2. "implementation" \in Stages /\ FALSE \in BOOLEAN /\ {} \in SUBSET Runs /\ {} \subseteq Known
        /\ "implementation" \notin {"review_round", "fix"}
    BY DEF Stages
  <2> QED BY <1>D, <2>1, <2>2
<1>15. CASE CompleteImplementation
  <2>1. PICK j \in mail : stage[j] = "implementation" /\ hjob' = j
    BY <1>15 DEF CompleteImplementation
  <2>2. /\ hstep = "idle" /\ hstep' = "opened" /\ source' = source
        /\ UNCHANGED <<njobs, stage, session, hasLine, runIds, pc, cur, held, run, posted, jobOf, record>>
    BY <1>15 DEF CompleteImplementation, Handles
  <2>3. OldRows /\ Rows' /\ RunsAreRemembered' /\ Grows /\ Known' = Known
    BY <2>2, <1>C, RowsKept
  <2>4. Handling'
    <3>1. source' = {} /\ j \in posted
      BY <2>2 DEF Handling, Links
    <3> QED BY <2>1, <2>2, <3>1 DEF Handling
  <2> QED BY <2>2, <2>3, <2>4, EffectsKept, AtWorkKept DEF Memory
<1>16. CASE QueueReview
  <2>1. /\ hstep = "opened" /\ hjob # 0 /\ Idle /\ Enqueue("review_round", hasLine[hjob], LineageIds(hjob))
        /\ UNCHANGED <<record, pc, cur, held, run, posted, jobOf>>
    BY <1>16 DEF QueueReview, Handles, HandlerType
  <2>2. Prepares(hjob) /\ hasLine[hjob] /\ Recorded
    BY <2>1 DEF Handling, Effects, Prepares
  <2>3. LineageIds(hjob) = runIds[hjob] /\ runIds[hjob] \subseteq Known
    <3>1. 0 \notin Runs
      BY ConstantsAssumption DEF Runs
    <3> QED BY <2>1, <2>2, <3>1 DEF LineageIds, RunsAreRemembered, Known
  <2> QED BY <1>D, <2>1, <2>2, <2>3 DEF Stages
<1>17. CASE HandleComment
  <2>1. PICK j \in mail :
          /\ stage[j] \in CommentStages
          /\ \/ Enqueue(FollowUp(j), hasLine[j], LineageIds(j))
             \/ UNCHANGED <<rowVars, queue>>
    BY <1>17 DEF HandleComment
  <2>2. UNCHANGED <<record, pc, cur, held, run, posted, jobOf, hstep, hjob, source>>
    BY <1>17 DEF HandleComment, Handles
  <2>3. CASE UNCHANGED <<rowVars, queue>>
    BY <1>B, <1>C, <2>2, <2>3
  <2>4. CASE Enqueue(FollowUp(j), hasLine[j], LineageIds(j))
    <3>1. j \in 1..njobs /\ j \in posted /\ hasLine[j] \in BOOLEAN /\ LineageIds(j) \in SUBSET Runs
      BY DEF Links, RowType, LineageIds
    <3>2. hasLine[j] => LineageIds(j) \subseteq Known
      <4>1. 0 \notin Runs
        BY ConstantsAssumption DEF Runs
      <4> QED BY <3>1, <4>1 DEF LineageIds, RunsAreRemembered, Known, RowType
    <3>3. hasLine[j] => Recorded
      BY <3>1 DEF Rows, Effects
    <3>4. /\ FollowUp(j) \in {"fix", "final_verdict"}
          /\ FollowUp(j) = "fix" => hasLine[j]
      BY <3>1 DEF FollowUp, Rows
    <3>5. FollowUp(j) \in Stages
      BY <3>4 DEF Stages
    <3> QED BY <1>D, <2>2, <2>4, <3>1, <3>2, <3>3, <3>4, <3>5
  <2> QED BY <2>1, <2>3, <2>4
<1>18. CASE HandleConflictRequest
  <2>1. /\ Enqueue("merge_conflict_resolution", FALSE, {})
        /\ UNCHANGED <<record, pc, cur, held, run, posted, jobOf, hstep, hjob, source>>
    BY <1>18 DEF HandleConflictRequest, Handles
  <2>2. "merge_conflict_resolution" \in Stages /\ FALSE \in BOOLEAN /\ {} \in SUBSET Runs /\ {} \subseteq Known
        /\ "merge_conflict_resolution" \notin {"review_round", "fix"}
    BY DEF Stages
  <2> QED BY <1>D, <2>1, <2>2
<1>19. CASE ReceiveVerdict
  <2>1. PICK j \in mail :
          /\ stage[j] = "final_verdict"
          /\ \/ hstep' = "merge" /\ hjob' = j /\ source' = runIds[j]
             \/ UNCHANGED stepVars
    BY <1>19 DEF ReceiveVerdict
  <2>2. UNCHANGED <<njobs, stage, session, hasLine, runIds, pc, cur, held, run, posted, jobOf, record>>
    BY <1>19 DEF ReceiveVerdict, Handles
  <2>3. OldRows /\ Rows' /\ RunsAreRemembered' /\ Grows /\ Known' = Known
    BY <2>2, <1>C, RowsKept
  <2>4. Handling'
    <3>1. CASE UNCHANGED stepVars
      BY <2>2, <2>3, <3>1, HandlingKept
    <3>2. CASE hstep' = "merge" /\ hjob' = j /\ source' = runIds[j]
      <4>1. j \in 1..njobs
        OBVIOUS
      <4>2. runIds[j] \subseteq Runs
        BY <4>1 DEF RowType
      <4>3. 0 \notin Runs
        BY ConstantsAssumption DEF Runs
      <4>4. hasLine[j] => runIds[j] \subseteq Known
        BY <4>1, <4>2, <4>3 DEF RunsAreRemembered, Known
      <4> QED BY <2>1, <2>2, <2>3, <3>2, <4>4 DEF Handling
    <3> QED BY <2>1, <3>1, <3>2
  <2> QED BY <2>2, <2>3, <2>4, EffectsKept, AtWorkKept DEF Memory
<1>20. CASE Merge
  BY <1>B, <1>C, <1>20 DEF Merge, Handles, Onward
<1>21. CASE RecordConflict
  <2>1. hjob # 0
    BY <1>21 DEF RecordConflict, Handles, HandlerType
  <2>2. record' = record \/ record' = [record EXCEPT !.retryable = TRUE]
    BY <1>21, <2>1, Updated DEF RecordConflict
  <2>3. Grows /\ Known' = Known
    BY <2>2 DEF Grows, Known, Recorded, LineType, Records
  <2> QED BY <1>B, <1>21, <2>3 DEF RecordConflict, Handles, Onward
<1>22. CASE QueueResolution
  <2>1. /\ hstep = "resolve" /\ hjob # 0 /\ hstep' = "resolving" /\ UNCHANGED <<hjob, source>>
        /\ Enqueue("merge_conflict_resolution", hasLine[hjob], source)
        /\ UNCHANGED <<record, pc, cur, held, run, posted, jobOf>>
    BY <1>22 DEF QueueResolution, Handles, Onward, HandlerType
  <2>2. hasLine[hjob] => source \subseteq Known /\ Recorded
    BY <2>1 DEF Handling, Rows, Prepares
  <2>3. source \in SUBSET Runs
    BY DEF HandlerType
  <2> QED BY <1>D, <2>1, <2>2, <2>3 DEF Stages
<1>23. CASE RecordProcessed
  BY <1>B, <1>C, <1>23 DEF RecordProcessed, Handles, Onward
<1>24. CASE RecordMerged
  <2>1. hjob # 0
    BY <1>24 DEF RecordMerged, Handles, HandlerType
  <2>2. record' = record \/ (Recorded /\ record' = [record EXCEPT !.status = "merged", !.retryable = FALSE])
    BY <1>24, <2>1, Updated DEF RecordMerged, Recorded
  <2>3. Grows /\ Known' = Known
    BY <2>2 DEF Grows, Known, Recorded, LineType, Records
  <2> QED BY <1>B, <1>24, <2>3 DEF RecordMerged, Handles, Onward
<1>25. CASE RemoveWorktree
  BY <1>B, <1>C, <1>25 DEF RemoveWorktree, Handles, Onward, Idle
<1>26. CASE DeleteBranch
  BY <1>B, <1>C, <1>26 DEF DeleteBranch, Handles, Onward
<1>27. CASE RecordCleanup
  <2>1. /\ hstep \notin {"idle", "opened"} /\ hjob # 0 /\ hjob \in Jobs /\ Idle
        /\ runIds' = [runIds EXCEPT ![hjob] = source]
        /\ UNCHANGED <<njobs, stage, session, hasLine, pc, cur, held, run, posted, jobOf>>
    BY <1>27 DEF RecordCleanup, Handles, HandlerType
  <2>2. record' = record \/ record' = [record EXCEPT !.cleanup = hstep]
    BY <1>27, <2>1, Updated DEF RecordCleanup
  <2>3. Grows /\ Known' = Known
    BY <2>2 DEF Grows, Known, Recorded, LineType, Records
  <2>4. OldRows
    BY <2>1 DEF OldRows, Prepares
  <2>5. /\ runIds'[hjob] = source /\ ~Prepares(hjob) /\ (hasLine[hjob] => source \subseteq Known)
        /\ \A j \in Jobs : j # hjob => runIds'[j] = runIds[j]
    BY <2>1 DEF RowType, Handling, Prepares
  <2>6. Rows'
    <3>1. ASSUME NEW j \in 1..njobs
          PROVE  /\ hasLine'[j] /\ ~Prepares(j)' => Recorded'
                 /\ stage'[j] \in {"review_round", "fix"} => hasLine'[j]
                 /\ ~hasLine'[j] /\ Prepares(j)' => runIds'[j] = {} /\ session'[j] = 0
      BY <2>1, <2>3, <2>4, <2>5 DEF Rows, OldRows, Grows
    <3> QED BY <2>1, <3>1 DEF Rows
  <2>7. RunsAreRemembered'
    <3>1. \A j \in 1..njobs : hasLine[j] => (runIds'[j] \cup {session[j]}) \ {0} \subseteq Known
      BY <2>5 DEF RunsAreRemembered, Known
    <3> QED BY <2>1, <2>3, <3>1 DEF RunsAreRemembered, Known
  <2>8. Handling'
    BY <2>1, <2>3, <2>4, HandlerMoves
  <2> QED BY <2>1, <2>3, <2>4, <2>6, <2>7, <2>8, EffectsKept, AtWorkKept DEF Memory
<1>28. CASE Crash
  <2>1. /\ cur' = 0 /\ Idle /\ record' = record
        /\ UNCHANGED <<njobs, stage, session, hasLine, runIds, posted, jobOf>>
    BY <1>28 DEF Crash
  <2>2. OldRows /\ Rows' /\ RunsAreRemembered' /\ Grows
    BY <2>1, <1>C, RowsKept
  <2>3. AtWork'
    BY <2>1 DEF AtWork
  <2> QED BY <2>1, <2>2, <2>3, EffectsKept, HandlerMoves DEF Memory
<1>29. CASE Restart
  <2>1. /\ cur = 0 /\ UNCHANGED <<record, cur>>
        /\ UNCHANGED <<njobs, stage, session, hasLine, runIds, hstep, hjob, source, posted, jobOf>>
    BY <1>29 DEF Restart, WorkerType
  <2>2. AtWork'
    BY <2>1 DEF AtWork
  <2> QED BY <1>A, <1>C, <2>1, <2>2
<1>30. CASE UNCHANGED vars
  BY <1>B, <1>C, <1>30 DEF vars
<1> QED BY <1>1, <1>2, <1>3, <1>4, <1>5, <1>6, <1>7, <1>8, <1>9, <1>10, <1>11, <1>12, <1>13, <1>14,
           <1>15, <1>16, <1>17, <1>18, <1>19, <1>20, <1>21, <1>22, <1>23, <1>24, <1>25, <1>26, <1>27,
           <1>28, <1>29, <1>30 DEF Next

---------------------------------------------------------------------------
Inv == TypeOK /\ Links /\ Memory

\* It holds at the start.
LEMMA InitInv == Init => Inv
<1> SUFFICES ASSUME Init PROVE Inv
  OBVIOUS
<1>1. TypeOK /\ Links
  BY InitType
<1>2. Memory
  <2>1. Rows /\ RunsAreRemembered
    BY DEF Init, Rows, RunsAreRemembered
  <2>2. Effects
    <3>1. Len(jobOf) = 0 /\ posted = {}
      BY EmptySeq DEF Init
    <3> QED BY <3>1 DEF Effects
  <2>3. AtWork /\ Handling
    BY DEF Init, AtWork, Handling
  <2> QED BY <2>1, <2>2, <2>3 DEF Memory
<1> QED BY <1>1, <1>2 DEF Inv

\* And throughout.
LEMMA Invariance == Spec => []Inv
<1>1. Init => Inv
  BY InitInv
<1>2. Inv /\ [Next]_vars => Inv'
  BY TypeStep, MemoryStep DEF Inv
<1> QED BY <1>1, <1>2, PTL DEF Spec

\* Rows, record, worker, agents and handlers hold what the code writes, through crashes.
THEOREM TypeCorrect == Spec => []TypeOK
<1>1. Inv => TypeOK
  BY DEF Inv
<1> QED BY <1>1, Invariance, PTL

\* The record of the line knows every agent run that a row of the line names.
THEOREM Remembered == Spec => []RunsAreRemembered
<1>1. Inv => RunsAreRemembered
  BY DEF Inv, Memory
<1> QED BY <1>1, Invariance, PTL

---------------------------------------------------------------------------
(***************************************************************************)
(* The order of the line: jobs of the one worker run one after the other,  *)
(* in the order of their rows, across crashes too.                         *)
(***************************************************************************)
Pending == {"queued", "launched", "retrying"}
Ended == {"completed", "failed"}

InQueue(j) == \E i \in 1..Len(queue) : queue[i] = j
Settled(j) == status[j] \in Ended /\ j # cur /\ ~InQueue(j)
Begun(k) == k = cur \/ \E s \in 1..Len(jobOf) : jobOf[s] = k

\* Once a job was begun, those before it are settled.
InTurn ==
  /\ \A i, k \in 1..Len(queue) : i < k => queue[i] < queue[k]
  /\ \A i \in 1..Len(queue) : cur < queue[i]
  /\ ~Up => queue = <<>>
  /\ \A j \in 1..njobs : status[j] \in Pending \cup Ended
  /\ Up => \A j \in 1..njobs : status[j] \in Pending => j = cur \/ InQueue(j)
  /\ \A j, k \in 1..njobs : j < k /\ Begun(k) => Settled(j)
  /\ \A j \in posted : \E s \in 1..Len(jobOf) : jobOf[s] = j

\* What a step may do to the rows that are there: a worker that prepared the worktree
\* gives an implementation its line.
RowsGo ==
  /\ njobs \in Nat /\ njobs' \in Nat /\ njobs <= njobs'
  /\ \A j \in 1..njobs : /\ stage'[j] = stage[j] /\ (Prepares(j)' <=> Prepares(j))
                         /\ hasLine'[j] = hasLine[j] \/ (Prepares(j) /\ hasLine'[j])

\* The worker works, and its queue stays: nothing changes but the status of its own job,
\* its agents, and a job that somebody completes.
LEMMA TurnKept ==
  ASSUME TypeOK, Links, InTurn, UNCHANGED <<njobs, queue, cur, posted>>, Up' <=> Up,
         \/ UNCHANGED jobOf
         \/ cur # 0 /\ jobOf' = Append(jobOf, cur),
         \A j \in 1..njobs : \/ status'[j] = status[j] \/ status'[j] \in Ended
                             \/ j = cur /\ status'[j] \in Pending
  PROVE  InTurn'
<1>1. \A j : InQueue(j)' <=> InQueue(j)
  BY DEF InQueue
<1>2. /\ \A s \in 1..Len(jobOf) : s \in 1..Len(jobOf') /\ jobOf'[s] = jobOf[s]
      /\ \A s \in 1..Len(jobOf') : jobOf'[s] = cur \/ (s \in 1..Len(jobOf) /\ jobOf'[s] = jobOf[s])
  <2>1. CASE UNCHANGED jobOf
    BY <2>1
  <2>2. CASE cur # 0 /\ jobOf' = Append(jobOf, cur)
    <3>1. jobOf \in Seq(Jobs) /\ cur \in Jobs /\ Len(jobOf) \in Nat
      BY <2>2, ConstantsAssumption, LenProperties DEF TypeOK, AgentType, WorkerType, Jobs
    <3>2. /\ Len(jobOf') = Len(jobOf) + 1 /\ jobOf'[Len(jobOf) + 1] = cur
          /\ \A s \in 1..Len(jobOf) : jobOf'[s] = jobOf[s]
      BY <2>2, <3>1, AppendProperties
    <3> QED BY <3>1, <3>2
  <2> QED BY <2>1, <2>2
<1>3. \A k : Begun(k)' <=> Begun(k)
  <2>1. ASSUME NEW k, Begun(k)' PROVE Begun(k)
    BY <1>2, <2>1 DEF Begun
  <2>2. ASSUME NEW k, Begun(k) PROVE Begun(k)'
    BY <1>2, <2>2 DEF Begun
  <2> QED BY <2>1, <2>2
<1>4. \A j \in 1..njobs : Settled(j) => Settled(j)'
  BY <1>1 DEF Settled, Ended, Pending
<1>5. \A j \in 1..njobs : status'[j] \in Pending \cup Ended /\ (status'[j] \in Pending => status[j] \in Pending \/ j = cur)
  BY DEF InTurn, Pending, Ended
<1>6. \A j \in posted : \E s \in 1..Len(jobOf') : jobOf'[s] = j
  BY <1>2 DEF InTurn
<1>7. \A j, k \in 1..njobs : j < k /\ Begun(k)' => Settled(j)'
  BY <1>3, <1>4 DEF InTurn
<1>8. Up' => \A j \in 1..njobs : status'[j] \in Pending => j = cur \/ InQueue(j)'
  BY <1>1, <1>5 DEF InTurn
<1> QED BY <1>5, <1>6, <1>7, <1>8 DEF InTurn, Up

\* A new row comes after all others, in the queue as in the table.
LEMMA TurnAdded ==
  ASSUME TypeOK, Links, InTurn, NEW s \in Stages, NEW line \in BOOLEAN, NEW ids \in SUBSET Runs,
         Enqueue(s, line, ids), Up, UNCHANGED <<pc, cur, jobOf, posted>>
  PROVE  InTurn'
<1>1. /\ njobs \in Nat /\ njobs' = njobs + 1 /\ njobs + 1 \in Jobs
      /\ \A j \in 1..njobs' : j \in 1..njobs \/ j = njobs + 1
      /\ \A i \in 1..Len(queue') : queue'[i] \in 1..njobs'
  BY Enqueued DEF TypeOK
<1>2. /\ Len(queue) \in Nat /\ Len(queue') = Len(queue) + 1 /\ queue'[Len(queue) + 1] = njobs + 1
      /\ \A i \in 1..Len(queue) : queue'[i] = queue[i]
  BY <1>1, AppendProperties, LenProperties DEF Enqueue, TypeOK, WorkerType
<1>3. \A i \in 1..Len(queue') : i \in 1..Len(queue) \/ i = Len(queue) + 1
  BY <1>2
<1>4. /\ \A i \in 1..Len(queue) : queue[i] \in 1..njobs
      /\ cur \in 0..njobs
      /\ \A t \in 1..Len(jobOf) : jobOf[t] \in 1..njobs
  BY DEF Links
<1>5. \A i, k \in 1..Len(queue') : i < k => queue'[i] < queue'[k]
  <2> SUFFICES ASSUME NEW i \in 1..Len(queue'), NEW k \in 1..Len(queue'), i < k
               PROVE  queue'[i] < queue'[k]
    OBVIOUS
  <2>1. i \in 1..Len(queue)
    BY <1>2, <1>3
  <2>2. CASE k \in 1..Len(queue)
    BY <1>2, <2>1, <2>2 DEF InTurn
  <2>3. CASE k = Len(queue) + 1
    BY <1>1, <1>2, <1>4, <2>1, <2>3
  <2> QED BY <1>3, <2>2, <2>3
<1>6. \A i \in 1..Len(queue') : cur' < queue'[i]
  BY <1>1, <1>2, <1>3, <1>4 DEF InTurn
<1>7. /\ \A j \in 1..njobs : status'[j] = status[j]
      /\ status'[njobs + 1] = "queued"
  BY <1>1 DEF Enqueue, TypeOK, RowType, Jobs
<1>8. /\ \A j : InQueue(j) \/ j = njobs + 1 => InQueue(j)'
      /\ \A j \in 1..njobs : InQueue(j)' => InQueue(j)
  <2>1. Len(queue) + 1 \in 1..Len(queue') /\ \A i \in 1..Len(queue) : i \in 1..Len(queue')
    BY <1>2
  <2>2. ASSUME NEW j, j = njobs + 1 PROVE InQueue(j)'
    BY <1>2, <2>1, <2>2 DEF InQueue
  <2>3. \A j : InQueue(j) => InQueue(j)'
    BY <1>2, <2>1 DEF InQueue
  <2>4. \A j \in 1..njobs : InQueue(j)' => InQueue(j)
    BY <1>1, <1>2, <1>3 DEF InQueue
  <2> QED BY <2>2, <2>3, <2>4
<1>9. \A j \in 1..njobs' : /\ status'[j] \in Pending \cup Ended
                           /\ status'[j] \in Pending => j = cur \/ InQueue(j)'
  BY <1>1, <1>7, <1>8 DEF InTurn, Pending, Ended
<1>10. \A j, k \in 1..njobs' : j < k /\ Begun(k)' => Settled(j)'
  <2> SUFFICES ASSUME NEW j \in 1..njobs', NEW k \in 1..njobs', j < k, Begun(k)'
               PROVE  Settled(j)'
    OBVIOUS
  <2>1. k \in 1..njobs /\ Begun(k)
    BY <1>1, <1>4 DEF Begun
  <2>2. j \in 1..njobs
    BY <1>1, <2>1
  <2>3. Settled(j)
    BY <2>1, <2>2 DEF InTurn
  <2> QED BY <1>7, <1>8, <2>2, <2>3 DEF Settled
<1>11. Up'
  BY DEF Up
<1>12. \A j \in posted' : \E t \in 1..Len(jobOf') : jobOf'[t] = j
  BY DEF InTurn
<1> QED BY <1>5, <1>6, <1>9, <1>10, <1>11, <1>12 DEF InTurn

\* An ascending sequence as long as its set has elements has them all.
LEMMA AscendingIsOnto ==
  ASSUME NEW P, IsFiniteSet(P), P \subseteq Nat, NEW q \in [1..Cardinality(P) -> P],
         \A i, k \in 1..Cardinality(P) : i < k => q[i] < q[k]
  PROVE  \A j \in P : \E i \in 1..Cardinality(P) : q[i] = j
<1> DEFINE n == Cardinality(P)
<1> SUFFICES ASSUME NEW j \in P, \A i \in 1..n : q[i] # j PROVE FALSE
  OBVIOUS
<1>0. n \in Nat
  BY FS_CardinalityType
<1>1. /\ IsFiniteSet(P \ {j}) /\ Cardinality(P \ {j}) = n - 1
  BY FS_RemoveElement
<1>2. IsFiniteSet(1..n) /\ Cardinality(1..n) = n
  BY <1>0, FS_Interval
<1>3. q \in [1..n -> P \ {j}]
  OBVIOUS
<1>4. Cardinality(P \ {j}) < Cardinality(1..n)
  BY <1>0, <1>1, <1>2
<1>5. PICK x, y \in 1..n : x # y /\ q[x] = q[y]
  BY <1>1, <1>2, <1>3, <1>4, FS_PigeonHole
<1>6. x < y \/ y < x
  BY <1>0, <1>5
<1>7. q[x] \in Nat /\ q[y] \in Nat
  OBVIOUS
<1> QED BY <1>5, <1>6, <1>7

\* Every step keeps the jobs in turn.
LEMMA TurnStep == TypeOK /\ Links /\ InTurn /\ [Next]_vars => InTurn'
<1> SUFFICES ASSUME TypeOK, Links, InTurn, [Next]_vars PROVE InTurn'
  OBVIOUS
<1>0. /\ njobs \in Nat /\ 1..njobs \subseteq Jobs
      /\ status \in [Jobs -> {"none", "queued", "launched", "retrying", "completed", "failed"}]
      /\ cur # 0 => cur \in 1..njobs
      /\ cur = 0 <=> pc \in {"idle", "down"}
  BY ConstantsAssumption DEF TypeOK, RowType, WorkerType, Links, Jobs
<1> USE DEF rowVars, recordVars, gitVars, workVars, agentVars, stepVars, handlerVars, githubVars, historyVars
<1>a. ASSUME UNCHANGED <<njobs, queue, cur, posted, jobOf>>, Up, Up',
             \/ UNCHANGED status
             \/ cur # 0 /\ \E st \in Pending \cup Ended : status' = [status EXCEPT ![cur] = st]
      PROVE  InTurn'
  <2>1. \A j \in 1..njobs : \/ status'[j] = status[j] \/ status'[j] \in Ended
                            \/ j = cur /\ status'[j] \in Pending
    BY <1>a, <1>0
  <2> QED BY <1>a, <2>1, TurnKept
<1>1. CASE Take
  <2>1. /\ queue \in Seq(Jobs) /\ queue # <<>> /\ Len(queue) \in Nat \ {0} /\ cur' = queue[1]
        /\ Len(queue') = Len(queue) - 1 /\ \A i \in 1..Len(queue') : queue'[i] = queue[i + 1]
    <3>1. queue \in Seq(Jobs) /\ queue # <<>>
      BY <1>1 DEF Take, TypeOK, WorkerType
    <3>2. \A q \in Seq(Jobs) : q # <<>> => Len(q) \in Nat \ {0}
      BY EmptySeq
    <3> QED BY <1>1, <3>1, <3>2, HeadTailProperties DEF Take
  <2>2. \A i \in 1..Len(queue') : i + 1 \in 1..Len(queue) /\ i < i + 1 /\ 1 \in 1..Len(queue) /\ 1 < i + 1
    BY <2>1
  <2>3. \A i, k \in 1..Len(queue') : i < k => queue'[i] < queue'[k]
    <3>1. \A i, k \in 1..Len(queue') : i < k => i + 1 < k + 1
      BY <2>1
    <3> QED BY <2>1, <2>2, <3>1 DEF InTurn
  <2>4. \A i \in 1..Len(queue') : cur' < queue'[i]
    BY <2>1, <2>2 DEF InTurn
  <2>5. cur = 0 /\ Up /\ Up' /\ UNCHANGED <<njobs, status, jobOf, posted>>
    BY <1>1, <1>0 DEF Take, At, Up
  <2>6. \A j : InQueue(j) <=> j = cur' \/ InQueue(j)'
    <3>1. ASSUME NEW j, InQueue(j) PROVE j = cur' \/ InQueue(j)'
      <4>1. PICK i \in 1..Len(queue) : queue[i] = j
        BY <3>1 DEF InQueue
      <4>2. i = 1 \/ (i - 1 \in 1..Len(queue') /\ (i - 1) + 1 = i)
        BY <2>1
      <4> QED BY <2>1, <4>1, <4>2 DEF InQueue
    <3>2. ASSUME NEW j, j = cur' \/ InQueue(j)' PROVE InQueue(j)
      <4>1. 1 \in 1..Len(queue)
        BY <2>1
      <4> QED BY <2>1, <2>2, <3>2, <4>1 DEF InQueue
    <3> QED BY <3>1, <3>2
  <2>7. \A j \in 1..njobs : status[j] \in Pending => j = cur' \/ InQueue(j)'
    BY <2>5, <2>6, <1>0 DEF InTurn
  <2>8. ASSUME NEW j \in 1..njobs, NEW k \in 1..njobs, j < k, Begun(k)'
        PROVE  Settled(j)'
    <3>1. CASE k = cur'
      <4>1. ~InQueue(j)
        <5>1. \A i \in 1..Len(queue) : queue[1] <= queue[i]
          <6>1. \A i \in 1..Len(queue) : queue[i] \in Nat /\ (i = 1 \/ 1 < i) /\ 1 \in 1..Len(queue)
            BY <2>1, <1>0 DEF Links
          <6> QED BY <6>1 DEF InTurn
        <5>2. j \in Nat /\ queue[1] \in Nat
          BY <1>0, <2>1, <3>1
        <5> QED BY <2>1, <2>8, <3>1, <5>1, <5>2 DEF InQueue
      <4>2. j # cur' /\ ~InQueue(j)' /\ status[j] \notin Pending
        BY <2>5, <2>6, <4>1, <1>0 DEF InTurn
      <4> QED BY <2>5, <4>2 DEF Settled, InTurn
    <3>2. CASE k # cur'
      <4>1. Begun(k)
        BY <2>5, <2>8, <3>2 DEF Begun
      <4>2. Settled(j)
        BY <2>8, <4>1 DEF InTurn
      <4> QED BY <2>5, <2>6, <4>2 DEF Settled
    <3> QED BY <3>1, <3>2
  <2> QED BY <2>3, <2>4, <2>5, <2>7, <2>8 DEF InTurn
<1>2. CASE Skip
  BY <1>2, <1>a DEF Skip, At, Up
<1>3. CASE Prepare
  BY <1>3, <1>a DEF Prepare, At, Up
<1>4. CASE ReadLine
  BY <1>4, <1>a DEF ReadLine, At, Up
<1>5. CASE WriteLine
  BY <1>5, <1>a DEF WriteLine, At, Up
<1>6. CASE Launch
  BY <1>6, <1>0, TurnKept DEF Launch, At, Up
<1>7. CASE RecordRun
  BY <1>7, <1>a DEF RecordRun, At, Up
<1>8. CASE LinkRow
  BY <1>8, <1>0, <1>a DEF LinkRow, At, Up, Pending
<1>9. CASE WaitEnds
  BY <1>9, <1>0, <1>a DEF WaitEnds, At, Up, Pending
<1>10. CASE EndLine
  BY <1>10, <1>a DEF EndLine, At, Up
<1>11. CASE EndRow
  <2>1. /\ cur # 0 /\ cur' = 0 /\ Up /\ Up' /\ UNCHANGED <<njobs, queue, jobOf, posted>>
        /\ \E st \in Ended : status' = [status EXCEPT ![cur] = st]
    BY <1>11, <1>0 DEF EndRow, At, Up, Ended
  <2>2. /\ status'[cur] \in Ended /\ \A j \in 1..njobs : j # cur => status'[j] = status[j]
        /\ \A j : InQueue(j)' <=> InQueue(j)
    BY <2>1, <1>0 DEF InQueue
  <2>3. \A i \in 1..Len(queue) : 0 < queue[i] /\ queue[i] # cur
    BY <1>0 DEF InTurn, Links
  <2>4. ~InQueue(cur)
    BY <2>3 DEF InQueue
  <2>5. ASSUME NEW j \in 1..njobs, NEW k \in 1..njobs, j < k, Begun(k)'
        PROVE  Settled(j)'
    <3>1. Begun(k)
      BY <2>1, <2>5 DEF Begun
    <3>2. Settled(j)
      BY <2>5, <3>1 DEF InTurn
    <3> QED BY <2>1, <2>2, <3>2 DEF Settled
  <2>6. \A j \in 1..njobs : /\ status'[j] \in Pending \cup Ended
                            /\ status'[j] \in Pending => InQueue(j)'
    BY <2>1, <2>2, <1>0 DEF InTurn, Pending, Ended
  <2> QED BY <2>1, <2>3, <2>5, <2>6 DEF InTurn
<1>12. CASE Post
  <2>1. PICK s \in alive : posted' = posted \cup {jobOf[s]}
    BY <1>12 DEF Post
  <2>2. UNCHANGED <<njobs, queue, pc, cur, status, jobOf>>
    BY <1>12 DEF Post
  <2>3. s \in 1..Len(jobOf)
    BY DEF TypeOK, AgentType
  <2>4. \A j \in posted' : \E t \in 1..Len(jobOf) : jobOf[t] = j
    BY <2>1, <2>3 DEF InTurn
  <2> QED BY <2>2, <2>4 DEF InTurn, Up, InQueue, Settled, Begun
<1>13. CASE Redeliver
  <2>1. UNCHANGED <<njobs, queue, pc, cur, status, jobOf, posted>>
    BY <1>13 DEF Redeliver
  <2> QED BY <2>1 DEF InTurn, Up, InQueue, Settled, Begun
<1>14. CASE Approve
  <2>1. Enqueue("implementation", FALSE, {}) /\ Up /\ UNCHANGED <<pc, cur, jobOf, posted>>
    BY <1>14 DEF Approve, Handles
  <2>2. "implementation" \in Stages /\ FALSE \in BOOLEAN /\ {} \in SUBSET Runs
    BY DEF Stages
  <2> QED BY <2>1, <2>2, TurnAdded
<1>15. CASE CompleteImplementation
  <2>1. PICK j \in mail : status' = [status EXCEPT ![j] = "completed"]
    BY <1>15 DEF CompleteImplementation
  <2>2. UNCHANGED <<njobs, queue, pc, cur, jobOf, posted>>
    BY <1>15 DEF CompleteImplementation, Handles
  <2>3. \A k \in 1..njobs : status'[k] = status[k] \/ status'[k] \in Ended
    BY <2>1, <1>0 DEF Ended
  <2> QED BY <2>2, <2>3, TurnKept DEF Up
<1>16. CASE QueueReview
  <2>1. /\ hstep = "opened" /\ Up /\ Enqueue("review_round", hasLine[hjob], LineageIds(hjob))
        /\ UNCHANGED <<pc, cur, jobOf, posted>>
    BY <1>16 DEF QueueReview, Handles
  <2>2. hjob \in Jobs
    BY <2>1 DEF TypeOK, HandlerType, Jobs
  <2>3. "review_round" \in Stages /\ hasLine[hjob] \in BOOLEAN /\ LineageIds(hjob) \in SUBSET Runs
    BY <2>2 DEF Stages, TypeOK, RowType, LineageIds
  <2> QED BY <2>1, <2>3, TurnAdded
<1>17. CASE HandleComment
  <2>1. PICK j \in mail : stage[j] \in CommentStages
                          /\ (Enqueue(FollowUp(j), hasLine[j], LineageIds(j)) \/ UNCHANGED <<rowVars, queue>>)
    BY <1>17 DEF HandleComment
  <2>2. Up /\ UNCHANGED <<pc, cur, jobOf, posted>>
    BY <1>17 DEF HandleComment, Handles
  <2>3. CASE UNCHANGED <<rowVars, queue>>
    BY <2>2, <2>3, <1>a DEF Up
  <2>4. CASE Enqueue(FollowUp(j), hasLine[j], LineageIds(j))
    <3>1. j \in Jobs
      BY <1>0 DEF Links
    <3>2. FollowUp(j) \in Stages /\ hasLine[j] \in BOOLEAN /\ LineageIds(j) \in SUBSET Runs
      BY <3>1 DEF Stages, FollowUp, TypeOK, RowType, LineageIds
    <3> QED BY <2>2, <2>4, <3>2, TurnAdded
  <2> QED BY <2>1, <2>3, <2>4
<1>18. CASE HandleConflictRequest
  <2>1. Enqueue("merge_conflict_resolution", FALSE, {}) /\ Up /\ UNCHANGED <<pc, cur, jobOf, posted>>
    BY <1>18 DEF HandleConflictRequest, Handles
  <2>2. "merge_conflict_resolution" \in Stages /\ FALSE \in BOOLEAN /\ {} \in SUBSET Runs
    BY DEF Stages
  <2> QED BY <2>1, <2>2, TurnAdded
<1>19. CASE ReceiveVerdict
  BY <1>19, <1>a DEF ReceiveVerdict, Handles, Up
<1>20. CASE Merge
  BY <1>20, <1>a DEF Merge, Handles, Up
<1>21. CASE RecordConflict
  BY <1>21, <1>a DEF RecordConflict, Handles, Up
<1>22. CASE QueueResolution
  <2>1. /\ hstep = "resolve" /\ Up /\ Enqueue("merge_conflict_resolution", hasLine[hjob], source)
        /\ UNCHANGED <<pc, cur, jobOf, posted>>
    BY <1>22 DEF QueueResolution, Handles
  <2>2. hjob \in Jobs
    BY <2>1 DEF TypeOK, HandlerType, Jobs
  <2>3. "merge_conflict_resolution" \in Stages /\ hasLine[hjob] \in BOOLEAN /\ source \in SUBSET Runs
    BY <2>2 DEF Stages, TypeOK, RowType, HandlerType
  <2> QED BY <2>1, <2>3, TurnAdded
<1>23. CASE RecordProcessed
  BY <1>23, <1>a DEF RecordProcessed, Handles, Up
<1>24. CASE RecordMerged
  BY <1>24, <1>a DEF RecordMerged, Handles, Up
<1>25. CASE RemoveWorktree
  BY <1>25, <1>a DEF RemoveWorktree, Handles, Up
<1>26. CASE DeleteBranch
  BY <1>26, <1>a DEF DeleteBranch, Handles, Up
<1>27. CASE RecordCleanup
  BY <1>27, <1>a DEF RecordCleanup, Handles, Up
<1>28. CASE Crash
  <2>1. /\ queue' = <<>> /\ cur' = 0 /\ ~Up' /\ UNCHANGED <<njobs, status, jobOf, posted>>
    BY <1>28 DEF Crash, Up
  <2>2. Len(queue') = 0
    BY <2>1, EmptySeq
  <2>3. \A j \in 1..njobs : Settled(j) => Settled(j)'
    BY <2>1, <2>2, <1>0 DEF Settled, InQueue
  <2>4. \A k \in 1..njobs : Begun(k)' => Begun(k)
    BY <2>1, <1>0 DEF Begun
  <2>5. \A j, k \in 1..njobs : j < k /\ Begun(k)' => Settled(j)'
    BY <2>3, <2>4 DEF InTurn
  <2> QED BY <2>1, <2>2, <2>5 DEF InTurn
<1>29. CASE Restart
  <2>1. cur = 0 /\ ~Up /\ Up' /\ UNCHANGED <<njobs, cur, jobOf, posted>>
    BY <1>29, <1>0 DEF Restart, Up
  <2>2. \A j \in Jobs : \/ status'[j] = "completed" /\ status[j] = "launched"
                        \/ status'[j] = "queued" /\ status[j] = "launched"
                        \/ status'[j] = status[j] /\ status[j] # "launched"
    BY <1>29, <1>0 DEF Restart
  <2> DEFINE pending == {j \in 1..njobs : status'[j] \in {"queued", "retrying"}}
  <2>3. /\ pending \in SUBSET (1..njobs) /\ Cardinality(pending) \in Nat /\ IsFiniteSet(pending)
    <3>1. IsFiniteSet(1..njobs)
      BY <1>0, FS_Interval
    <3> QED BY <3>1, FS_Subset, FS_CardinalityType
  <2>4. /\ queue' \in [1..Cardinality(pending) -> pending]
        /\ \A i, k \in DOMAIN queue' : i < k => queue'[i] < queue'[k]
    BY <1>29 DEF Restart
  <2>5. Len(queue') = Cardinality(pending) /\ DOMAIN queue' = 1..Len(queue')
    BY <2>3, <2>4
  <2>6. \A j \in pending : InQueue(j)'
    <3>1. pending \subseteq Nat
      BY <1>0
    <3>2. \A j \in pending : \E i \in 1..Cardinality(pending) : queue'[i] = j
      <4>1. \A i, k \in 1..Cardinality(pending) : i < k => queue'[i] < queue'[k]
        BY <2>4, <2>5
      <4> HIDE DEF pending
      <4> QED BY <2>3, <2>4, <3>1, <4>1, AscendingIsOnto, Zenon
    <3> QED BY <2>5, <3>2 DEF InQueue
  <2>7. /\ \A i \in 1..Len(queue') : queue'[i] \in pending /\ queue'[i] \in 1..njobs
        /\ \A j : InQueue(j)' => j \in pending
    BY <2>4, <2>5 DEF InQueue
  <2>8. \A j \in 1..njobs : Settled(j) => Settled(j)'
    BY <2>1, <2>2, <2>7, <1>0 DEF Settled, Ended
  <2>9. \A k : Begun(k)' => Begun(k)
    BY <2>1 DEF Begun
  <2>10. \A j, k \in 1..njobs : j < k /\ Begun(k)' => Settled(j)'
    BY <2>8, <2>9 DEF InTurn
  <2>11. \A j \in 1..njobs : /\ status'[j] \in Pending \cup Ended
                             /\ status'[j] \in Pending => InQueue(j)'
    <3>1. ASSUME NEW j \in 1..njobs
          PROVE  status'[j] \in Pending \cup Ended /\ (status'[j] \in Pending => j \in pending)
      BY <2>2, <1>0 DEF InTurn, Pending, Ended
    <3> QED BY <2>6, <3>1
  <2>12. \A i \in 1..Len(queue') : 0 < queue'[i]
    BY <2>7, <1>0
  <2>13. \A i, k \in 1..Len(queue') : i < k => queue'[i] < queue'[k]
    BY <2>4, <2>5
  <2> QED BY <2>1, <2>10, <2>11, <2>12, <2>13 DEF InTurn
<1>30. CASE UNCHANGED vars
  <2>1. UNCHANGED <<njobs, queue, pc, cur, status, jobOf, posted>>
    BY <1>30 DEF vars
  <2> QED BY <2>1 DEF InTurn, Up, InQueue, Settled, Begun
<1> QED BY <1>1, <1>2, <1>3, <1>4, <1>5, <1>6, <1>7, <1>8, <1>9, <1>10, <1>11, <1>12, <1>13, <1>14,
           <1>15, <1>16, <1>17, <1>18, <1>19, <1>20, <1>21, <1>22, <1>23, <1>24, <1>25, <1>26, <1>27,
           <1>28, <1>29, <1>30 DEF Next

\* Nothing of what the properties except has happened.
Calmly == happened \cap {"approval", "openedAgain"} = {} /\ ~cut

LineJob(j) == hasLine[j] \/ Prepares(j)
LastLine(j) == \A k \in 1..njobs : LineJob(k) => k <= j

\* Rows keep their stage, and their line but for what an implementation is given.
LEMMA RowsGoOn == TypeOK /\ Links /\ Memory /\ [Next]_vars => RowsGo
<1> SUFFICES ASSUME TypeOK, Links, Memory, [Next]_vars PROVE RowsGo
  OBVIOUS
<1>0. /\ RowType /\ njobs \in Nat /\ 1..njobs \subseteq Jobs
      /\ cur # 0 => cur \in 1..njobs /\ held.line = hasLine[cur]
      /\ pc \in {"read", "write"} => cur # 0 /\ Prepares(cur)
      /\ cur = 0 <=> pc \in {"idle", "down"}
  BY ConstantsAssumption DEF TypeOK, RowType, WorkerType, Links, Jobs, Memory, AtWork
<1> USE DEF rowVars
<1>a. ASSUME UNCHANGED <<njobs, stage>>,
             \/ UNCHANGED hasLine
             \/ cur # 0 /\ hasLine' = [hasLine EXCEPT ![cur] = held.line]
             \/ cur # 0 /\ Prepares(cur) /\ hasLine' = [hasLine EXCEPT ![cur] = TRUE]
      PROVE  RowsGo
  <2>1. \A j \in 1..njobs : hasLine'[j] = hasLine[j] \/ (Prepares(j) /\ hasLine'[j])
    BY <1>a, <1>0 DEF RowType
  <2> QED BY <1>a, <1>0, <2>1 DEF RowsGo, Prepares
<1>b. ASSUME NEW s \in Stages, NEW line \in BOOLEAN, NEW ids \in SUBSET Runs, Enqueue(s, line, ids)
      PROVE  RowsGo
  <2>1. /\ njobs' = njobs + 1
        /\ \A j \in 1..njobs : stage'[j] = stage[j] /\ hasLine'[j] = hasLine[j]
    BY <1>b, Enqueued DEF TypeOK
  <2> QED BY <1>0, <2>1 DEF RowsGo, Prepares
<1>1. CASE Take \/ Skip \/ Prepare \/ WriteLine \/ Launch \/ RecordRun \/ WaitEnds \/ EndLine
  BY <1>1, <1>a DEF Take, Skip, Prepare, WriteLine, Launch, RecordRun, WaitEnds, EndLine, At
<1>2. CASE ReadLine
  BY <1>2, <1>0, <1>a DEF ReadLine, At
<1>3. CASE LinkRow \/ EndRow
  BY <1>3, <1>0, <1>a DEF LinkRow, EndRow, At
<1>4. CASE Post \/ Redeliver \/ CompleteImplementation
  BY <1>4, <1>a DEF Post, Redeliver, CompleteImplementation
<1>5. CASE Approve \/ HandleConflictRequest
  <2>1. {} \in SUBSET Runs /\ FALSE \in BOOLEAN /\ "implementation" \in Stages
        /\ "merge_conflict_resolution" \in Stages
    BY DEF Stages
  <2> QED BY <1>5, <1>b, <2>1 DEF Approve, HandleConflictRequest
<1>6. CASE QueueReview
  <2>1. hstep = "opened" /\ Enqueue("review_round", hasLine[hjob], LineageIds(hjob))
    BY <1>6 DEF QueueReview, Handles
  <2>2. hjob \in Jobs
    BY <2>1 DEF TypeOK, HandlerType, Jobs
  <2>3. "review_round" \in Stages /\ hasLine[hjob] \in BOOLEAN /\ LineageIds(hjob) \in SUBSET Runs
    BY <2>2, <1>0 DEF Stages, RowType, LineageIds
  <2> QED BY <2>1, <2>3, <1>b
<1>7. CASE HandleComment
  <2>1. PICK j \in mail : stage[j] \in CommentStages
                          /\ (Enqueue(FollowUp(j), hasLine[j], LineageIds(j)) \/ UNCHANGED <<rowVars, queue>>)
    BY <1>7 DEF HandleComment
  <2>2. j \in Jobs
    BY <1>0 DEF Links
  <2>3. FollowUp(j) \in Stages /\ hasLine[j] \in BOOLEAN /\ LineageIds(j) \in SUBSET Runs
    BY <2>2, <1>0 DEF Stages, FollowUp, RowType, LineageIds
  <2> QED BY <2>1, <2>3, <1>a, <1>b
<1>8. CASE QueueResolution
  <2>1. hstep = "resolve" /\ Enqueue("merge_conflict_resolution", hasLine[hjob], source)
    BY <1>8 DEF QueueResolution, Handles
  <2>2. hjob \in Jobs
    BY <2>1 DEF TypeOK, HandlerType, Jobs
  <2>3. "merge_conflict_resolution" \in Stages /\ hasLine[hjob] \in BOOLEAN /\ source \in SUBSET Runs
    BY <2>2, <1>0 DEF Stages, TypeOK, RowType, HandlerType
  <2> QED BY <2>1, <2>3, <1>b
<1>9. CASE ReceiveVerdict \/ Merge \/ RecordConflict \/ RecordProcessed \/ RecordMerged
           \/ RemoveWorktree \/ DeleteBranch \/ RecordCleanup
  BY <1>9, <1>a DEF ReceiveVerdict, Merge, RecordConflict, RecordProcessed, RecordMerged,
                    RemoveWorktree, DeleteBranch, RecordCleanup
<1>10. CASE Crash \/ Restart
  BY <1>10, <1>a DEF Crash, Restart
<1>11. CASE UNCHANGED vars
  BY <1>11, <1>a DEF vars
<1> QED BY <1>1, <1>2, <1>3, <1>4, <1>5, <1>6, <1>7, <1>8, <1>9, <1>10, <1>11 DEF Next

\* What has happened has happened.
LEMMA CalmBefore == TypeOK /\ [Next]_vars => (Calmly' => Calmly) /\ happened \subseteq happened'
<1> SUFFICES ASSUME [Next]_vars, TypeOK PROVE (Calmly' => Calmly) /\ happened \subseteq happened'
  OBVIOUS
<1>1. ASSUME happened \subseteq happened', cut' = cut \/ cut' = (cut \/ hstep # "idle")
      PROVE  (Calmly' => Calmly) /\ happened \subseteq happened'
  <2>1. cut \in BOOLEAN
    BY DEF TypeOK, HandlerType
  <2> QED BY <1>1, <2>1 DEF Calmly
<1> USE DEF historyVars, Calm, Happens
<1>2. CASE Take \/ Skip \/ Prepare \/ ReadLine \/ WriteLine \/ Launch \/ RecordRun \/ LinkRow
  BY <1>1, <1>2 DEF Take, Skip, Prepare, ReadLine, WriteLine, Launch, RecordRun, LinkRow
<1>3. CASE WaitEnds \/ EndLine \/ EndRow \/ Post \/ Redeliver \/ Approve \/ CompleteImplementation
           \/ QueueReview
  BY <1>1, <1>3 DEF WaitEnds, EndLine, EndRow, Post, Redeliver, Approve, CompleteImplementation,
                    QueueReview
<1>4. CASE HandleComment \/ HandleConflictRequest \/ ReceiveVerdict \/ Merge \/ RecordConflict
           \/ QueueResolution \/ RecordProcessed \/ RecordMerged
  BY <1>1, <1>4 DEF HandleComment, HandleConflictRequest, ReceiveVerdict, Merge, RecordConflict,
                    QueueResolution, RecordProcessed, RecordMerged
<1>5. CASE RemoveWorktree \/ DeleteBranch \/ RecordCleanup \/ Crash \/ Restart \/ UNCHANGED vars
  BY <1>1, <1>5 DEF RemoveWorktree, DeleteBranch, RecordCleanup, Crash, Restart, vars
<1> QED BY <1>2, <1>3, <1>4, <1>5 DEF Next

---------------------------------------------------------------------------
(***************************************************************************)
(* The line is a chain: each of its jobs follows from the one before, once, *)
(* and its verdict merges only as the last.                                *)
(***************************************************************************)

\* The message of a job has led to the next one, or has been dropped.
Handled(j) ==
  IF stage[j] = "implementation" THEN j \in posted /\ j \notin mail /\ ~(hstep = "opened" /\ hjob = j)
  ELSE j \in processed \/ (hstep = "resolving" /\ hjob = j)

\* Handlers and the pull request.
Serving ==
  /\ hstep \in {"merge", "conflict", "resolve", "resolving"} => pr = "open"
  /\ hstep = "opened" /\ Calmly => hjob \notin mail
  /\ hstep \in {"merge", "conflict", "resolve"} => hjob \in posted /\ hjob \notin processed
  /\ hstep \in {"merged", "recordMerged", "remove", "branch", "cleaned", "cleanup_failed"} =>
       pr = "merged" /\ mergedBy = hjob
  /\ hstep \in {"remove", "branch", "cleaned", "cleanup_failed"} => hasLine[hjob]
  /\ pr = "merged" => mergedBy \in posted /\ stage[mergedBy] = "final_verdict"
  /\ pr # "merged" => mergedBy = 0

LineMerged == pr = "merged" /\ hasLine[mergedBy]

Chain ==
  Calmly => /\ \A j \in 1..njobs : LineJob(j) /\ ~LastLine(j) => Handled(j)
            /\ pr = "merged" /\ hasLine[mergedBy] => LastLine(mergedBy)

\* Line jobs stay line jobs.
LEMMA LineStays ==
  ASSUME RowsGo PROVE \A j \in 1..njobs : LineJob(j)' <=> LineJob(j)
BY DEF RowsGo, LineJob

\* A step that queues nothing and forgets no message that was handled.
LEMMA ChainKept ==
  ASSUME Links, Serving, Chain, RowsGo, njobs' = njobs, Calmly' => Calmly,
         \A j \in 1..njobs : Handled(j) => Handled(j)',
         pr' = "merged" => \/ pr = "merged" /\ mergedBy' = mergedBy
                           \/ /\ mergedBy' = hjob /\ hjob \in 1..njobs
                              /\ stage[hjob] = "final_verdict"
                              /\ Calmly /\ hasLine[hjob] => LastLine(hjob)
  PROVE  Chain'
<1> SUFFICES ASSUME Calmly', Calmly PROVE Chain'
  BY DEF Chain
<1>1. \A j : LastLine(j)' <=> LastLine(j)
  BY LineStays DEF LastLine
<1>2. ASSUME NEW b, b = mergedBy', pr' = "merged", hasLine'[b] PROVE LastLine(b)'
  <2>1. CASE pr = "merged" /\ mergedBy' = mergedBy
    <3>1. b \in 1..njobs /\ ~Prepares(b)
      BY <1>2, <2>1 DEF Serving, Links, Prepares
    <3> QED BY <1>1, <1>2, <2>1, <3>1 DEF Chain, RowsGo
  <2>2. CASE /\ mergedBy' = hjob /\ hjob \in 1..njobs /\ stage[hjob] = "final_verdict"
             /\ hasLine[hjob] => LastLine(hjob)
    <3>1. b \in 1..njobs /\ ~Prepares(b)
      BY <1>2, <2>2 DEF Prepares
    <3> QED BY <1>1, <1>2, <2>2, <3>1 DEF RowsGo
  <2> QED BY <1>2, <2>1, <2>2
<1>3. \A j \in 1..njobs' : LineJob(j)' /\ ~LastLine(j)' => Handled(j)'
  BY <1>1, LineStays DEF Chain
<1>4. pr' = "merged" /\ hasLine'[mergedBy'] => LastLine(mergedBy)'
  BY <1>2 DEF LastLine
<1> QED BY <1>3, <1>4 DEF Chain

\* A handler queues a job: without a line, or the next of the line.
LEMMA ChainAdded ==
  ASSUME TypeOK, Links, Serving, Chain, RowsGo, Calmly' => Calmly,
         NEW s \in Stages, NEW line \in BOOLEAN, NEW ids \in SUBSET Runs, Enqueue(s, line, ids),
         \A j \in 1..njobs : Handled(j) => Handled(j)',
         UNCHANGED <<pr, mergedBy>>,
         Calmly' => ~LineMerged,
         Calmly' => \/ ~line /\ s \notin {"implementation", "fix"}
                    \/ njobs = 0
                    \/ \E p \in 1..njobs : LineJob(p) /\ LastLine(p) /\ Handled(p)'
  PROVE  Chain'
<1> SUFFICES ASSUME Calmly', Calmly PROVE Chain'
  BY DEF Chain
<1>1. /\ njobs \in Nat /\ njobs' = njobs + 1
      /\ \A j \in 1..njobs' : j \in 1..njobs \/ j = njobs + 1
      /\ stage'[njobs + 1] = s /\ hasLine'[njobs + 1] = line
  BY Enqueued DEF TypeOK
<1>2. \A j \in 1..njobs : LastLine(j)' => LastLine(j)
  BY <1>1, LineStays DEF LastLine
<1>3. ASSUME NEW n, n = njobs + 1 PROVE LastLine(n)' /\ (LineJob(n)' => line \/ s \in {"implementation", "fix"})
  BY <1>1, <1>3 DEF LastLine, LineJob, Prepares
<1>4. ASSUME NEW j \in 1..njobs, LineJob(j), ~LastLine(j)' PROVE Handled(j)'
  <2>1. CASE ~LastLine(j)
    BY <1>4, <2>1 DEF Chain
  <2>2. CASE LastLine(j)
    <3>1. ~(~line /\ s \notin {"implementation", "fix"})
      <4> SUFFICES ASSUME ~line /\ s \notin {"implementation", "fix"} PROVE FALSE
        OBVIOUS
      <4>1. PICK k \in 1..njobs' : LineJob(k)' /\ ~(k <= j)
        BY <1>4 DEF LastLine
      <4>2. k \in 1..njobs
        BY <1>1, <1>3, <4>1
      <4> QED BY <2>2, <4>1, <4>2, LineStays DEF LastLine
    <3>2. PICK p \in 1..njobs : LineJob(p) /\ LastLine(p) /\ Handled(p)'
      BY <3>1
    <3>3. p <= j /\ j <= p
      BY <1>4, <2>2, <3>2 DEF LastLine
    <3>4. p = j
      BY <1>1, <3>3
    <3> QED BY <3>2, <3>4
  <2> QED BY <2>1, <2>2
<1>5. \A j \in 1..njobs' : LineJob(j)' /\ ~LastLine(j)' => Handled(j)'
  <2> SUFFICES ASSUME NEW j \in 1..njobs', LineJob(j)', ~LastLine(j)' PROVE Handled(j)'
    OBVIOUS
  <2>1. j \in 1..njobs
    BY <1>1, <1>3
  <2> QED BY <2>1, <1>4, LineStays
<1>6. pr' = "merged" => ~hasLine'[mergedBy']
  <2> SUFFICES ASSUME pr = "merged" PROVE ~hasLine'[mergedBy]
    OBVIOUS
  <2>1. mergedBy \in 1..njobs /\ ~Prepares(mergedBy)
    BY DEF Serving, Links, Prepares
  <2> QED BY <2>1 DEF RowsGo, LineMerged
<1> QED BY <1>5, <1>6 DEF Chain

\* The opening is handled before any verdict of the line is there.
LEMMA OpenedBefore ==
  ASSUME Links, Handling, Serving, Chain, Calmly, njobs \in Nat, hstep = "opened", hjob \in 1..njobs
  PROVE  ~LineMerged
<1> SUFFICES ASSUME LineMerged PROVE FALSE
  OBVIOUS
<1>1. stage[hjob] = "implementation" /\ LineJob(hjob)
  BY DEF Handling, LineJob, Prepares
<1>2. mergedBy \in 1..njobs /\ stage[mergedBy] = "final_verdict" /\ LastLine(mergedBy) /\ LineJob(mergedBy)
  BY DEF Links, Serving, Chain, LineMerged, LineJob
<1>3. LastLine(hjob)
  BY <1>1 DEF Chain, Handled
<1>4. hjob = mergedBy
  BY <1>1, <1>2, <1>3 DEF LastLine
<1> QED BY <1>1, <1>2, <1>4

\* Every step keeps handlers, pull request and chain in step.
LEMMA ChainStep ==
  TypeOK /\ Links /\ Memory /\ Serving /\ Chain /\ [Next]_vars => Serving' /\ Chain'
<1> SUFFICES ASSUME TypeOK, Links, Memory, Serving, Chain, [Next]_vars PROVE Serving' /\ Chain'
  OBVIOUS
<1>0. /\ njobs \in Nat /\ 1..njobs \subseteq Jobs /\ posted \subseteq 1..njobs /\ mail \subseteq posted
      /\ hjob = 0 <=> hstep = "idle"
      /\ hjob # 0 => hjob \in 1..njobs
      /\ pr \in {"none", "open", "merged"} /\ Handling
  BY ConstantsAssumption DEF TypeOK, RowType, HandlerType, Links, Jobs, Memory
<1>A. RowsGo
  BY RowsGoOn
<1>B. Calmly' => Calmly
  BY CalmBefore
<1> USE DEF rowVars, recordVars, gitVars, workVars, agentVars, stepVars, handlerVars, githubVars
\* Nothing but rows, worker and stores.
<1>a. ASSUME UNCHANGED <<njobs, posted, mail, processed, hstep, hjob, pr, mergedBy>> PROVE Serving' /\ Chain'
  <2>1. hjob \in 1..njobs /\ hasLine[hjob] => hasLine'[hjob]
    BY <1>A DEF RowsGo
  <2>2. \A j \in 1..njobs : Handled(j) => Handled(j)'
    BY <1>a, <1>A DEF RowsGo, Handled
  <2>3. Chain'
    BY <1>a, <1>A, <1>B, <2>2, ChainKept
  <2>4. pr = "merged" => mergedBy \in 1..njobs
    BY <1>0 DEF Serving
  <2>5. pr = "merged" => mergedBy \in posted /\ stage'[mergedBy] = "final_verdict"
    BY <1>A, <2>4 DEF RowsGo, Serving
  <2>6. Serving'
    BY <1>a, <1>0, <1>B, <2>1, <2>5 DEF Serving
  <2> QED BY <2>3, <2>6
<1>1. CASE Take \/ Skip \/ Prepare \/ ReadLine \/ WriteLine \/ Launch
  BY <1>1, <1>a DEF Take, Skip, Prepare, ReadLine, WriteLine, Launch, At
<1>2. CASE RecordRun \/ LinkRow \/ WaitEnds \/ EndLine \/ EndRow
  BY <1>2, <1>a DEF RecordRun, LinkRow, WaitEnds, EndLine, EndRow, At
<1>3. CASE Restart \/ UNCHANGED vars
  BY <1>3, <1>a DEF Restart, vars
\* A merged pull request stays so, and its verdict a verdict.
<1>b. ASSUME UNCHANGED <<pr, mergedBy>>, posted \subseteq posted'
      PROVE  /\ pr' = "merged" => mergedBy' \in posted' /\ stage'[mergedBy'] = "final_verdict"
             /\ pr' # "merged" => mergedBy' = 0
  <2>1. pr = "merged" => mergedBy \in 1..njobs
    BY <1>0 DEF Serving
  <2> QED BY <1>A, <1>b, <2>1 DEF RowsGo, Serving
<1>4. CASE Post
  <2>1. PICK j \in 1..njobs :
          /\ j \notin posted /\ posted' = posted \cup {j} /\ mail' = mail \cup {j}
          /\ (pr = "none" /\ pr' = "open") \/ pr' = pr
    <3>1. PICK s \in alive : /\ jobOf[s] \notin posted /\ posted' = posted \cup {jobOf[s]}
                             /\ mail' = mail \cup {jobOf[s]}
                             /\ (pr = "none" /\ pr' = "open") \/ pr' = pr
      BY <1>4 DEF Post
    <3>2. jobOf[s] \in 1..njobs
      BY DEF TypeOK, AgentType, Links
    <3> QED BY <3>1, <3>2
  <2>2. UNCHANGED <<njobs, stage, hasLine, hstep, hjob, processed, mergedBy>>
    BY <1>4 DEF Post
  <2>3. \A k \in 1..njobs : Handled(k) => Handled(k)'
    BY <2>1, <2>2 DEF Handled
  <2>4. Chain'
    BY <1>A, <1>B, <2>1, <2>2, <2>3, ChainKept
  <2>5. hstep = "opened" => hjob \in posted
    BY <1>0 DEF Handling
  <2>6. Serving'
    BY <1>B, <2>1, <2>2, <2>5 DEF Serving
  <2> QED BY <2>4, <2>6
<1>5. CASE Redeliver
  <2>1. PICK j \in posted : mail' = mail \cup {j}
                            /\ Happens(IF stage[j] = "implementation" THEN "openedAgain" ELSE "redeliver")
    BY <1>5 DEF Redeliver
  <2>2. stage[j] = "implementation" => ~Calmly'
    BY <2>1 DEF Happens, Calmly
  <2>3. UNCHANGED <<njobs, stage, hasLine, hstep, hjob, processed, posted, pr, mergedBy>>
    BY <1>5 DEF Redeliver
  <2>4. Calmly' => \A k \in 1..njobs : Handled(k) => Handled(k)'
    BY <2>1, <2>2, <2>3 DEF Handled
  <2>5. Chain'
    <3>1. CASE Calmly'
      BY <1>A, <1>B, <2>3, <2>4, <3>1, ChainKept
    <3>2. CASE ~Calmly'
      BY <3>2 DEF Chain
    <3> QED BY <3>1, <3>2
  <2>6. hstep = "opened" => stage[hjob] = "implementation"
    BY <1>0 DEF Handling
  <2>7. Serving'
    BY <1>B, <2>1, <2>2, <2>3, <2>6 DEF Serving
  <2> QED BY <2>5, <2>7
\* A handler that is over, or never began.
<1>c. ASSUME hstep' = "idle", UNCHANGED <<pr, mergedBy>>, posted \subseteq posted' PROVE Serving'
  BY <1>b, <1>c DEF Serving
<1>6. CASE Approve
  <2>1. /\ hstep = "idle" /\ Enqueue("implementation", FALSE, {})
        /\ UNCHANGED <<hstep, hjob, posted, mail, processed, pr, mergedBy>>
    BY <1>6 DEF Approve, Handles
  <2>2. Calmly' => njobs = 0
    BY <1>6 DEF Approve, Happens, Calmly
  <2>3. njobs = 0 => pr # "merged"
    <3>1. 1..0 = {}
      OBVIOUS
    <3> QED BY <1>0, <3>1 DEF Serving
  <2>4. \A j \in 1..njobs : Handled(j) => Handled(j)'
    BY <1>A, <2>1 DEF Handled, RowsGo
  <2>5. "implementation" \in Stages /\ FALSE \in BOOLEAN /\ {} \in SUBSET Runs
    BY DEF Stages
  <2>6. Chain'
    <3>1. CASE Calmly'
      BY <1>A, <1>B, <2>1, <2>2, <2>3, <2>4, <2>5, <3>1, ChainAdded DEF LineMerged
    <3>2. CASE ~Calmly'
      BY <3>2 DEF Chain
    <3> QED BY <3>1, <3>2
  <2> QED BY <1>c, <2>1, <2>6
<1>7. CASE CompleteImplementation
  <2>1. PICK j \in mail : /\ stage[j] = "implementation" /\ mail' = mail \ {j}
                          /\ hstep' = "opened" /\ hjob' = j
    BY <1>7 DEF CompleteImplementation, Receive
  <2>2. hstep = "idle" /\ UNCHANGED <<njobs, stage, hasLine, processed, posted, pr, mergedBy>>
    BY <1>7 DEF CompleteImplementation, Handles
  <2>3. \A k \in 1..njobs : Handled(k) => Handled(k)'
    BY <2>1, <2>2 DEF Handled
  <2>4. Chain'
    BY <1>A, <1>B, <2>1, <2>2, <2>3, ChainKept
  <2>5. Serving'
    BY <1>b, <2>1, <2>2 DEF Serving
  <2> QED BY <2>4, <2>5
<1>8. CASE QueueReview
  <2>1. /\ hstep = "opened" /\ Idle /\ Enqueue("review_round", hasLine[hjob], LineageIds(hjob))
        /\ UNCHANGED <<posted, mail, processed, pr, mergedBy>>
    BY <1>8 DEF QueueReview, Handles
  <2>2. /\ hjob \in 1..njobs /\ stage[hjob] = "implementation" /\ hjob \in posted
        /\ Calmly => hjob \notin mail
    BY <1>0, <2>1 DEF Handling, Serving
  <2>3. /\ \A j \in 1..njobs : Handled(j) => Handled(j)'
        /\ Calmly => \A p \in 1..njobs : p = hjob => Handled(p)'
    BY <1>A, <2>1, <2>2 DEF Handled, RowsGo, Idle
  <2>4. Calmly => LineJob(hjob) /\ LastLine(hjob)
    BY <2>1, <2>2 DEF Chain, Handled, LineJob, Prepares
  <2>5. "review_round" \in Stages /\ hasLine[hjob] \in BOOLEAN /\ LineageIds(hjob) \in SUBSET Runs
    BY <1>0, <2>2 DEF Stages, TypeOK, RowType, LineageIds
  <2>6. Calmly => \E p \in 1..njobs : LineJob(p) /\ LastLine(p) /\ Handled(p)'
    BY <2>2, <2>3, <2>4
  <2>7. Calmly => ~LineMerged
    BY <1>0, <2>1, OpenedBefore
  <2>8. Chain'
    BY <1>A, <1>B, <2>1, <2>2, <2>3, <2>5, <2>6, <2>7, ChainAdded
  <2> QED BY <1>c, <2>1, <2>8 DEF Idle
<1>9. CASE HandleComment
  <2>1. PICK j \in mail :
          /\ stage[j] \in CommentStages /\ mail' = mail \ {j} /\ processed' = processed \cup {j}
          /\ \/ j \notin processed /\ pr = "open" /\ Enqueue(FollowUp(j), hasLine[j], LineageIds(j))
             \/ UNCHANGED <<rowVars, queue>>
    BY <1>9 DEF HandleComment, Receive
  <2>2. hstep = "idle" /\ UNCHANGED <<hstep, hjob, posted, pr, mergedBy>>
    BY <1>9 DEF HandleComment, Handles
  <2>3. \A k \in 1..njobs : Handled(k) => Handled(k)'
    BY <1>A, <2>1, <2>2 DEF Handled, RowsGo
  <2>4. Serving'
    BY <1>c, <2>2
  <2>5. CASE UNCHANGED <<rowVars, queue>>
    <3>1. Chain'
      BY <1>A, <1>B, <2>2, <2>3, <2>5, ChainKept
    <3> QED BY <2>4, <3>1
  <2>6. CASE j \notin processed /\ pr = "open" /\ Enqueue(FollowUp(j), hasLine[j], LineageIds(j))
    <3>1. j \in 1..njobs /\ j \in Jobs
      BY <1>0
    <3>2. FollowUp(j) \in Stages /\ hasLine[j] \in BOOLEAN /\ LineageIds(j) \in SUBSET Runs
      BY <3>1 DEF Stages, FollowUp, TypeOK, RowType, LineageIds
    <3>3. FollowUp(j) \in {"implementation", "fix"} => hasLine[j]
      BY <3>1 DEF FollowUp, Memory, Rows
    <3>4. ~Handled(j) /\ Handled(j)'
      BY <1>A, <2>1, <2>2, <2>6, <3>1 DEF Handled, RowsGo, CommentStages
    <3>5. Calmly' /\ hasLine[j] => \E p \in 1..njobs : LineJob(p) /\ LastLine(p) /\ Handled(p)'
      BY <1>B, <3>1, <3>4 DEF Chain, LineJob
    <3>6. Chain'
      BY <1>A, <1>B, <2>2, <2>3, <2>6, <3>2, <3>3, <3>5, ChainAdded DEF LineMerged
    <3> QED BY <2>4, <3>6
  <2> QED BY <2>1, <2>5, <2>6
<1>10. CASE HandleConflictRequest
  <2>1. /\ hstep = "idle" /\ pr = "open" /\ Enqueue("merge_conflict_resolution", FALSE, {})
        /\ UNCHANGED <<hstep, hjob, posted, mail, processed, pr, mergedBy>>
    BY <1>10 DEF HandleConflictRequest, Handles
  <2>2. \A j \in 1..njobs : Handled(j) => Handled(j)'
    BY <1>A, <2>1 DEF Handled, RowsGo
  <2>3. "merge_conflict_resolution" \in Stages /\ FALSE \in BOOLEAN /\ {} \in SUBSET Runs
        /\ "merge_conflict_resolution" \notin {"implementation", "fix"}
    BY DEF Stages
  <2>4. Chain'
    BY <1>A, <1>B, <2>1, <2>2, <2>3, ChainAdded DEF LineMerged
  <2> QED BY <1>c, <2>1, <2>4
<1>11. CASE ReceiveVerdict
  <2>1. PICK j \in mail :
          /\ mail' = mail \ {j}
          /\ \/ NewVerdict(j) /\ hstep' = "merge" /\ hjob' = j
             \/ UNCHANGED stepVars
    BY <1>11 DEF ReceiveVerdict, Receive
  <2>2. hstep = "idle" /\ UNCHANGED <<njobs, stage, hasLine, processed, posted, pr, mergedBy>>
    BY <1>11 DEF ReceiveVerdict, Handles
  <2>3. \A k \in 1..njobs : Handled(k) => Handled(k)'
    BY <2>1, <2>2 DEF Handled
  <2>4. Chain'
    BY <1>A, <1>B, <2>2, <2>3, ChainKept
  <2>5. Serving'
    BY <1>0, <1>b, <1>c, <2>1, <2>2 DEF Serving, NewVerdict
  <2> QED BY <2>4, <2>5
<1>12. CASE Merge
  <2>1. /\ hstep = "merge" /\ pr = "open" /\ UNCHANGED <<njobs, stage, hasLine, processed, posted, mail>>
        /\ \/ pr' = "merged" /\ mergedBy' = hjob /\ hstep' = "merged" /\ hjob' = hjob
           \/ pr' = "merged" /\ mergedBy' = hjob /\ hstep' = "idle"
           \/ UNCHANGED <<pr, mergedBy>> /\ hstep' = "conflict" /\ hjob' = hjob
           \/ UNCHANGED <<pr, mergedBy>> /\ hstep' = "idle"
    BY <1>12 DEF Merge, Handles, Onward, Idle, Serving
  <2>2. hjob \in 1..njobs /\ stage[hjob] = "final_verdict" /\ hjob \in posted /\ hjob \notin processed
    BY <1>0, <2>1 DEF Handling, Serving
  <2>3. \A k \in 1..njobs : Handled(k) => Handled(k)'
    BY <2>1 DEF Handled
  <2>4. Calmly /\ hasLine[hjob] => LastLine(hjob)
    BY <2>1, <2>2 DEF Chain, Handled, LineJob
  <2>5. Chain'
    BY <1>A, <1>B, <2>1, <2>2, <2>3, <2>4, ChainKept
  <2>6. Serving'
    BY <1>b, <2>1, <2>2 DEF Serving
  <2> QED BY <2>5, <2>6
<1>13. CASE RecordConflict
  <2>1. /\ hstep = "conflict" /\ hstep' = "resolve"
        /\ UNCHANGED <<hjob, njobs, stage, hasLine, processed, posted, mail, pr, mergedBy>>
    BY <1>13 DEF RecordConflict, Handles, Onward
  <2>2. \A k \in 1..njobs : Handled(k) => Handled(k)'
    BY <2>1 DEF Handled
  <2>3. Chain'
    BY <1>A, <1>B, <2>1, <2>2, ChainKept
  <2> QED BY <1>b, <2>1, <2>3 DEF Serving
<1>14. CASE QueueResolution
  <2>1. /\ hstep = "resolve" /\ hstep' = "resolving"
        /\ Enqueue("merge_conflict_resolution", hasLine[hjob], source)
        /\ UNCHANGED <<hjob, posted, mail, processed, pr, mergedBy>>
    BY <1>14 DEF QueueResolution, Handles, Onward
  <2>2. /\ hjob \in 1..njobs /\ stage[hjob] = "final_verdict" /\ hjob \notin processed /\ pr = "open"
    BY <1>0, <2>1 DEF Handling, Serving
  <2>3. /\ \A j \in 1..njobs : Handled(j) => Handled(j)'
        /\ \A p \in 1..njobs : p = hjob => Handled(p)'
    BY <1>A, <2>1, <2>2 DEF Handled, RowsGo
  <2>4. Calmly /\ hasLine[hjob] => LineJob(hjob) /\ LastLine(hjob)
    BY <2>1, <2>2 DEF Chain, Handled, LineJob
  <2>5. "merge_conflict_resolution" \in Stages /\ hasLine[hjob] \in BOOLEAN /\ source \in SUBSET Runs
        /\ "merge_conflict_resolution" \notin {"implementation", "fix"}
    BY <1>0, <2>2 DEF Stages, TypeOK, RowType, HandlerType
  <2>6. Calmly /\ hasLine[hjob] => \E p \in 1..njobs : LineJob(p) /\ LastLine(p) /\ Handled(p)'
    BY <2>2, <2>3, <2>4
  <2>7. Chain'
    BY <1>A, <1>B, <2>1, <2>2, <2>3, <2>5, <2>6, ChainAdded DEF LineMerged
  <2>8. Serving'
    BY <1>b, <2>1, <2>2 DEF Serving
  <2> QED BY <2>7, <2>8
<1>15. CASE RecordProcessed
  <2>1. /\ \/ hstep = "resolving" /\ hstep' = "idle"
           \/ hstep = "merged" /\ hstep' = "recordMerged" /\ hjob' = hjob
        /\ processed' = processed \cup {hjob}
        /\ UNCHANGED <<njobs, stage, hasLine, posted, mail, pr, mergedBy>>
    BY <1>15 DEF RecordProcessed, Handles, Onward, Idle
  <2>2. \A k \in 1..njobs : Handled(k) => Handled(k)'
    BY <2>1 DEF Handled
  <2>3. Chain'
    BY <1>A, <1>B, <2>1, <2>2, ChainKept
  <2> QED BY <1>b, <2>1, <2>3 DEF Serving
<1>16. CASE RecordMerged
  <2>1. /\ hstep = "recordMerged"
        /\ \/ hasLine[hjob] /\ hstep' = "remove" /\ hjob' = hjob
           \/ hstep' = "idle"
        /\ UNCHANGED <<njobs, stage, hasLine, processed, posted, mail, pr, mergedBy>>
    BY <1>16 DEF RecordMerged, Handles, Onward, Idle
  <2>2. \A k \in 1..njobs : Handled(k) => Handled(k)'
    BY <2>1 DEF Handled
  <2>3. Chain'
    BY <1>A, <1>B, <2>1, <2>2, ChainKept
  <2> QED BY <1>b, <2>1, <2>3 DEF Serving
<1>17. CASE RemoveWorktree \/ DeleteBranch
  <2>1. /\ hstep \in {"remove", "branch"}
        /\ (hstep' \in {"branch", "cleaned", "cleanup_failed"} /\ hjob' = hjob) \/ hstep' = "idle"
        /\ UNCHANGED <<njobs, stage, hasLine, processed, posted, mail, pr, mergedBy>>
    BY <1>17 DEF RemoveWorktree, DeleteBranch, Handles, Onward, Idle
  <2>2. \A k \in 1..njobs : Handled(k) => Handled(k)'
    BY <2>1 DEF Handled
  <2>3. Chain'
    BY <1>A, <1>B, <2>1, <2>2, ChainKept
  <2> QED BY <1>b, <2>1, <2>3 DEF Serving
<1>18. CASE RecordCleanup
  <2>1. /\ hstep \in {"cleaned", "cleanup_failed"} /\ hstep' = "idle"
        /\ UNCHANGED <<njobs, stage, hasLine, processed, posted, mail, pr, mergedBy>>
    BY <1>18 DEF RecordCleanup, Handles, Idle
  <2>2. \A k \in 1..njobs : Handled(k) => Handled(k)'
    BY <2>1 DEF Handled
  <2>3. Chain'
    BY <1>A, <1>B, <2>1, <2>2, ChainKept
  <2> QED BY <1>c, <2>1, <2>3
<1>19. CASE Crash
  <2>1. /\ hstep' = "idle" /\ (hstep # "idle" => ~Calmly')
        /\ UNCHANGED <<njobs, stage, hasLine, processed, posted, mail, pr, mergedBy>>
    BY <1>19 DEF Crash, Idle, Calmly, TypeOK, HandlerType
  <2>2. Calmly' => \A k \in 1..njobs : Handled(k) => Handled(k)'
    BY <2>1 DEF Handled
  <2>3. Chain'
    <3>1. CASE Calmly'
      BY <1>A, <1>B, <2>1, <2>2, <3>1, ChainKept
    <3>2. CASE ~Calmly'
      BY <3>2 DEF Chain
    <3> QED BY <3>1, <3>2
  <2> QED BY <1>c, <2>1, <2>3
<1> QED BY <1>1, <1>2, <1>3, <1>4, <1>5, <1>6, <1>7, <1>8, <1>9, <1>10, <1>11, <1>12, <1>13, <1>14,
           <1>15, <1>16, <1>17, <1>18, <1>19 DEF Next

---------------------------------------------------------------------------
(***************************************************************************)
(* Worktree and branch.  Until a verdict of the line has merged, and from  *)
(* then on until the cleanup, both are as the agents left them.            *)
(***************************************************************************)
Intact == record.cleanup = "preserved" /\ (Recorded => tree /\ branch)

Told ==
  \/ record.cleanup = "cleaned" /\ ~tree /\ ~branch
  \/ record.cleanup = "cleanup_failed" /\ branch
  \/ record.cleanup = "preserved" /\ tree /\ branch /\ happened \cap {"error", "gitFailure"} # {}

\* The worker's part, and the handler's.
Working ==
  /\ pc \in {"record", "link", "wait"} /\ held.line => tree \/ cur = mergedBy
  /\ pc \in {"read", "write"} => tree
  /\ pc = "write" => read.cleanup = "preserved"

Cleaning ==
  /\ ~LineMerged => Intact
  /\ LineMerged =>
       /\ hstep \in {"merged", "recordMerged", "remove"} => Intact
       /\ hstep = "branch" => ~tree
       /\ hstep = "cleaned" => ~tree /\ ~branch
       /\ hstep = "cleanup_failed" => branch
       /\ hstep = "idle" => Told

Tended == (tree => branch) /\ (Calmly => Working /\ Cleaning)

\* When a verdict of the line has merged, no other job of the line is at work, nor will be.
LEMMA NoneAfterMerge ==
  ASSUME TypeOK, Links, InTurn, Serving, Chain, Calmly, LineMerged, cur # 0, LineJob(cur)
  PROVE  cur = mergedBy /\ ~Prepares(cur)
<1>1. cur \in 1..njobs /\ mergedBy \in posted /\ mergedBy \in 1..njobs /\ njobs \in Nat
  <2>1. njobs \in Nat
    BY ConstantsAssumption DEF TypeOK, RowType
  <2>2. mergedBy \in posted
    BY DEF Serving, LineMerged
  <2> QED BY <2>1, <2>2 DEF Links
<1>2. cur <= mergedBy
  BY <1>1 DEF Chain, LastLine, LineMerged
<1>3. Begun(mergedBy)
  BY <1>1 DEF InTurn, Begun
<1>4. ~(cur < mergedBy)
  BY <1>1, <1>3 DEF InTurn, Settled
<1>5. cur = mergedBy
  BY <1>1, <1>2, <1>4
<1> QED BY <1>5 DEF Serving, Prepares, LineMerged

\* A merge by the line stays one.
LEMMA LineMergedStays ==
  ASSUME Links, Serving, RowsGo, UNCHANGED <<pr, mergedBy>>
  PROVE  LineMerged' <=> LineMerged
<1> SUFFICES ASSUME pr = "merged" PROVE hasLine'[mergedBy] = hasLine[mergedBy]
  BY DEF LineMerged
<1>1. mergedBy \in 1..njobs /\ ~Prepares(mergedBy)
  BY DEF Serving, Links, Prepares
<1> QED BY <1>1 DEF RowsGo

\* A step that leaves worktree, branch, handler and pull request alone, and of the record
\* what it says of the cleanup.
LEMMA TendedKept ==
  ASSUME Links, Serving, Tended, RowsGo, Calmly' => Calmly, happened \subseteq happened',
         UNCHANGED <<tree, branch, hstep, pr, mergedBy>>,
         record'.cleanup = record.cleanup, Recorded' => Recorded,
         Calmly => Working'
  PROVE  Tended'
<1>1. LineMerged' <=> LineMerged
  BY LineMergedStays
<1>2. (Intact => Intact') /\ (Told => Told')
  BY DEF Intact, Told
<1>3. Cleaning => Cleaning'
  BY <1>1, <1>2 DEF Cleaning
<1> QED BY <1>3 DEF Tended

\* An update of the record that says nothing of the cleanup.
LEMMA CleanupKept ==
  ASSUME record \in Records, NEW line, NEW new \in Records, UpdateLine(line, new),
         new.cleanup = record.cleanup
  PROVE  record'.cleanup = record.cleanup /\ (Recorded' => Recorded)
BY DEF UpdateLine, UpdateRecord, Recorded

\* Every step keeps the line's worktree under its agents, and cleans up after its merge.
LEMMA TendedStep ==
  /\ TypeOK /\ Links /\ Memory /\ InTurn /\ Serving /\ Chain /\ Tended
  /\ [Next]_vars
  => Tended'
<1> SUFFICES ASSUME TypeOK, Links, Memory, InTurn, Serving, Chain, Tended, [Next]_vars PROVE Tended'
  OBVIOUS
<1>0. /\ njobs \in Nat /\ record \in Records /\ read \in Records
      /\ tree \in BOOLEAN /\ branch \in BOOLEAN /\ run \in 0..MaxRuns
      /\ cur # 0 => cur \in 1..njobs /\ held.line = hasLine[cur]
      /\ pc \in {"read", "write"} => Prepares(cur)
      /\ hjob # 0 => hjob \in 1..njobs
      /\ held \in [line : BOOLEAN, ids : SUBSET Runs]
  BY ConstantsAssumption DEF TypeOK, RowType, LineType, WorkerType, HandlerType, Links, Memory, AtWork
<1>00. /\ cur = 0 <=> pc \in {"idle", "down"}
       /\ hjob = 0 <=> hstep = "idle"
  BY DEF TypeOK, WorkerType, HandlerType
<1>A. RowsGo
  BY RowsGoOn
<1>B. (Calmly' => Calmly) /\ happened \subseteq happened'
  BY CalmBefore
<1>C. Calmly /\ cur # 0 /\ Prepares(cur) => ~LineMerged
  BY NoneAfterMerge DEF LineJob
<1>D. UNCHANGED <<pr, mergedBy>> => (LineMerged' <=> LineMerged)
  BY <1>A, LineMergedStays
<1>E. (tree => branch) /\ (Calmly => Working /\ Cleaning)
  BY DEF Tended
<1>F. \A j \in 1..njobs : hasLine[j] /\ ~Prepares(j) => Recorded
  BY DEF Memory, Rows
<1> USE DEF rowVars, recordVars, gitVars, workVars, agentVars, stepVars, handlerVars, githubVars
\* The worker.
<1>1. CASE Take \/ Skip \/ WaitEnds \/ EndRow
  <2>1. Working'
    BY <1>1 DEF Take, Skip, WaitEnds, EndRow, Working
  <2>2. UNCHANGED <<tree, branch, hstep, pr, mergedBy, record>>
    BY <1>1 DEF Take, Skip, WaitEnds, EndRow, At
  <2> QED BY <1>A, <1>B, <2>1, <2>2, TendedKept DEF Recorded
<1>2. CASE Prepare
  <2>1. /\ UNCHANGED <<hstep, pr, mergedBy, record, read>> /\ pc = "start" /\ Prepares(cur)
        /\ \/ pc' = "read" /\ tree' = TRUE /\ branch' = TRUE
           \/ pc' = "failed" /\ ~tree /\ branch' \in {branch, TRUE} /\ tree' = tree
    BY <1>2 DEF Prepare, At
  <2>2. Calmly => ~LineMerged'
    BY <1>00, <1>C, <1>D, <2>1
  <2>3. Calmly => Intact'
    BY <1>00, <1>C, <1>E, <2>1 DEF Cleaning, Intact, Recorded
  <2>4. Working'
    BY <2>1 DEF Working
  <2>5. tree' => branch'
    BY <2>1
  <2> QED BY <1>B, <2>2, <2>3, <2>4, <2>5 DEF Tended, Cleaning
<1>3. CASE ReadLine
  <2>1. /\ UNCHANGED <<tree, branch, hstep, pr, mergedBy, record>> /\ pc = "read" /\ pc' = "write"
        /\ read' = record
    BY <1>3 DEF ReadLine, At
  <2>2. Calmly => ~LineMerged
    BY <1>0, <1>00, <1>C, <2>1
  <2>3. Calmly => Working'
    BY <1>E, <2>1, <2>2 DEF Working, Cleaning, Intact
  <2> QED BY <1>A, <1>B, <2>1, <2>3, TendedKept DEF Recorded
<1>4. CASE WriteLine
  <2>1. /\ UNCHANGED <<tree, branch, hstep, pr, mergedBy>> /\ pc = "write" /\ pc' = "launch"
        /\ record' = [read EXCEPT !.status = "worktree_ready", !.ids = held.ids]
    BY <1>4 DEF WriteLine, UpsertRecord, At
  <2>2. Calmly => ~LineMerged'
    BY <1>0, <1>00, <1>C, <1>D, <2>1
  <2>3. record'.cleanup = read.cleanup
    BY <1>0, <2>1 DEF Records
  <2>4. Calmly => Intact'
    BY <1>E, <2>1, <2>3 DEF Working, Intact
  <2>5. Working'
    BY <2>1 DEF Working
  <2> QED BY <1>B, <1>E, <2>1, <2>2, <2>4, <2>5 DEF Tended, Cleaning
<1>5. CASE Launch
  <2>1. UNCHANGED <<tree, branch, hstep, pr, mergedBy, record>>
    BY <1>5 DEF Launch, At
  <2>2. Working'
    BY <1>5 DEF Launch, Working, At
  <2> QED BY <1>A, <1>B, <2>1, <2>2, TendedKept DEF Recorded
<1>6. CASE RecordRun
  <2> DEFINE new == [record EXCEPT !.status = "agent_running", !.retryable = TRUE, !.ids = @ \cup {run}]
  <2>1. UpdateLine(held.line, new)
    BY <1>6 DEF RecordRun
  <2>2. new \in Records /\ new.cleanup = record.cleanup
    <3>1. run \in Runs
      BY <1>6 DEF RecordRun, At, Links
    <3> QED BY <1>0, <3>1 DEF Records
  <2>3. record'.cleanup = record.cleanup /\ (Recorded' => Recorded)
    BY <1>0, <2>1, <2>2, CleanupKept
  <2>4. UNCHANGED <<tree, branch, hstep, pr, mergedBy, held, cur>> /\ pc = "record" /\ pc' = "link"
    BY <1>6 DEF RecordRun, At
  <2>5. Calmly => Working'
    BY <1>E, <2>4 DEF Working
  <2> QED BY <1>A, <1>B, <2>3, <2>4, <2>5, TendedKept
<1>7. CASE LinkRow
  <2>1. UNCHANGED <<tree, branch, hstep, pr, mergedBy, record, cur>> /\ pc = "link" /\ pc' = "wait"
        /\ held'.line = held.line
    BY <1>0, <1>7 DEF LinkRow, At
  <2>2. Calmly => Working'
    BY <1>E, <2>1 DEF Working
  <2> QED BY <1>A, <1>B, <2>1, <2>2, TendedKept DEF Recorded
<1>8. CASE EndLine
  <2>1. /\ UNCHANGED <<tree, branch, hstep, pr, mergedBy>> /\ pc' \in {"completedRow", "failedRow"}
        /\ \/ UpdateLine(held.line, [record EXCEPT !.status = "agent_completed"])
           \/ UpdateLine(held.line, [record EXCEPT !.status = "failed", !.retryable = TRUE])
    BY <1>8 DEF EndLine, At
  <2>2. /\ [record EXCEPT !.status = "agent_completed"] \in Records
        /\ [record EXCEPT !.status = "agent_completed"].cleanup = record.cleanup
        /\ [record EXCEPT !.status = "failed", !.retryable = TRUE] \in Records
        /\ [record EXCEPT !.status = "failed", !.retryable = TRUE].cleanup = record.cleanup
    BY <1>0 DEF Records
  <2>3. record'.cleanup = record.cleanup /\ (Recorded' => Recorded)
    BY <1>0, <2>1, <2>2, CleanupKept
  <2>4. Working'
    BY <2>1 DEF Working
  <2> QED BY <1>A, <1>B, <2>1, <2>3, <2>4, TendedKept
\* Somebody else, who leaves repository, record and worker alone.
<1>b. ASSUME UNCHANGED <<tree, branch, record, read, pc, held, cur, mergedBy>>,
             Calmly => \/ UNCHANGED <<hstep, pr>>
                       \/ ~LineMerged /\ ~LineMerged'
                       \/ pr' = pr /\ hstep' \in {"opened", "merge", "conflict", "resolve", "resolving"}
                       \/ pr' = pr /\ hstep = "merged" /\ hstep' = "recordMerged"
      PROVE  Tended'
  <2>1. Working => Working'
    BY <1>b DEF Working
  <2>2. (Intact => Intact') /\ (Told => Told')
    BY <1>b, <1>B DEF Intact, Told, Recorded
  <2>3. Calmly /\ Cleaning => Cleaning'
    BY <1>b, <1>D, <2>2 DEF Cleaning
  <2> QED BY <1>b, <1>B, <1>E, <2>1, <2>3 DEF Tended
<1>9. CASE Post \/ Redeliver \/ Approve \/ HandleComment \/ HandleConflictRequest
  <2>1. UNCHANGED <<tree, branch, record, read, pc, held, cur, mergedBy, hstep>>
    BY <1>9 DEF Post, Redeliver, Approve, HandleComment, HandleConflictRequest, Handles
  <2>2. pr' = pr \/ (pr = "none" /\ pr' = "open")
    BY <1>9 DEF Post, Redeliver, Approve, HandleComment, HandleConflictRequest
  <2> QED BY <1>b, <2>1, <2>2 DEF LineMerged
<1>10. CASE CompleteImplementation
  <2>1. /\ UNCHANGED <<tree, branch, record, read, pc, held, cur, mergedBy, pr>>
        /\ hstep' = "opened"
    BY <1>10 DEF CompleteImplementation, Handles
  <2> QED BY <1>b, <2>1
<1>11. CASE QueueReview
  <2>1. UNCHANGED <<tree, branch, record, read, pc, held, cur, mergedBy, pr>> /\ hstep = "opened"
    BY <1>11 DEF QueueReview, Handles
  <2>2. Handling /\ hjob \in 1..njobs
    BY <1>0, <1>00, <2>1 DEF Memory
  <2>3. Calmly => ~LineMerged
    BY <1>0, <2>1, <2>2, OpenedBefore
  <2> QED BY <1>b, <1>D, <2>1, <2>3
<1>12. CASE ReceiveVerdict \/ QueueResolution
  <2>1. UNCHANGED <<tree, branch, record, read, pc, held, cur, mergedBy, pr>>
    BY <1>12 DEF ReceiveVerdict, QueueResolution, Handles
  <2>2. hstep' \in {"merge", "resolving"} \/ UNCHANGED hstep
    BY <1>12 DEF ReceiveVerdict, QueueResolution, Onward
  <2> QED BY <1>b, <2>1, <2>2
<1>13. CASE Merge
  <2>1. /\ UNCHANGED <<tree, branch, record, read, pc, held, cur, hasLine>>
        /\ pr = "open" /\ mergedBy = 0 /\ hstep = "merge"
        /\ \/ pr' = "merged" /\ mergedBy' = hjob
              /\ (hstep' = "merged" \/ (hstep' = "idle" /\ "error" \in happened'))
           \/ UNCHANGED <<pr, mergedBy>>
    BY <1>13 DEF Merge, Handles, Onward, Idle, Happens, Serving
  <2>2. CASE /\ pr' = "merged" /\ mergedBy' = hjob
             /\ hstep' = "merged" \/ (hstep' = "idle" /\ "error" \in happened')
    <3>1. Calmly => Working'
      BY <1>00, <1>E, <2>1 DEF Working
    <3>2. Calmly => Intact /\ Intact'
      BY <1>E, <2>1 DEF Cleaning, Intact, LineMerged, Recorded
    <3>3. LineMerged' => Recorded
      <4>1. hjob \in 1..njobs /\ ~Prepares(hjob)
        BY <1>0, <1>00, <2>1 DEF Memory, Handling, Prepares
      <4> QED BY <1>F, <2>1, <2>2, <4>1 DEF LineMerged
    <3>4. Calmly => Cleaning'
      BY <2>1, <2>2, <3>2, <3>3 DEF Cleaning, Intact, Told
    <3> QED BY <1>B, <1>E, <2>1, <3>1, <3>4 DEF Tended
  <2>3. CASE UNCHANGED <<pr, mergedBy>>
    BY <1>b, <1>D, <2>1, <2>3 DEF LineMerged
  <2> QED BY <2>1, <2>2, <2>3
<1>14. CASE RecordConflict
  <2>1. /\ hstep = "conflict" /\ UNCHANGED <<tree, branch, read, pc, held, cur, mergedBy, pr>>
        /\ UpdateLine(hasLine[hjob], [record EXCEPT !.retryable = TRUE])
    BY <1>14 DEF RecordConflict, Handles
  <2>2. /\ [record EXCEPT !.retryable = TRUE] \in Records
        /\ [record EXCEPT !.retryable = TRUE].cleanup = record.cleanup
    BY <1>0 DEF Records
  <2>3. record'.cleanup = record.cleanup /\ (Recorded' => Recorded)
    BY <1>0, <2>1, <2>2, CleanupKept
  <2>4. ~LineMerged /\ ~LineMerged'
    BY <1>D, <2>1 DEF Serving, LineMerged
  <2>5. Working => Working'
    BY <2>1 DEF Working
  <2> QED BY <1>B, <1>E, <2>1, <2>3, <2>4, <2>5 DEF Tended, Cleaning, Intact
<1>15. CASE RecordProcessed
  <2>1. /\ UNCHANGED <<tree, branch, record, read, pc, held, cur, mergedBy, pr>>
        /\ hstep = "resolving" \/ (hstep = "merged" /\ hstep' = "recordMerged")
    BY <1>15 DEF RecordProcessed, Handles, Onward
  <2>2. hstep = "resolving" => ~LineMerged
    BY DEF Serving, LineMerged
  <2> QED BY <1>b, <1>D, <2>1, <2>2
<1>16. CASE RecordMerged
  <2>1. /\ hstep = "recordMerged" /\ UNCHANGED <<tree, branch, read, pc, held, cur, mergedBy, pr>>
        /\ IF hasLine[hjob] THEN hstep' = "remove" ELSE hstep' = "idle"
        /\ UpdateLine(hasLine[hjob], [record EXCEPT !.status = "merged", !.retryable = FALSE])
    BY <1>16 DEF RecordMerged, Handles, Onward, Idle
  <2>2. /\ [record EXCEPT !.status = "merged", !.retryable = FALSE] \in Records
        /\ [record EXCEPT !.status = "merged", !.retryable = FALSE].cleanup = record.cleanup
    BY <1>0 DEF Records
  <2>3. record'.cleanup = record.cleanup /\ (Recorded' => Recorded)
    BY <1>0, <2>1, <2>2, CleanupKept
  <2>4. Intact => Intact'
    BY <2>1, <2>3 DEF Intact
  <2>5. LineMerged <=> hasLine[hjob]
    BY <2>1 DEF Serving, LineMerged
  <2>6. Calmly => Cleaning'
    BY <1>D, <1>E, <2>1, <2>4, <2>5 DEF Cleaning
  <2>7. Working => Working'
    BY <2>1 DEF Working
  <2> QED BY <1>B, <1>E, <2>1, <2>6, <2>7 DEF Tended
<1>17. CASE RemoveWorktree
  <2>1. /\ hstep = "remove" /\ UNCHANGED <<branch, record, read, pc, held, cur, mergedBy, pr>>
        /\ \/ hstep' = "branch" /\ tree' = FALSE
           \/ hstep' = "idle" /\ tree' = tree /\ "gitFailure" \in happened'
           \/ hstep' = "cleanup_failed" /\ tree /\ tree' = tree
    BY <1>17 DEF RemoveWorktree, Handles, Onward, Idle, Happens
  <2>2. LineMerged /\ LineMerged' /\ mergedBy = hjob
    BY <1>D, <2>1 DEF Serving, LineMerged
  <2>3. Recorded
    <3>1. hjob \in 1..njobs /\ ~Prepares(hjob)
      BY <1>0, <1>00, <2>1 DEF Memory, Handling, Prepares
    <3> QED BY <1>F, <2>2, <3>1 DEF LineMerged
  <2>4. Calmly => record.cleanup = "preserved" /\ tree /\ branch
    BY <1>E, <2>1, <2>2, <2>3 DEF Cleaning, Intact
  <2>5. Calmly => Cleaning'
    <3>1. CASE hstep' = "branch" /\ tree' = FALSE
      BY <2>1, <2>2, <2>4, <3>1 DEF Cleaning
    <3>2. CASE hstep' = "idle" /\ tree' = tree /\ "gitFailure" \in happened'
      BY <2>1, <2>2, <2>4, <3>2 DEF Cleaning, Told
    <3>3. CASE hstep' = "cleanup_failed" /\ tree /\ tree' = tree
      BY <2>1, <2>2, <2>4, <3>3 DEF Cleaning
    <3> QED BY <2>1, <3>1, <3>2, <3>3
  <2>6. Calmly /\ cur # 0 /\ LineJob(cur) => cur = mergedBy /\ ~Prepares(cur)
    BY <2>2, NoneAfterMerge
  <2>7. Calmly => Working'
    <3>1. pc \in {"read", "write"} => ~Calmly
      BY <1>0, <1>00, <2>6 DEF LineJob
    <3>2. Calmly /\ pc \in {"record", "link", "wait"} /\ held.line => cur = mergedBy
      BY <1>0, <1>00, <2>6 DEF LineJob
    <3> QED BY <2>1, <3>1, <3>2 DEF Working
  <2> QED BY <1>B, <1>E, <2>1, <2>5, <2>7 DEF Tended
<1>18. CASE DeleteBranch
  <2>1. /\ hstep = "branch" /\ UNCHANGED <<tree, record, read, pc, held, cur, mergedBy, pr>>
        /\ \/ hstep' = "cleaned" /\ ~tree /\ branch' = FALSE
           \/ hstep' = "cleanup_failed" /\ (tree \/ branch) /\ branch' = branch
    BY <1>18 DEF DeleteBranch, Handles, Onward
  <2>2. LineMerged /\ LineMerged'
    BY <1>D, <2>1 DEF Serving, LineMerged
  <2>3. Cleaning'
    BY <1>E, <2>1, <2>2 DEF Cleaning
  <2>4. Working => Working'
    BY <2>1 DEF Working
  <2> QED BY <1>B, <1>E, <2>1, <2>3, <2>4 DEF Tended
<1>19. CASE RecordCleanup
  <2>1. /\ hstep \in {"cleaned", "cleanup_failed"} /\ hstep' = "idle"
        /\ UpdateLine(hasLine[hjob], [record EXCEPT !.cleanup = hstep])
        /\ UNCHANGED <<tree, branch, read, pc, held, cur, mergedBy, pr, hasLine>>
    BY <1>19 DEF RecordCleanup, Handles, Idle
  <2>2. LineMerged /\ LineMerged' /\ hasLine[hjob] /\ hjob \in 1..njobs /\ ~Prepares(hjob)
    BY <1>0, <1>00, <1>D, <2>1 DEF Serving, LineMerged, Prepares
  <2>3. record.status # "absent"
    BY <1>F, <2>2 DEF Recorded
  <2>4. record'.cleanup = hstep
    BY <1>0, <2>1, <2>2, <2>3 DEF UpdateLine, UpdateRecord, Records
  <2>5. Calmly => Cleaning'
    BY <1>E, <2>1, <2>2, <2>4 DEF Cleaning, Told
  <2>6. Working => Working'
    BY <2>1 DEF Working
  <2> QED BY <1>B, <1>E, <2>1, <2>5, <2>6 DEF Tended
<1>20. CASE Crash
  <2>1. /\ pc' = "down" /\ hstep' = "idle" /\ (hstep # "idle" => ~Calmly')
        /\ UNCHANGED <<tree, branch, record, mergedBy, pr, hasLine>>
    BY <1>20 DEF Crash, Idle, Calmly, TypeOK, HandlerType
  <2>2. Working'
    BY <2>1 DEF Working
  <2>3. (Intact => Intact') /\ (Told => Told')
    BY <2>1, <1>B DEF Intact, Told, Recorded
  <2>4. Calmly' => Cleaning'
    BY <1>B, <1>D, <1>E, <2>1, <2>3 DEF Cleaning
  <2> QED BY <1>E, <2>1, <2>2, <2>4 DEF Tended
<1>21. CASE Restart \/ UNCHANGED vars
  <2>1. UNCHANGED <<tree, branch, hstep, pr, mergedBy, record, read, held, cur>>
    BY <1>21 DEF Restart, vars
  <2>2. pc' = "idle" \/ pc' = pc
    BY <1>21 DEF Restart, vars
  <2>3. Working => Working'
    BY <2>1, <2>2 DEF Working
  <2> QED BY <1>A, <1>B, <1>E, <2>1, <2>3, TendedKept DEF Recorded
<1> QED BY <1>1, <1>2, <1>3, <1>4, <1>5, <1>6, <1>7, <1>8, <1>9, <1>10, <1>11, <1>12, <1>13, <1>14,
           <1>15, <1>16, <1>17, <1>18, <1>19, <1>20, <1>21 DEF Next

---------------------------------------------------------------------------
\* The line's invariant holds at the start and throughout.
LineInv == Inv /\ InTurn /\ Serving /\ Chain /\ Tended

\* The invariant of the two theorems below.
LEMMA LineInvariance == Spec => []LineInv
<1>1. Init => LineInv
  <2> SUFFICES ASSUME Init PROVE LineInv
    OBVIOUS
  <2>1. TypeOK /\ Links
    BY InitType
  <2>2. Len(queue) = 0 /\ Len(jobOf) = 0 /\ 1..0 = {}
    BY EmptySeq DEF Init
  <2>3. InTurn
    BY <2>2 DEF Init, InTurn, Up, Begun, Settled
  <2>4. Serving /\ Chain /\ Tended
    BY <2>2 DEF Init, Serving, Chain, Tended, Working, Cleaning, LineMerged, Intact, Recorded, NoRecord
  <2> QED BY <2>1, <2>3, <2>4, InitInv DEF LineInv
<1>2. LineInv /\ [Next]_vars => LineInv'
  <2> SUFFICES ASSUME LineInv, [Next]_vars PROVE LineInv'
    OBVIOUS
  <2>1. TypeOK /\ Links /\ Memory /\ InTurn /\ Serving /\ Chain /\ Tended
    BY DEF LineInv, Inv
  <2> QED BY <2>1, TypeStep, MemoryStep, TurnStep, ChainStep, TendedStep DEF LineInv, Inv
<1> QED BY <1>1, <1>2, PTL DEF Spec

\* While an agent of the line works its worktree is there, or its own verdict was carried out.
THEOREM AgentsKeepTree == Spec => []AgentsKeepTheirTree
<1>1. LineInv => AgentsKeepTheirTree
  BY DEF LineInv, Tended, Working, Calmly, AgentsKeepTheirTree
<1> QED BY <1>1, LineInvariance, PTL

\* What the record says of the cleanup after a merge by a verdict of the line is so.
THEOREM Cleaned == Spec => []MergedIsCleaned
<1>1. LineInv => MergedIsCleaned
  BY DEF LineInv, Tended, Cleaning, Told, LineMerged, Calmly, MergedIsCleaned
<1> QED BY <1>1, LineInvariance, PTL

============================================================================
