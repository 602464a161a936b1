--------------------------- MODULE DevSyncProofs ---------------------------
(***************************************************************************)
(* DevSync, proved for every number of commits, jobs and events: types,    *)
(* that a completed sync is on the remote, that nobody's commits are lost, *)
(* that a commit has one sync, and that nothing stays behind.              *)
(***************************************************************************)
EXTENDS DevSync, SequenceTheorems, TLAPS

---------------------------------------------------------------------------
(***************************************************************************)
(* Types.  Besides itself, TypeOK needs that rows are for commits, that    *)
(* the worker has a job while it is not idle, and at each step what that   *)
(* step uses: a base, a commit to push, an outcome to write.               *)
(***************************************************************************)
Ending == {"remove", "close", "row", "conflictRow"}

Held ==
  /\ \A j \in 1..njobs : sha[j] \in 1..top
  /\ orphans \subseteq 1..njobs
  /\ pc = "idle" <=> cur = 0
  /\ pc \in Ending => result \in Settled
  /\ pc \in {"prepare", "merge", "commit"} => base \in 1..top
  /\ pc = "push" => head \in 1..top

TypeInv == TypeOK /\ Held

\* At the start everything is typed.
LEMMA InitType == Init => TypeInv
<1> SUFFICES ASSUME Init PROVE TypeInv
  OBVIOUS
<1> USE ConstantsAssumption DEF Init
<1>1. RemoteType
  BY DEF RemoteType, Commits
<1>2. RowType
  BY DEF RowType, Jobs, Pending, Settled
<1>3. WorkerType
  <2>1. <<>> \in Seq(1..0)
    BY EmptySeq
  <2> QED BY <2>1 DEF WorkerType
<1>4. OtherType
  <2>1. todo \subseteq 1..njobs /\ events \in 0..MaxEvents
    OBVIOUS
  <2>2. crashed \in BOOLEAN
    BY Zenon
  <2> QED BY <2>1, <2>2 DEF OtherType
<1>5. Held
  BY DEF Held, Ending
<1> QED BY <1>1, <1>2, <1>3, <1>4, <1>5 DEF TypeInv, TypeOK

\* Commits are numbered on and the histories stay sets of commits.
CommitsStay ==
  /\ top' \in Commits /\ 1..top \subseteq 1..top' /\ 0..top \subseteq 0..top'
  /\ hist' \in [Commits -> SUBSET Commits]

\* A new commit is numbered after the others; its history is made of commits.
LEMMA NewCommitType ==
  ASSUME RemoteType, NEW ps \in SUBSET (1..top), NewCommit(ps)
  PROVE  CommitsStay /\ top' = top + 1 /\ top + 1 \in 1..top'
<1>1. top \in Nat /\ top >= 1 /\ top' = top + 1 /\ top < MaxCommits
  BY ConstantsAssumption DEF RemoteType, Commits, NewCommit
<1>2. top' \in Commits /\ 1..top \subseteq Commits
  BY <1>1, ConstantsAssumption DEF Commits
<1>3. UNION {hist[p] : p \in ps} \subseteq Commits
  BY <1>2 DEF RemoteType
<1>4. hist' \in [Commits -> SUBSET Commits]
  BY <1>1, <1>2, <1>3 DEF RemoteType, NewCommit
<1> QED BY <1>1, <1>2, <1>4 DEF CommitsStay

\* No new commit leaves the commits as they are.
LEMMA SameCommits ==
  ASSUME RemoteType, top' = top, hist' = hist
  PROVE  CommitsStay
  BY DEF RemoteType, CommitsStay

\* Every step of the worker, the rehydration, agents and other people keeps the types.
LEMMA StepType == TypeInv /\ [Next]_vars => TypeInv'
<1> SUFFICES ASSUME RemoteType, RowType, WorkerType, OtherType, Held, [Next]_vars
             PROVE  RemoteType' /\ RowType' /\ WorkerType' /\ OtherType' /\ Held'
  BY DEF TypeInv, TypeOK
<1>0. /\ top \in Nat /\ njobs \in Nat /\ dev \in 1..top /\ main \in 1..top
      /\ pc # "idle" => cur \in 1..njobs /\ cur \in Jobs
  BY ConstantsAssumption DEF RemoteType, RowType, WorkerType, Held, Commits, Jobs
<1> USE ConstantsAssumption, <1>0 DEF remoteVars, mailVars, rowVars, workVars, bootVars, noteVars
<1>1. CASE Take
  <2>a. /\ queue \in Seq(1..njobs) /\ queue # <<>>
        /\ Head(queue) \in 1..njobs /\ Tail(queue) \in Seq(1..njobs)
    BY <1>1, HeadTailProperties DEF Take, WorkerType
  <2>0. CommitsStay
    BY <1>1, SameCommits DEF Take, WorkerFrame, Go
  <2>1. RemoteType'
    BY <1>1, <2>0, <2>a DEF Take, WorkerFrame, Go, RemoteType, CommitsStay
  <2>2. RowType'
    BY <1>1, <2>0, <2>a DEF Take, WorkerFrame, Go, RowType, CommitsStay
  <2>3. WorkerType'
    BY <1>1, <2>0, <2>a DEF Take, WorkerFrame, Go, WorkerType, Settled, CommitsStay
  <2>4. OtherType'
    BY <1>1, <2>0, <2>a DEF Take, WorkerFrame, Go, OtherType
  <2>5. Held'
    BY <1>1, <2>0, <2>a DEF Take, WorkerFrame, Go, Held, WorkerType, Ending, Settled, CommitsStay
  <2> QED BY <2>1, <2>2, <2>3, <2>4, <2>5
<1>2. CASE Fetch
  <2>0. CommitsStay
    BY <1>2, SameCommits DEF Fetch, WorkerFrame, At, Go, End
  <2>1. RemoteType'
    BY <1>2, <2>0 DEF Fetch, WorkerFrame, At, Go, End, RemoteType, CommitsStay
  <2>2. RowType'
    BY <1>2, <2>0 DEF Fetch, WorkerFrame, At, Go, End, RowType, CommitsStay
  <2>3. WorkerType'
    BY <1>2, <2>0 DEF Fetch, WorkerFrame, At, Go, End, WorkerType, Settled, CommitsStay
  <2>4. OtherType'
    BY <1>2, <2>0 DEF Fetch, WorkerFrame, At, Go, End, OtherType
  <2>5. Held'
    BY <1>2, <2>0 DEF Fetch, WorkerFrame, At, Go, End, Held, WorkerType, Ending, Settled,
         CommitsStay
  <2> QED BY <2>1, <2>2, <2>3, <2>4, <2>5
<1>3. CASE Prepare
  <2>0. CommitsStay
    BY <1>3, SameCommits DEF Prepare, WorkerFrame, At, Go, End
  <2>1. RemoteType'
    BY <1>3, <2>0 DEF Prepare, WorkerFrame, At, Go, End, RemoteType, CommitsStay
  <2>2. RowType'
    BY <1>3, <2>0 DEF Prepare, WorkerFrame, At, Go, End, RowType, CommitsStay
  <2>3. WorkerType'
    BY <1>3, <2>0 DEF Prepare, WorkerFrame, At, Go, End, WorkerType, Settled, CommitsStay
  <2>4. OtherType'
    BY <1>3, <2>0 DEF Prepare, WorkerFrame, At, Go, End, OtherType
  <2>5. Held'
    BY <1>3, <2>0 DEF Prepare, WorkerFrame, At, Go, End, Held, WorkerType, Ending, Settled,
         CommitsStay
  <2> QED BY <2>1, <2>2, <2>3, <2>4, <2>5
<1>4. CASE Merge
  <2>0. CommitsStay
    BY <1>4, SameCommits DEF Merge, Abort, WorkerFrame, At, Go, End
  <2>1. RemoteType'
    BY <1>4, <2>0 DEF Merge, Abort, WorkerFrame, At, Go, End, RemoteType, CommitsStay
  <2>2. RowType'
    BY <1>4, <2>0 DEF Merge, Abort, WorkerFrame, At, Go, End, RowType, CommitsStay
  <2>3. WorkerType'
    BY <1>4, <2>0 DEF Merge, Abort, WorkerFrame, At, Go, End, WorkerType, Settled, CommitsStay
  <2>4. OtherType'
    BY <1>4, <2>0 DEF Merge, Abort, WorkerFrame, At, Go, End, OtherType
  <2>5. Held'
    BY <1>4, <2>0 DEF Merge, Abort, WorkerFrame, At, Go, End, Held, WorkerType, Ending, Settled,
         CommitsStay
  <2> QED BY <2>1, <2>2, <2>3, <2>4, <2>5
<1>5. CASE Commit
  <2>a. base \in 1..top /\ sha[cur] \in 1..top
    BY <1>5 DEF Commit, At, Held
  <2>b. \/ CommitsStay /\ top' = top + 1 /\ head' = top + 1 /\ top + 1 \in 1..top' /\ Go("push")
        \/ CommitsStay /\ top' = top /\ head' = head /\ Abort
    BY <1>5, <2>a, NewCommitType, SameCommits DEF Commit
  <2>0. CommitsStay
    BY <2>b
  <2>1. RemoteType'
    BY <1>5, <2>0, <2>b DEF Commit, Abort, WorkerFrame, At, Go, End, RemoteType, CommitsStay
  <2>2. RowType'
    BY <1>5, <2>0, <2>b DEF Commit, Abort, WorkerFrame, At, Go, End, RowType, CommitsStay
  <2>3. WorkerType'
    BY <1>5, <2>0, <2>b DEF Commit, Abort, WorkerFrame, At, Go, End, WorkerType, Settled,
         CommitsStay
  <2>4. OtherType'
    BY <1>5, <2>0, <2>b DEF Commit, Abort, WorkerFrame, At, Go, End, OtherType
  <2>5. Held'
    BY <1>5, <2>0, <2>b DEF Commit, Abort, WorkerFrame, At, Go, End, Held, WorkerType, Ending,
         Settled, CommitsStay
  <2> QED BY <2>1, <2>2, <2>3, <2>4, <2>5
<1>6. CASE Push
  <2>0. CommitsStay
    BY <1>6, SameCommits DEF Push, Abort, Held, WorkerFrame, At, Go, End
  <2>1. RemoteType'
    BY <1>6, <2>0 DEF Push, Abort, Held, WorkerFrame, At, Go, End, RemoteType, CommitsStay
  <2>2. RowType'
    BY <1>6, <2>0 DEF Push, Abort, Held, WorkerFrame, At, Go, End, RowType, CommitsStay
  <2>3. WorkerType'
    BY <1>6, <2>0 DEF Push, Abort, Held, WorkerFrame, At, Go, End, WorkerType, Settled, CommitsStay
  <2>4. OtherType'
    BY <1>6, <2>0 DEF Push, Abort, Held, WorkerFrame, At, Go, End, OtherType
  <2>5. Held'
    BY <1>6, <2>0 DEF Push, Abort, Held, WorkerFrame, At, Go, End, Held, WorkerType, Ending,
         Settled, CommitsStay
  <2> QED BY <2>1, <2>2, <2>3, <2>4, <2>5
<1>7. CASE VerifyPush
  <2>0. CommitsStay
    BY <1>7, SameCommits DEF VerifyPush, VerifyRemoteSync, Abort, WorkerFrame, At, Go, End
  <2>1. RemoteType'
    BY <1>7, <2>0 DEF VerifyPush, VerifyRemoteSync, Abort, WorkerFrame, At, Go, End, RemoteType,
         CommitsStay
  <2>2. RowType'
    BY <1>7, <2>0 DEF VerifyPush, VerifyRemoteSync, Abort, WorkerFrame, At, Go, End, RowType, CommitsStay
  <2>3. WorkerType'
    BY <1>7, <2>0 DEF VerifyPush, VerifyRemoteSync, Abort, WorkerFrame, At, Go, End, WorkerType,
         Settled, CommitsStay
  <2>4. OtherType'
    BY <1>7, <2>0 DEF VerifyPush, VerifyRemoteSync, Abort, WorkerFrame, At, Go, End, OtherType
  <2>5. Held'
    BY <1>7, <2>0 DEF VerifyPush, VerifyRemoteSync, Abort, WorkerFrame, At, Go, End, Held, WorkerType,
         Ending, Settled, CommitsStay
  <2> QED BY <2>1, <2>2, <2>3, <2>4, <2>5
<1>8. CASE Cleanup
  <2>0. CommitsStay
    BY <1>8, SameCommits DEF Cleanup, RemoveTree, WorkerFrame, At, Go, End
  <2>1. RemoteType'
    BY <1>8, <2>0 DEF Cleanup, RemoveTree, WorkerFrame, At, Go, End, RemoteType, CommitsStay
  <2>2. RowType'
    BY <1>8, <2>0 DEF Cleanup, RemoveTree, WorkerFrame, At, Go, End, RowType, CommitsStay
  <2>3. WorkerType'
    BY <1>8, <2>0 DEF Cleanup, RemoveTree, WorkerFrame, At, Go, End, WorkerType, Settled, CommitsStay
  <2>4. OtherType'
    BY <1>8, <2>0 DEF Cleanup, RemoveTree, WorkerFrame, At, Go, End, OtherType
  <2>5. Held'
    BY <1>8, <2>0 DEF Cleanup, RemoveTree, WorkerFrame, At, Go, End, Held, WorkerType, Ending, Settled,
         CommitsStay
  <2> QED BY <2>1, <2>2, <2>3, <2>4, <2>5
<1>9. CASE Launch
  <2>0. CommitsStay
    BY <1>9, SameCommits DEF Launch, Escape, WorkerFrame, At, Go, End
  <2>1. RemoteType'
    BY <1>9, <2>0 DEF Launch, Escape, WorkerFrame, At, Go, End, RemoteType, CommitsStay
  <2>2. RowType'
    BY <1>9, <2>0 DEF Launch, Escape, WorkerFrame, At, Go, End, RowType, CommitsStay
  <2>3. WorkerType'
    BY <1>9, <2>0 DEF Launch, Escape, WorkerFrame, At, Go, End, WorkerType, Settled, CommitsStay
  <2>4. OtherType'
    BY <1>9, <2>0 DEF Launch, Escape, WorkerFrame, At, Go, End, OtherType
  <2>5. Held'
    BY <1>9, <2>0 DEF Launch, Escape, WorkerFrame, At, Go, End, Held, WorkerType, Ending, Settled,
         CommitsStay
  <2> QED BY <2>1, <2>2, <2>3, <2>4, <2>5
<1>10. CASE CreateSession
  <2>0. CommitsStay
    BY <1>10, SameCommits DEF CreateSession, WorkerFrame, Go, Settled, Pending
  <2>1. RemoteType'
    BY <1>10, <2>0 DEF CreateSession, WorkerFrame, Go, Settled, Pending, RemoteType, CommitsStay
  <2>2. RowType'
    BY <1>10, <2>0 DEF CreateSession, WorkerFrame, Go, Settled, Pending, RowType, CommitsStay
  <2>3. WorkerType'
    BY <1>10, <2>0 DEF CreateSession, WorkerFrame, Go, Settled, Pending, WorkerType, Settled,
         CommitsStay
  <2>4. OtherType'
    BY <1>10, <2>0 DEF CreateSession, WorkerFrame, Go, Settled, Pending, OtherType
  <2>5. Held'
    BY <1>10, <2>0 DEF CreateSession, WorkerFrame, Go, Settled, Pending, Held, WorkerType,
         Ending, Settled, CommitsStay
  <2> QED BY <2>1, <2>2, <2>3, <2>4, <2>5
<1>11. CASE LinkSession
  <2>0. CommitsStay
    BY <1>11, SameCommits DEF LinkSession, WorkerFrame, Go, Pending
  <2>1. RemoteType'
    BY <1>11, <2>0 DEF LinkSession, WorkerFrame, Go, Pending, RemoteType, CommitsStay
  <2>2. RowType'
    BY <1>11, <2>0 DEF LinkSession, WorkerFrame, Go, Pending, RowType, CommitsStay
  <2>3. WorkerType'
    BY <1>11, <2>0 DEF LinkSession, WorkerFrame, Go, Pending, WorkerType, Settled, CommitsStay
  <2>4. OtherType'
    BY <1>11, <2>0 DEF LinkSession, WorkerFrame, Go, Pending, OtherType
  <2>5. Held'
    BY <1>11, <2>0 DEF LinkSession, WorkerFrame, Go, Pending, Held, WorkerType, Ending, Settled,
         CommitsStay
  <2> QED BY <2>1, <2>2, <2>3, <2>4, <2>5
<1>12. CASE WaitEnds
  <2>0. CommitsStay
    BY <1>12, SameCommits DEF WaitEnds, Escape, WorkerFrame, At, Go, End
  <2>1. RemoteType'
    BY <1>12, <2>0 DEF WaitEnds, Escape, WorkerFrame, At, Go, End, RemoteType, CommitsStay
  <2>2. RowType'
    BY <1>12, <2>0 DEF WaitEnds, Escape, WorkerFrame, At, Go, End, RowType, CommitsStay
  <2>3. WorkerType'
    BY <1>12, <2>0 DEF WaitEnds, Escape, WorkerFrame, At, Go, End, WorkerType, Settled, CommitsStay
  <2>4. OtherType'
    BY <1>12, <2>0 DEF WaitEnds, Escape, WorkerFrame, At, Go, End, OtherType
  <2>5. Held'
    BY <1>12, <2>0 DEF WaitEnds, Escape, WorkerFrame, At, Go, End, Held, WorkerType, Ending, Settled,
         CommitsStay
  <2> QED BY <2>1, <2>2, <2>3, <2>4, <2>5
<1>13. CASE VerifyAgent
  <2>0. CommitsStay
    BY <1>13, SameCommits DEF VerifyAgent, Escape, VerifyRemoteSync, WorkerFrame, At, Go, End
  <2>1. RemoteType'
    BY <1>13, <2>0 DEF VerifyAgent, Escape, VerifyRemoteSync, WorkerFrame, At, Go, End, RemoteType,
         CommitsStay
  <2>2. RowType'
    BY <1>13, <2>0 DEF VerifyAgent, Escape, VerifyRemoteSync, WorkerFrame, At, Go, End, RowType, CommitsStay
  <2>3. WorkerType'
    BY <1>13, <2>0 DEF VerifyAgent, Escape, VerifyRemoteSync, WorkerFrame, At, Go, End, WorkerType,
         Settled, CommitsStay
  <2>4. OtherType'
    BY <1>13, <2>0 DEF VerifyAgent, Escape, VerifyRemoteSync, WorkerFrame, At, Go, End, OtherType
  <2>5. Held'
    BY <1>13, <2>0 DEF VerifyAgent, Escape, VerifyRemoteSync, WorkerFrame, At, Go, End, Held, WorkerType,
         Ending, Settled, CommitsStay
  <2> QED BY <2>1, <2>2, <2>3, <2>4, <2>5
<1>14. CASE FinalizeSession
  <2>0. CommitsStay
    BY <1>14, SameCommits DEF FinalizeSession, Escape, WorkerFrame, Go, End, Held, Ending, Settled
  <2>1. RemoteType'
    BY <1>14, <2>0 DEF FinalizeSession, Escape, WorkerFrame, Go, End, Held, Ending, Settled, RemoteType,
         CommitsStay
  <2>2. RowType'
    BY <1>14, <2>0 DEF FinalizeSession, Escape, WorkerFrame, Go, End, Held, Ending, Settled, RowType,
         CommitsStay
  <2>3. WorkerType'
    BY <1>14, <2>0 DEF FinalizeSession, Escape, WorkerFrame, Go, End, Held, Ending, Settled, WorkerType,
         Settled, CommitsStay
  <2>4. OtherType'
    BY <1>14, <2>0 DEF FinalizeSession, Escape, WorkerFrame, Go, End, Held, Ending, Settled, OtherType
  <2>5. Held'
    BY <1>14, <2>0 DEF FinalizeSession, Escape, WorkerFrame, Go, End, Held, Ending, Settled, Held,
         WorkerType, Ending, Settled, CommitsStay
  <2> QED BY <2>1, <2>2, <2>3, <2>4, <2>5
<1>15. CASE WriteRow
  <2>0. CommitsStay
    BY <1>15, SameCommits DEF WriteRow, WorkerFrame, Go, Done, Held, Ending, Settled
  <2>1. RemoteType'
    BY <1>15, <2>0 DEF WriteRow, WorkerFrame, Go, Done, Held, Ending, Settled, RemoteType,
         CommitsStay
  <2>2. RowType'
    BY <1>15, <2>0 DEF WriteRow, WorkerFrame, Go, Done, Held, Ending, Settled, RowType, CommitsStay
  <2>3. WorkerType'
    BY <1>15, <2>0 DEF WriteRow, WorkerFrame, Go, Done, Held, Ending, Settled, WorkerType,
         Settled, CommitsStay
  <2>4. OtherType'
    BY <1>15, <2>0 DEF WriteRow, WorkerFrame, Go, Done, Held, Ending, Settled, OtherType
  <2>5. Held'
    BY <1>15, <2>0 DEF WriteRow, WorkerFrame, Go, Done, Held, Ending, Settled, Held, WorkerType,
         Ending, Settled, CommitsStay
  <2> QED BY <2>1, <2>2, <2>3, <2>4, <2>5
<1>16. CASE CleanupLast
  <2>0. CommitsStay
    BY <1>16, SameCommits DEF CleanupLast, RemoveTree, WorkerFrame, Go, Done
  <2>1. RemoteType'
    BY <1>16, <2>0 DEF CleanupLast, RemoveTree, WorkerFrame, Go, Done, RemoteType, CommitsStay
  <2>2. RowType'
    BY <1>16, <2>0 DEF CleanupLast, RemoveTree, WorkerFrame, Go, Done, RowType, CommitsStay
  <2>3. WorkerType'
    BY <1>16, <2>0 DEF CleanupLast, RemoveTree, WorkerFrame, Go, Done, WorkerType, Settled, CommitsStay
  <2>4. OtherType'
    BY <1>16, <2>0 DEF CleanupLast, RemoveTree, WorkerFrame, Go, Done, OtherType
  <2>5. Held'
    BY <1>16, <2>0 DEF CleanupLast, RemoveTree, WorkerFrame, Go, Done, Held, WorkerType, Ending, Settled,
         CommitsStay
  <2> QED BY <2>1, <2>2, <2>3, <2>4, <2>5
<1>17. CASE BootStart
  <2>0. CommitsStay
    BY <1>17, SameCommits DEF BootStart, BootFrame
  <2>1. RemoteType'
    BY <1>17, <2>0 DEF BootStart, BootFrame, RemoteType, CommitsStay
  <2>2. RowType'
    BY <1>17, <2>0 DEF BootStart, BootFrame, RowType, CommitsStay
  <2>3. WorkerType'
    BY <1>17, <2>0 DEF BootStart, BootFrame, WorkerType, Settled, CommitsStay
  <2>4. OtherType'
    BY <1>17, <2>0 DEF BootStart, BootFrame, OtherType
  <2>5. Held'
    BY <1>17, <2>0 DEF BootStart, BootFrame, Held, WorkerType, Ending, Settled, CommitsStay
  <2> QED BY <2>1, <2>2, <2>3, <2>4, <2>5
<1>18. CASE BootRow
  <2>a. PICK j \in todo :
          /\ status' = [status EXCEPT ![j] = "queued"]
          /\ session' = IF status[j] = "launched" THEN [session EXCEPT ![j] = "failed"] ELSE session
          /\ queue' = Append(queue, j) /\ todo' = todo \ {j}
    BY <1>18 DEF BootRow
  <2>b. j \in 1..njobs /\ Append(queue, j) \in Seq(1..njobs)
    BY AppendProperties DEF OtherType, WorkerType
  <2>0. CommitsStay
    BY <1>18, SameCommits DEF BootRow, BootFrame, Pending, Settled
  <2>1. RemoteType'
    BY <1>18, <2>0, <2>a, <2>b DEF BootRow, BootFrame, Pending, Settled, RemoteType, CommitsStay
  <2>2. RowType'
    BY <1>18, <2>0, <2>a, <2>b DEF BootRow, BootFrame, Pending, Settled, RowType, CommitsStay
  <2>3. WorkerType'
    BY <1>18, <2>0, <2>a, <2>b DEF BootRow, BootFrame, Pending, Settled, WorkerType, Settled,
         CommitsStay
  <2>4. OtherType'
    BY <1>18, <2>0, <2>a, <2>b DEF BootRow, BootFrame, Pending, Settled, OtherType
  <2>5. Held'
    BY <1>18, <2>0, <2>a, <2>b DEF BootRow, BootFrame, Pending, Settled, Held, WorkerType,
         Ending, Settled, CommitsStay
  <2> QED BY <2>1, <2>2, <2>3, <2>4, <2>5
<1>19. CASE BootSweep
  <2>0. CommitsStay
    BY <1>19, SameCommits DEF BootSweep, BootFrame, Settled
  <2>1. RemoteType'
    BY <1>19, <2>0 DEF BootSweep, BootFrame, Settled, RemoteType, CommitsStay
  <2>2. RowType'
    BY <1>19, <2>0 DEF BootSweep, BootFrame, Settled, RowType, CommitsStay
  <2>3. WorkerType'
    BY <1>19, <2>0 DEF BootSweep, BootFrame, Settled, WorkerType, Settled, CommitsStay
  <2>4. OtherType'
    BY <1>19, <2>0 DEF BootSweep, BootFrame, Settled, OtherType
  <2>5. Held'
    BY <1>19, <2>0 DEF BootSweep, BootFrame, Settled, Held, WorkerType, Ending, Settled, CommitsStay
  <2> QED BY <2>1, <2>2, <2>3, <2>4, <2>5
<1>20. CASE Crash
  <2>a. <<>> \in Seq(1..njobs) /\ 1..njobs \subseteq Jobs
    BY EmptySeq DEF RowType, Jobs
  <2>0. CommitsStay
    BY <1>20, SameCommits DEF Crash, Done, Event, AgentRuns, Up
  <2>1. RemoteType'
    BY <1>20, <2>0, <2>a DEF Crash, Done, Event, AgentRuns, Up, RemoteType, CommitsStay
  <2>2. RowType'
    BY <1>20, <2>0, <2>a DEF Crash, Done, Event, AgentRuns, Up, RowType, CommitsStay
  <2>3. WorkerType'
    BY <1>20, <2>0, <2>a DEF Crash, Done, Event, AgentRuns, Up, WorkerType, Settled, CommitsStay
  <2>4. OtherType'
    BY <1>20, <2>0, <2>a DEF Crash, Done, Event, AgentRuns, Up, OtherType
  <2>5. Held'
    BY <1>20, <2>0, <2>a DEF Crash, Done, Event, AgentRuns, Up, Held, WorkerType, Ending,
         Settled, CommitsStay
  <2> QED BY <2>1, <2>2, <2>3, <2>4, <2>5
<1>21. CASE MainMoves
  <2>a. \/ NewCommit({main}) \/ NewCommit({main, dev})
    BY <1>21 DEF MainMoves
  <2>0. CommitsStay /\ top' = top + 1 /\ top + 1 \in 1..top'
    BY <2>a, NewCommitType
  <2>1. RemoteType'
    BY <1>21, <2>0 DEF MainMoves, OutsideFrame, Event, RemoteType, CommitsStay
  <2>2. RowType'
    BY <1>21, <2>0 DEF MainMoves, OutsideFrame, Event, RowType, CommitsStay
  <2>3. WorkerType'
    BY <1>21, <2>0 DEF MainMoves, OutsideFrame, Event, WorkerType, Settled, CommitsStay
  <2>4. OtherType'
    BY <1>21, <2>0 DEF MainMoves, OutsideFrame, Event, OtherType
  <2>5. Held'
    BY <1>21, <2>0 DEF MainMoves, OutsideFrame, Event, Held, WorkerType, Ending, Settled,
         CommitsStay
  <2> QED BY <2>1, <2>2, <2>3, <2>4, <2>5
<1>22. CASE DevMoves
  <2>0. CommitsStay /\ top' = top + 1 /\ top + 1 \in 1..top'
    BY <1>22, NewCommitType DEF DevMoves
  <2>1. RemoteType'
    BY <1>22, <2>0 DEF DevMoves, OutsideFrame, Event, RemoteType, CommitsStay
  <2>2. RowType'
    BY <1>22, <2>0 DEF DevMoves, OutsideFrame, Event, RowType, CommitsStay
  <2>3. WorkerType'
    BY <1>22, <2>0 DEF DevMoves, OutsideFrame, Event, WorkerType, Settled, CommitsStay
  <2>4. OtherType'
    BY <1>22, <2>0 DEF DevMoves, OutsideFrame, Event, OtherType
  <2>5. Held'
    BY <1>22, <2>0 DEF DevMoves, OutsideFrame, Event, Held, WorkerType, Ending, Settled, CommitsStay
  <2> QED BY <2>1, <2>2, <2>3, <2>4, <2>5
<1>23. CASE \E c \in Commits : QueueDevSync(c)
  <2>a. PICK c \in Commits : QueueDevSync(c)
    BY <1>23
  <2>c. /\ queue \in Seq(1..(njobs + 1)) /\ Append(queue, njobs + 1) \in Seq(1..(njobs + 1))
        /\ 1..njobs \subseteq 1..(njobs + 1)
    <3>1. 1..njobs \subseteq 1..(njobs + 1) /\ njobs + 1 \in 1..(njobs + 1)
      OBVIOUS
    <3>2. queue \in Seq(1..(njobs + 1))
      BY <3>1, SeqMonotonic DEF WorkerType
    <3> QED BY <3>1, <3>2, AppendProperties
  <2>d. c \in 1..top
    BY <2>a DEF QueueDevSync, RemoteType
  <2>e. \/ UNCHANGED <<njobs, sha, status, queue>>
        \/ /\ njobs < MaxJobs /\ njobs' = njobs + 1 /\ njobs + 1 \in Jobs
           /\ sha' = [sha EXCEPT ![njobs + 1] = c]
           /\ status' = [status EXCEPT ![njobs + 1] = "queued"]
           /\ queue' = Append(queue, njobs + 1)
    BY <2>a DEF QueueDevSync, Jobs
  <2>0. CommitsStay
    BY <2>a, SameCommits DEF QueueDevSync
  <2>1. RemoteType' /\ OtherType'
    BY <2>0, <2>a, <2>c, <2>e DEF QueueDevSync, RemoteType, OtherType, CommitsStay
  <2>2. /\ UNCHANGED <<session, top, orphans, pc, cur, result, base, head>>
    BY <2>a DEF QueueDevSync
  <2>3. CASE UNCHANGED <<njobs, sha, status, queue>>
    BY <2>1, <2>2, <2>3 DEF RowType, WorkerType, Held
  <2>4. CASE /\ njobs' = njobs + 1 /\ njobs + 1 \in Jobs
             /\ sha' = [sha EXCEPT ![njobs + 1] = c]
             /\ status' = [status EXCEPT ![njobs + 1] = "queued"]
             /\ queue' = Append(queue, njobs + 1)
    <3>1. RowType'
      BY <2>2, <2>4, <2>d DEF RowType, Jobs, Pending
    <3>2. WorkerType'
      BY <2>2, <2>4, <2>c DEF WorkerType
    <3>3. \A j \in 1..njobs' : sha'[j] \in 1..top
      BY <2>4, <2>d DEF Held, RowType
    <3>4. Held'
      BY <2>2, <2>4, <2>c, <3>3 DEF Held
    <3> QED BY <2>1, <3>1, <3>2, <3>4
  <2> QED BY <2>3, <2>4, <2>e
<1>24. CASE \E c \in Commits : LoseEvent(c)
  <2>0. CommitsStay
    BY <1>24, SameCommits DEF LoseEvent, OutsideFrame
  <2>1. RemoteType'
    BY <1>24, <2>0 DEF LoseEvent, OutsideFrame, RemoteType, CommitsStay
  <2>2. RowType'
    BY <1>24, <2>0 DEF LoseEvent, OutsideFrame, RowType, CommitsStay
  <2>3. WorkerType'
    BY <1>24, <2>0 DEF LoseEvent, OutsideFrame, WorkerType, Settled, CommitsStay
  <2>4. OtherType'
    BY <1>24, <2>0 DEF LoseEvent, OutsideFrame, OtherType
  <2>5. Held'
    BY <1>24, <2>0 DEF LoseEvent, OutsideFrame, Held, WorkerType, Ending, Settled, CommitsStay
  <2> QED BY <2>1, <2>2, <2>3, <2>4, <2>5
<1>25. CASE \E c \in Commits : Redeliver(c)
  <2>0. CommitsStay
    BY <1>25, SameCommits DEF Redeliver, OutsideFrame, Event
  <2>1. RemoteType'
    BY <1>25, <2>0 DEF Redeliver, OutsideFrame, Event, RemoteType, CommitsStay
  <2>2. RowType'
    BY <1>25, <2>0 DEF Redeliver, OutsideFrame, Event, RowType, CommitsStay
  <2>3. WorkerType'
    BY <1>25, <2>0 DEF Redeliver, OutsideFrame, Event, WorkerType, Settled, CommitsStay
  <2>4. OtherType'
    BY <1>25, <2>0 DEF Redeliver, OutsideFrame, Event, OtherType
  <2>5. Held'
    BY <1>25, <2>0 DEF Redeliver, OutsideFrame, Event, Held, WorkerType, Ending, Settled,
         CommitsStay
  <2> QED BY <2>1, <2>2, <2>3, <2>4, <2>5
<1>26. CASE \E j \in Jobs : AgentPushes(j)
  <2>a. PICK j \in Jobs : AgentPushes(j)
    BY <1>26
  <2>b. j \in 1..njobs
    BY <2>a DEF AgentPushes, AgentRuns, Held
  <2>0. CommitsStay /\ top' = top + 1 /\ top + 1 \in 1..top'
    BY <2>a, <2>b, NewCommitType DEF AgentPushes, Held
  <2>1. RemoteType'
    BY <1>26, <2>0, <2>a DEF AgentPushes, OutsideFrame, RemoteType, CommitsStay
  <2>2. RowType'
    BY <1>26, <2>0, <2>a DEF AgentPushes, OutsideFrame, RowType, CommitsStay
  <2>3. WorkerType'
    BY <1>26, <2>0, <2>a DEF AgentPushes, OutsideFrame, WorkerType, Settled, CommitsStay
  <2>4. OtherType'
    BY <1>26, <2>0, <2>a DEF AgentPushes, OutsideFrame, OtherType
  <2>5. Held'
    BY <1>26, <2>0, <2>a DEF AgentPushes, OutsideFrame, Held, WorkerType, Ending, Settled,
         CommitsStay
  <2> QED BY <2>1, <2>2, <2>3, <2>4, <2>5
<1>27. CASE \E j \in Jobs : OrphanExits(j)
  <2>0. CommitsStay
    BY <1>27, SameCommits DEF OrphanExits, OutsideFrame
  <2>1. RemoteType'
    BY <1>27, <2>0 DEF OrphanExits, OutsideFrame, RemoteType, CommitsStay
  <2>2. RowType'
    BY <1>27, <2>0 DEF OrphanExits, OutsideFrame, RowType, CommitsStay
  <2>3. WorkerType'
    BY <1>27, <2>0 DEF OrphanExits, OutsideFrame, WorkerType, Settled, CommitsStay
  <2>4. OtherType'
    BY <1>27, <2>0 DEF OrphanExits, OutsideFrame, OtherType
  <2>5. Held'
    BY <1>27, <2>0 DEF OrphanExits, OutsideFrame, Held, WorkerType, Ending, Settled, CommitsStay
  <2> QED BY <2>1, <2>2, <2>3, <2>4, <2>5
<1>28. CASE UNCHANGED vars
  <2>0. CommitsStay
    BY <1>28, SameCommits DEF vars
  <2>1. RemoteType'
    BY <1>28, <2>0 DEF vars, RemoteType, CommitsStay
  <2>2. RowType'
    BY <1>28, <2>0 DEF vars, RowType, CommitsStay
  <2>3. WorkerType'
    BY <1>28, <2>0 DEF vars, WorkerType, Settled, CommitsStay
  <2>4. OtherType'
    BY <1>28, <2>0 DEF vars, OtherType
  <2>5. Held'
    BY <1>28, <2>0 DEF vars, Held, WorkerType, Ending, Settled, CommitsStay
  <2> QED BY <2>1, <2>2, <2>3, <2>4, <2>5
<1> QED
  BY <1>1, <1>2, <1>3, <1>4, <1>5, <1>6, <1>7, <1>8, <1>9, <1>10, <1>11, <1>12, <1>13, <1>14,
       <1>15, <1>16, <1>17, <1>18, <1>19, <1>20, <1>21, <1>22, <1>23, <1>24, <1>25, <1>26, <1>27,
            <1>28 DEF Next, WorkerStep, BootStep

---------------------------------------------------------------------------
(***************************************************************************)
(* Histories.  A commit reaches itself and whatever its ancestors reach.   *)
(***************************************************************************)
Histories ==
  /\ \A c \in 1..top : c \in hist[c] /\ hist[c] \subseteq 1..top
  /\ \A b \in 1..top : \A a \in hist[b] : hist[a] \subseteq hist[b]

\* A step moves dev forward, and only adds commits.
Forward ==
  /\ \A c \in 1..top : hist'[c] = hist[c]
  /\ hist[dev] \subseteq hist'[dev']

\* A new commit reaches what its parents reach, and leaves the other histories alone.
LEMMA NewCommitHistory ==
  ASSUME RemoteType, Histories, NEW ps \in SUBSET (1..top), NewCommit(ps)
  PROVE  /\ Histories' /\ \A c \in 1..top : hist'[c] = hist[c]
         /\ \A p \in ps : hist[p] \subseteq hist'[top + 1]
<1>1. /\ top \in Nat /\ top' = top + 1 /\ top + 1 \in Commits
      /\ \A c \in 1..top' : c \in 1..top \/ c = top + 1
      /\ \A c \in 1..top : c \in Commits /\ c # top + 1
      /\ 1..top \subseteq 1..top' /\ top + 1 \in 1..top'
  BY ConstantsAssumption DEF RemoteType, Commits, NewCommit
<1>2. \A c \in 1..top : hist'[c] = hist[c]
  BY <1>1 DEF RemoteType, NewCommit
<1>3. hist'[top + 1] = {top + 1} \cup UNION {hist[p] : p \in ps}
  BY <1>1 DEF RemoteType, NewCommit
<1>4. UNION {hist[p] : p \in ps} \subseteq 1..top
  BY DEF Histories
<1>5. \A c \in 1..top' : c \in hist'[c] /\ hist'[c] \subseteq 1..top'
  BY <1>1, <1>2, <1>3, <1>4 DEF Histories
<1>6. ASSUME NEW b \in 1..top', NEW a \in hist'[b] PROVE hist'[a] \subseteq hist'[b]
  <2>1. CASE b \in 1..top
    BY <1>2, <1>6, <2>1 DEF Histories
  <2>2. CASE b = top + 1 /\ a = top + 1
    BY <2>2
  <2>3. CASE b = top + 1 /\ a # top + 1
    <3>1. PICK p \in ps : a \in hist[p]
      BY <1>3, <1>6, <2>3
    <3>2. hist[a] \subseteq hist[p] /\ a \in 1..top
      BY <3>1 DEF Histories
    <3> QED BY <1>2, <1>3, <2>3, <3>1, <3>2
  <2> QED BY <1>1, <2>1, <2>2, <2>3
<1>7. \A p \in ps : hist[p] \subseteq hist'[top + 1]
  BY <1>3
<1> QED BY <1>2, <1>5, <1>6, <1>7 DEF Histories

\* Every step keeps histories closed, and what dev reached it still reaches.
LEMMA HistoryStep == TypeInv /\ Histories /\ [Next]_vars => Histories' /\ Forward
<1> SUFFICES ASSUME RemoteType, WorkerType, Held, Histories, [Next]_vars
             PROVE  Histories' /\ Forward
  BY DEF TypeInv, TypeOK
<1>0. /\ top \in Nat /\ dev \in 1..top /\ main \in 1..top
      /\ pc # "idle" => cur \in 1..njobs /\ sha[cur] \in 1..top
  BY ConstantsAssumption DEF RemoteType, WorkerType, Held, Commits
<1>A. ASSUME top' = top, hist' = hist, dev' = dev
      PROVE  Histories' /\ Forward
  BY <1>A DEF Histories, Forward
<1>1. CASE Commit
  <2>1. dev' = dev /\ base \in 1..top /\ {base, sha[cur]} \subseteq 1..top
    BY <1>0, <1>1 DEF Commit, At, Held
  <2>2. CASE NewCommit({base, sha[cur]})
    BY <1>0, <2>1, <2>2, NewCommitHistory DEF Forward
  <2>3. CASE UNCHANGED <<top, hist>>
    BY <1>A, <2>1, <2>3
  <2> QED BY <1>1, <2>2, <2>3 DEF Commit
<1>2. CASE Push
  <2>1. top' = top /\ hist' = hist /\ head \in 1..top
    BY <1>2 DEF Push, At, Held
  <2>2. dev' = dev \/ (dev \in hist[head] /\ dev' = head)
    BY <1>2 DEF Push
  <2> QED BY <1>A, <2>1, <2>2 DEF Histories, Forward
<1>3. CASE \E j \in Jobs : AgentPushes(j)
  <2>1. PICK j \in Jobs : AgentPushes(j)
    BY <1>3
  <2>2. {dev, sha[j]} \subseteq 1..top
    BY <1>0, <2>1 DEF AgentPushes, AgentRuns, Held
  <2>3. NewCommit({dev, sha[j]}) /\ dev' = top + 1
    BY <2>1 DEF AgentPushes
  <2> QED BY <2>2, <2>3, NewCommitHistory DEF Forward
<1>4. CASE MainMoves
  <2>1. (NewCommit({main}) \/ NewCommit({main, dev})) /\ dev' = dev
    BY <1>4 DEF MainMoves
  <2> QED BY <1>0, <2>1, NewCommitHistory DEF Forward
<1>5. CASE DevMoves
  <2>1. NewCommit({dev}) /\ dev' = top + 1
    BY <1>5 DEF DevMoves
  <2> QED BY <1>0, <2>1, NewCommitHistory DEF Forward
<1>6. CASE Take \/ Fetch \/ Prepare \/ Merge \/ VerifyPush \/ Cleanup \/ Launch \/ CreateSession
           \/ LinkSession \/ WaitEnds \/ VerifyAgent \/ FinalizeSession \/ WriteRow \/ CleanupLast
  BY <1>A, <1>6 DEF Take, Fetch, Prepare, Merge, VerifyPush, Cleanup, Launch, CreateSession,
     LinkSession, WaitEnds, VerifyAgent, FinalizeSession, WriteRow, CleanupLast
<1>7. CASE BootStep \/ Crash \/ UNCHANGED vars
  BY <1>A, <1>7 DEF BootStep, BootStart, BootRow, BootSweep, BootFrame, Crash, vars, remoteVars
<1>8. CASE \E c \in Commits : QueueDevSync(c) \/ LoseEvent(c) \/ Redeliver(c)
  BY <1>A, <1>8 DEF QueueDevSync, LoseEvent, Redeliver, remoteVars
<1>9. CASE \E j \in Jobs : OrphanExits(j)
  BY <1>A, <1>9 DEF OrphanExits, remoteVars
<1> QED BY <1>1, <1>2, <1>3, <1>4, <1>5, <1>6, <1>7, <1>8, <1>9 DEF Next, WorkerStep

---------------------------------------------------------------------------
(***************************************************************************)
(* Rows.  A row keeps its commit, and a sync that failed stays failed.     *)
(***************************************************************************)
\* The worker's job, the queue and the rows the rehydration is ahead of are apart, and all
\* of them are pending; so nobody takes up a settled row.
Elems(q) == {q[i] : i \in 1..Len(q)}
Once(q) == \A i, k \in 1..Len(q) : q[i] = q[k] => i = k

Apart ==
  /\ Once(queue)
  /\ Elems(queue) \cap todo = {} /\ cur \notin Elems(queue) \cup todo
  /\ \A j \in Elems(queue) \cup todo : status[j] \in Pending
  /\ pc \notin {"idle", "removeLast"} => status[cur] \in Pending
  /\ boot = "down" => queue = <<>> /\ todo = {} /\ cur = 0
  /\ \A j \in 1..njobs : status[j] # "absent"

\* Appending a value that is not there adds it, and the tail is without the head.
LEMMA ElemsAppend ==
  ASSUME NEW S, NEW q \in Seq(S), NEW j \in S, Once(q), j \notin Elems(q)
  PROVE  Elems(Append(q, j)) = Elems(q) \cup {j} /\ Once(Append(q, j))
<1> DEFINE p == Append(q, j)
<1>1. /\ Len(q) \in Nat /\ Len(p) = Len(q) + 1 /\ p[Len(q) + 1] = j
      /\ \A i \in 1..Len(q) : p[i] = q[i]
  BY AppendProperties, LenProperties
<1> HIDE DEF p
<1>2. 1..Len(p) = 1..Len(q) \cup {Len(q) + 1} /\ Len(q) + 1 \notin 1..Len(q)
  BY <1>1
<1>3. ASSUME NEW x PROVE x \in Elems(p) <=> x \in Elems(q) \cup {j}
  <2>1. x \in Elems(p) <=> \E i \in 1..Len(p) : x = p[i]
    BY DEF Elems
  <2>2. x \in Elems(q) <=> \E i \in 1..Len(q) : x = q[i]
    BY DEF Elems
  <2> QED BY <1>1, <1>2, <2>1, <2>2
<1>4. Elems(p) = Elems(q) \cup {j}
  BY <1>3, Zenon
<1>5. Once(p)
  <2> SUFFICES ASSUME NEW i \in 1..Len(p), NEW k \in 1..Len(p), p[i] = p[k] PROVE i = k
    BY DEF Once
  <2>1. CASE i \in 1..Len(q) /\ k \in 1..Len(q)
    BY <1>1, <2>1 DEF Once
  <2>2. CASE i = Len(q) + 1 /\ k = Len(q) + 1
    BY <2>2
  <2>3. \A m \in 1..Len(q) : p[m] # j
    BY <1>1 DEF Elems
  <2> QED BY <1>1, <1>2, <2>1, <2>2, <2>3
<1> QED BY <1>4, <1>5 DEF p

LEMMA ElemsTail ==
  ASSUME NEW S, NEW q \in Seq(S), q # <<>>, Once(q)
  PROVE  /\ Elems(Tail(q)) = Elems(q) \ {Head(q)} /\ Head(q) \in Elems(q)
         /\ Once(Tail(q))
<1> DEFINE p == Tail(q)
<1>1. /\ Len(q) \in Nat \ {0} /\ Len(p) = Len(q) - 1 /\ Head(q) = q[1]
      /\ \A i \in 1..Len(p) : p[i] = q[i + 1]
  <2>1. \A r \in Seq(S) : r # <<>> => Len(r) \in Nat \ {0}
    BY EmptySeq
  <2> QED BY <2>1, HeadTailProperties
<1> HIDE DEF p
<1>2. \A i \in 1..Len(p) : i + 1 \in 1..Len(q) /\ i + 1 # 1
  BY <1>1
<1>3. \A i \in 1..Len(q) : i = 1 \/ (i - 1 \in 1..Len(p) /\ p[i - 1] = q[i])
  BY <1>1
<1>4. 1 \in 1..Len(q)
  BY <1>1
<1>5. ASSUME NEW x PROVE x \in Elems(p) <=> x \in Elems(q) \ {q[1]}
  <2>1. x \in Elems(p) <=> \E i \in 1..Len(p) : x = p[i]
    BY DEF Elems
  <2>2. x \in Elems(q) <=> \E i \in 1..Len(q) : x = q[i]
    BY DEF Elems
  <2>3. \A i \in 1..Len(p) : p[i] # q[1]
    BY <1>1, <1>2, <1>4 DEF Once
  <2> QED BY <1>1, <1>2, <1>3, <2>1, <2>2, <2>3
<1>6. Elems(p) = Elems(q) \ {q[1]}
  BY <1>5, Zenon
<1>7. Once(p)
  <2> SUFFICES ASSUME NEW i \in 1..Len(p), NEW k \in 1..Len(p), p[i] = p[k] PROVE i = k
    BY DEF Once
  <2>1. i + 1 = k + 1
    BY <1>1, <1>2 DEF Once
  <2> QED BY <2>1
<1>8. q[1] \in Elems(q)
  BY <1>4 DEF Elems
<1> QED BY <1>1, <1>6, <1>7, <1>8 DEF p

\* What a step does to the rows there are, and what it asks of a new one.
RowsStay ==
  /\ njobs \in Nat /\ njobs' \in {njobs, njobs + 1}
  /\ \A j \in 1..njobs : sha'[j] = sha[j] /\ (status[j] = "failed" => status'[j] = "failed")
  /\ njobs' = njobs + 1 => \A j \in 1..njobs : sha[j] = sha'[njobs + 1] => status[j] = "failed"

\* Every step keeps the worker, the queue and the rehydration apart, and a failed row failed.
LEMMA ApartStep == TypeInv /\ Apart /\ [Next]_vars => Apart' /\ RowsStay
<1> SUFFICES ASSUME RemoteType, RowType, WorkerType, OtherType, Held, Apart, [Next]_vars
             PROVE  Apart' /\ RowsStay
  BY DEF TypeInv, TypeOK
<1>0. /\ njobs \in Nat /\ queue \in Seq(1..njobs)
      /\ pc # "idle" => cur \in 1..njobs /\ cur \in Jobs
      /\ Elems(queue) \subseteq 1..njobs /\ todo \subseteq 1..njobs /\ 1..njobs \subseteq Jobs
  <2>1. \A i \in 1..Len(queue) : queue[i] \in 1..njobs
    BY ElementOfSeq DEF WorkerType
  <2> QED BY <2>1, ConstantsAssumption DEF RowType, WorkerType, OtherType, Held, Jobs, Elems
\* A step that leaves rows, queue and rehydration alone, and does not take up a job.
<1>A. ASSUME UNCHANGED <<njobs, sha, status, queue, todo, boot>>,
             cur' = cur, pc = "removeLast" => pc' \in {"idle", "removeLast"},
             pc = "idle" => pc' = "idle"
      PROVE  Apart' /\ RowsStay
  BY <1>0, <1>A DEF Apart, RowsStay
<1>B. ASSUME UNCHANGED <<njobs, sha, status, queue, todo, boot>>, cur' = 0, pc' = "idle"
      PROVE  Apart' /\ RowsStay
  <2>1. 0 \notin Elems(queue) \cup todo
    BY <1>0
  <2> QED BY <1>0, <1>B, <2>1 DEF Apart, RowsStay
<1> USE <1>0 DEF rowVars, bootVars, workVars, mailVars, remoteVars
<1>1. CASE Take
  <2>1. /\ queue # <<>> /\ queue' = Tail(queue) /\ cur' = Head(queue) /\ pc' = "fetch" /\ pc = "idle"
        /\ UNCHANGED <<njobs, sha, status, todo, boot>>
    BY <1>1 DEF Take, WorkerFrame, Go
  <2>2. /\ Elems(queue') = Elems(queue) \ {Head(queue)} /\ Head(queue) \in Elems(queue)
        /\ Once(queue')
    BY <2>1, ElemsTail DEF Apart
  <2>3. boot # "down"
    BY <1>1 DEF Take, WorkerFrame, Up
  <2> QED BY <2>1, <2>2, <2>3 DEF Apart, RowsStay
<1>2. CASE Fetch \/ Prepare \/ Merge \/ Commit \/ Push \/ VerifyPush \/ Cleanup \/ Launch \/ WaitEnds \/ VerifyAgent
  BY <1>A, <1>2 DEF Fetch, Prepare, Merge, Commit, Push, VerifyPush, Cleanup, Launch, WaitEnds,
       VerifyAgent,
     At, WorkerFrame
<1>3. CASE CreateSession \/ FinalizeSession
  BY <1>A, <1>3 DEF CreateSession, FinalizeSession, WorkerFrame
<1>4. CASE LinkSession
  <2>1. /\ cur \in Jobs /\ cur \in 1..njobs /\ status' = [status EXCEPT ![cur] = "launched"] /\ pc = "link" /\ pc' = "wait"
        /\ UNCHANGED <<njobs, sha, queue, todo, boot, cur>>
    BY <1>4 DEF LinkSession, WorkerFrame, Go
  <2>2. status[cur] \in Pending
    BY <2>1 DEF Apart
  <2>3. status'[cur] = "launched" /\ \A j \in 1..njobs : j # cur => status'[j] = status[j]
    BY <2>1 DEF RowType
  <2> QED BY <2>1, <2>2, <2>3 DEF Apart, RowsStay, Pending
<1>5. CASE WriteRow
  <2>1. /\ cur \in Jobs /\ cur \in 1..njobs /\ status' = [status EXCEPT ![cur] = result]
        /\ pc \in {"row", "conflictRow"} /\ result \in Settled
        /\ pc' \in {"idle", "removeLast"} /\ cur' \in {0, cur} /\ (pc' = "idle" => cur' = 0)
        /\ UNCHANGED <<njobs, sha, queue, todo, boot>>
    BY <1>5 DEF WriteRow, WorkerFrame, Go, Done, Held, Ending
  <2>2. status[cur] \in Pending /\ cur \notin Elems(queue) \cup todo
    BY <2>1 DEF Apart
  <2>3. status'[cur] = result /\ \A j \in 1..njobs : j # cur => status'[j] = status[j]
    BY <2>1 DEF RowType
  <2>4. 0 \notin Elems(queue) \cup todo /\ Elems(queue') = Elems(queue)
    BY <2>1 DEF Elems
  <2> QED BY <2>1, <2>2, <2>3, <2>4 DEF Apart, RowsStay, Pending, Settled
<1>6. CASE CleanupLast
  BY <1>B, <1>6 DEF CleanupLast, WorkerFrame, Done
<1>7. CASE BootStart
  <2>1. /\ boot = "down" /\ boot' = "scan" /\ todo' = {j \in 1..njobs : status[j] \in Pending}
        /\ UNCHANGED <<njobs, sha, status, queue, cur, pc>>
    BY <1>7 DEF BootStart, BootFrame
  <2>2. queue = <<>> /\ cur = 0 /\ Elems(queue) = {}
    BY <2>1 DEF Apart, Elems
  <2>3. Elems(queue') = {} /\ cur \notin todo'
    BY <2>1, <2>2
  <2> QED BY <2>1, <2>2, <2>3 DEF Apart, RowsStay
<1>8. CASE BootRow
  <2>1. PICK j \in todo :
          /\ status' = [status EXCEPT ![j] = "queued"]
          /\ queue' = Append(queue, j) /\ todo' = todo \ {j}
    BY <1>8 DEF BootRow
  <2>2. UNCHANGED <<njobs, sha, cur, pc, boot>> /\ boot = "scan" /\ j \in 1..njobs
    BY <1>8 DEF BootRow, BootFrame
  <2>3. j \notin Elems(queue)
    BY DEF Apart
  <2>4. Elems(queue') = Elems(queue) \cup {j} /\ Once(queue')
    BY <2>1, <2>2, <2>3, ElemsAppend DEF Apart
  <2>5. status'[j] = "queued" /\ \A k \in 1..njobs : k # j => status'[k] = status[k]
    BY <2>1, <2>2 DEF RowType
  <2>6. status[j] \in Pending /\ j # cur
    BY DEF Apart
  <2> QED BY <2>1, <2>2, <2>3, <2>4, <2>5, <2>6 DEF Apart, RowsStay, Pending
<1>9. CASE BootSweep
  BY <1>9 DEF BootSweep, BootFrame, Apart, RowsStay
<1>10. CASE Crash
  <2>1. /\ queue' = <<>> /\ todo' = {} /\ cur' = 0 /\ pc' = "idle" /\ boot' = "down"
        /\ UNCHANGED <<njobs, sha, status>>
    BY <1>10 DEF Crash, Done
  <2>2. Elems(queue') = {} /\ Once(queue')
    BY <2>1 DEF Elems, Once
  <2> QED BY <2>1, <2>2 DEF Apart, RowsStay
<1>11. CASE \E c \in Commits : QueueDevSync(c)
  <2>1. PICK c \in Commits : QueueDevSync(c)
    BY <1>11
  <2>2. UNCHANGED <<todo, boot, cur, pc>> /\ boot = "done"
    BY <2>1 DEF QueueDevSync, Serving
  <2>3. CASE UNCHANGED <<njobs, sha, status, queue>>
    BY <1>A, <2>2, <2>3
  <2>4. CASE /\ ~HasExistingJob(c) /\ njobs < MaxJobs /\ njobs' = njobs + 1
             /\ sha' = [sha EXCEPT ![njobs + 1] = c]
             /\ status' = [status EXCEPT ![njobs + 1] = "queued"]
             /\ queue' = Append(queue, njobs + 1)
    <3>1. /\ njobs + 1 \in Jobs /\ njobs + 1 \in 1..(njobs + 1) /\ njobs + 1 \notin 1..njobs
          /\ \A j \in 1..njobs' : j \in 1..njobs \/ j = njobs + 1
      BY <2>4, ConstantsAssumption DEF Jobs
    <3>2. queue \in Seq(1..(njobs + 1))
      BY SeqMonotonic
    <3>3. Elems(queue') = Elems(queue) \cup {njobs + 1} /\ Once(queue')
      BY <2>4, <3>1, <3>2, ElemsAppend DEF Apart
    <3>4. /\ status'[njobs + 1] = "queued"
          /\ \A j \in 1..njobs : status'[j] = status[j] /\ sha'[j] = sha[j]
      BY <2>4, <3>1 DEF RowType
    <3>5. cur \in 0..njobs /\ cur # njobs + 1
      BY DEF WorkerType
    <3>6. \A j \in 1..njobs : sha[j] = sha'[njobs + 1] => status[j] = "failed"
      <4>1. sha'[njobs + 1] = c
        BY <2>4, <3>1 DEF RowType
      <4>2. \A j \in 1..njobs : status[j] \in Pending \cup Settled
        BY DEF RowType, Apart
      <4> QED BY <2>4, <4>1, <4>2 DEF HasExistingJob, Settled
    <3> QED BY <2>2, <2>4, <3>1, <3>3, <3>4, <3>5, <3>6 DEF Apart, RowsStay, Pending
  <2> QED BY <2>1, <2>3, <2>4 DEF QueueDevSync
<1>12. CASE \E c \in Commits : LoseEvent(c) \/ Redeliver(c)
  BY <1>A, <1>12 DEF LoseEvent, Redeliver, OutsideFrame
<1>13. CASE \E j \in Jobs : AgentPushes(j) \/ OrphanExits(j)
  BY <1>A, <1>13 DEF AgentPushes, OrphanExits, OutsideFrame
<1>14. CASE MainMoves \/ DevMoves
  BY <1>A, <1>14 DEF MainMoves, DevMoves, OutsideFrame
<1>15. CASE UNCHANGED vars
  BY <1>A, <1>15 DEF vars
<1> QED BY <1>1, <1>2, <1>3, <1>4, <1>5, <1>6, <1>7, <1>8, <1>9, <1>10, <1>11, <1>12, <1>13,
     <1>14, <1>15
       DEF Next, WorkerStep, BootStep

\* A row is added only for a commit whose other rows have failed, and those stay failed.
LEMMA OneSyncStep == OneSyncPerCommit /\ RowsStay => OneSyncPerCommit'
<1> SUFFICES ASSUME OneSyncPerCommit, RowsStay,
                    NEW i \in 1..njobs', NEW j \in 1..njobs',
                    sha'[i] = sha'[j], status'[i] # "failed", status'[j] # "failed"
             PROVE  i = j
  BY DEF OneSyncPerCommit
<1>1. CASE i \in 1..njobs /\ j \in 1..njobs
  BY <1>1 DEF OneSyncPerCommit, RowsStay
<1>2. CASE ~(i \in 1..njobs /\ j \in 1..njobs)
  <2>1. njobs' = njobs + 1 /\ \A k \in 1..njobs' : k \in 1..njobs \/ k = njobs + 1
    BY <1>2 DEF RowsStay
  <2>2. \A k \in 1..njobs : sha'[k] = sha'[njobs + 1] => status'[k] = "failed"
    BY <2>1 DEF RowsStay
  <2> QED BY <1>2, <2>1, <2>2
<1> QED BY <1>1, <1>2

---------------------------------------------------------------------------
(***************************************************************************)
(* Outcomes.  The worker calls a sync completed only once it has seen the  *)
(* commit on dev, and dev only moves forward.                              *)
(***************************************************************************)
Finished ==
  /\ CompletedMeansSynced
  /\ result = "completed" => pc # "idle" /\ Synced(sha[cur])

\* A row or an outcome becomes completed only when its commit is on dev.
LEMMA FinishedStep == TypeInv /\ Finished /\ RowsStay /\ Forward /\ [Next]_vars => Finished'
<1> SUFFICES ASSUME RemoteType, RowType, WorkerType, OtherType, Held, Finished, RowsStay,
     Forward, [Next]_vars
             PROVE  Finished'
  BY DEF TypeInv, TypeOK
<1>0. /\ pc # "idle" => cur \in 1..njobs /\ cur \in Jobs
      /\ pc = "idle" => result # "completed"
      /\ 1..njobs \subseteq Jobs /\ 1..njobs \subseteq 1..njobs'
  BY ConstantsAssumption DEF RowType, WorkerType, Held, Jobs, Finished, RowsStay
<1>00. \A j \in 1..njobs : Synced(sha[j]) => Synced(sha[j])'
  BY DEF Synced, Forward, RowsStay
\* Rows become completed by the worker's outcome, and that by what is on dev.
<1>A. ASSUME \A j \in 1..njobs' : status'[j] = "completed" =>
               j \in 1..njobs /\ (status[j] = "completed" \/ (j = cur /\ result = "completed")),
             result' = "completed" =>
               pc' # "idle" /\ cur' = cur /\ pc # "idle" /\ (result = "completed" \/ Synced(sha[cur]))
      PROVE  Finished'
  <2>1. CompletedMeansSynced'
    BY <1>0, <1>00, <1>A DEF Finished, CompletedMeansSynced
  <2>2. result' = "completed" => pc' # "idle" /\ Synced(sha[cur])'
    BY <1>0, <1>00, <1>A DEF Finished
  <2> QED BY <2>1, <2>2 DEF Finished
\* A step that writes no row.
<1>B. ASSUME UNCHANGED <<njobs, status>>,
             result' = "completed" =>
               pc' # "idle" /\ cur' = cur /\ pc # "idle" /\ (result = "completed" \/ Synced(sha[cur]))
      PROVE  Finished'
  BY <1>A, <1>B
\* A step that leaves the worker alone.
<1>C. ASSUME UNCHANGED <<njobs, status, pc, cur, result>>
      PROVE  Finished'
  BY <1>0, <1>B, <1>C
<1> USE <1>0 DEF rowVars, bootVars, workVars
<1>1. CASE Take \/ CleanupLast
  BY <1>B, <1>1 DEF Take, CleanupLast, WorkerFrame, Go, Done
<1>2. CASE Fetch \/ VerifyPush \/ VerifyAgent
  BY <1>B, <1>2 DEF Fetch, VerifyPush, VerifyAgent, VerifyRemoteSync, Abort, Escape, At, WorkerFrame,
       Go, End
<1>3. CASE Prepare \/ Merge \/ Commit \/ Push \/ Cleanup \/ Launch \/ WaitEnds
  BY <1>B, <1>3 DEF Prepare, Merge, Commit, Push, Cleanup, Launch, WaitEnds, Abort, Escape,
       At, WorkerFrame, Go, End
<1>4. CASE CreateSession \/ FinalizeSession
  BY <1>B, <1>4 DEF CreateSession, FinalizeSession, Escape, WorkerFrame, Go, End
<1>5. CASE LinkSession
  <2>1. /\ status' = [status EXCEPT ![cur] = "launched"] /\ pc = "link" /\ pc' = "wait"
        /\ UNCHANGED <<njobs, cur, result>>
    BY <1>5 DEF LinkSession, WorkerFrame, Go
  <2>2. \A j \in 1..njobs : status'[j] = "completed" => status[j] = "completed"
    BY <2>1 DEF RowType
  <2> QED BY <1>A, <2>1, <2>2
<1>6. CASE WriteRow
  <2>1. /\ status' = [status EXCEPT ![cur] = result] /\ pc \in {"row", "conflictRow"}
        /\ UNCHANGED njobs
        /\ (pc' = "removeLast" /\ cur' = cur /\ result' = result) \/ result' = "none"
    BY <1>6 DEF WriteRow, WorkerFrame, Go, Done
  <2>2. \A j \in 1..njobs : status'[j] = "completed" =>
                              (status[j] = "completed" \/ (j = cur /\ result = "completed"))
    BY <2>1 DEF RowType
  <2> QED BY <1>A, <2>1, <2>2
<1>7. CASE BootStart
  BY <1>C, <1>7 DEF BootStart, BootFrame
<1>8. CASE BootRow
  <2>1. PICK j \in todo : status' = [status EXCEPT ![j] = "queued"]
    BY <1>8 DEF BootRow
  <2>2. UNCHANGED <<njobs, pc, cur, result>>
    BY <1>8 DEF BootRow, BootFrame
  <2>3. \A k \in 1..njobs : status'[k] = "completed" => status[k] = "completed"
    BY <2>1 DEF RowType
  <2> QED BY <1>A, <2>2, <2>3
<1>9. CASE BootSweep
  BY <1>C, <1>9 DEF BootSweep, BootFrame
<1>10. CASE Crash
  BY <1>B, <1>10 DEF Crash, Done
<1>11. CASE \E c \in Commits : QueueDevSync(c)
  <2>1. PICK c \in Commits : QueueDevSync(c)
    BY <1>11
  <2>2. UNCHANGED <<pc, cur, result>>
    BY <2>1 DEF QueueDevSync
  <2>3. CASE UNCHANGED <<njobs, status>>
    BY <1>C, <2>2, <2>3
  <2>4. CASE njobs < MaxJobs /\ njobs' = njobs + 1 /\ status' = [status EXCEPT ![njobs + 1] = "queued"]
    <3>1. \A j \in 1..njobs' : j \in 1..njobs \/ (j = njobs + 1 /\ j \in Jobs /\ status'[j] = "queued")
      BY <2>4, ConstantsAssumption DEF RowType, Jobs
    <3>2. \A j \in 1..njobs : status'[j] = "completed" => status[j] = "completed"
      BY <2>4 DEF RowType
    <3> QED BY <1>A, <2>2, <3>1, <3>2
  <2> QED BY <2>1, <2>3, <2>4 DEF QueueDevSync
<1>12. CASE \E c \in Commits : LoseEvent(c) \/ Redeliver(c)
  BY <1>C, <1>12 DEF LoseEvent, Redeliver, OutsideFrame
<1>13. CASE \E j \in Jobs : AgentPushes(j) \/ OrphanExits(j)
  BY <1>C, <1>13 DEF AgentPushes, OrphanExits, OutsideFrame
<1>14. CASE MainMoves \/ DevMoves \/ UNCHANGED vars
  BY <1>C, <1>14 DEF MainMoves, DevMoves, OutsideFrame, vars
<1> QED BY <1>1, <1>2, <1>3, <1>4, <1>5, <1>6, <1>7, <1>8, <1>9, <1>10, <1>11, <1>12, <1>13, <1>14
       DEF Next, WorkerStep, BootStep

---------------------------------------------------------------------------
(***************************************************************************)
(* Cleaning up.  In a process that has not died, a worktree belongs to the *)
(* job at hand; a launched session or a left agent belongs to the job at   *)
(* hand or to one whose handler raised, and neither of these comes up      *)
(* again: its row is pending and not in the queue.                         *)
(***************************************************************************)
InTree == {"merge", "commit", "push", "verifyPush", "remove", "launch", "create", "link", "wait",
           "verifyAgent", "close", "conflictRow", "removeLast"}
InSession == {"link", "wait", "verifyAgent", "close"}

Unsettled(j) == j \in 1..njobs /\ status[j] \in Pending /\ j \notin Elems(queue)

TreeTidy == \A j \in tree : j \in kept \/ (j = cur /\ pc \in InTree)

SessionTidy ==
  \A j \in Jobs : session[j] = "launched" =>
                    Unsettled(j) /\ (j = cur => pc \in InSession \cup {"removeLast"})

AgentTidy == \A j \in orphans : Unsettled(j) /\ (j = cur => pc = "removeLast")

Tidy ==
  ~crashed => TreeTidy /\ SessionTidy /\ AgentTidy /\ (boot # "done" => njobs = 0)

\* A step that leaves rows, sessions and queue alone, and the worker at its job.
LEMMA TidyKept ==
  ASSUME TreeTidy, SessionTidy, AgentTidy, boot # "done" => njobs = 0,
         UNCHANGED <<njobs, status, session, queue, boot, cur>>,
         pc # "removeLast",
         TreeTidy',
         pc \in InSession => pc' \in InSession \cup {"removeLast"},
         orphans' \subseteq orphans \/
           (orphans' = orphans \cup {cur} /\ pc \in InSession /\ pc' = "removeLast" /\ Unsettled(cur))
  PROVE  TreeTidy' /\ SessionTidy' /\ AgentTidy' /\ (boot # "done" => njobs = 0)'
<1>1. \A j : Unsettled(j)' <=> Unsettled(j)
  BY DEF Unsettled
<1>2. SessionTidy'
  BY <1>1 DEF SessionTidy, InSession
<1>3. AgentTidy'
  BY <1>1 DEF AgentTidy
<1> QED BY <1>2, <1>3

\* Every step that ends a sync has closed its session and ended its agent, and has taken its
\* worktree away unless git did not.
LEMMA TidyStep == TypeInv /\ Apart /\ Tidy /\ [Next]_vars => Tidy'
<1> SUFFICES ASSUME RemoteType, RowType, WorkerType, OtherType, Held, Apart, Tidy, [Next]_vars,
                    ~crashed'
             PROVE  TreeTidy' /\ SessionTidy' /\ AgentTidy' /\ (boot # "done" => njobs = 0)'
  BY DEF TypeInv, TypeOK, Tidy
<1> DEFINE Goal == TreeTidy' /\ SessionTidy' /\ AgentTidy' /\ (boot # "done" => njobs = 0)'
<1>0. /\ pc # "idle" => cur \in Jobs /\ cur \in 1..njobs
      /\ pc \notin {"idle", "removeLast"} => Unsettled(cur)
      /\ njobs \in Nat /\ 0 \notin Jobs
      /\ pc = "idle" <=> cur = 0
      /\ queue \in Seq(1..njobs)
  BY ConstantsAssumption DEF RowType, WorkerType, Held, Jobs, Apart, Unsettled
<1>z. ~crashed
  BY DEF Next, WorkerStep, BootStep, Take, Fetch, Prepare, Merge, Commit, Push, VerifyPush, Cleanup,
     Launch, CreateSession, LinkSession, WaitEnds, VerifyAgent, FinalizeSession, WriteRow, CleanupLast,
     At, WorkerFrame, BootStart, BootRow, BootSweep, BootFrame, Crash, MainMoves, DevMoves,
     OutsideFrame, QueueDevSync, LoseEvent, Redeliver, AgentPushes, OrphanExits, noteVars, vars
<1>y. TreeTidy /\ SessionTidy /\ AgentTidy /\ (boot # "done" => njobs = 0)
  BY <1>z DEF Tidy
\* A step of the worker within a job, one outside it, and one of somebody else.
<1>A. ASSUME UNCHANGED <<njobs, status, session, queue, boot, cur>>, pc \notin {"idle", "removeLast"}, TreeTidy',
             pc \in InSession => pc' \in InSession \cup {"removeLast"},
             orphans' = orphans \/ (orphans' = orphans \cup {cur} /\ pc \in InSession /\ pc' = "removeLast")
      PROVE  Goal
  BY <1>0, <1>y, <1>A, TidyKept
<1>B. ASSUME UNCHANGED <<njobs, status, session, queue, boot, cur, pc, tree, kept>>, orphans' \subseteq orphans
      PROVE  Goal
  <2>1. \A j : Unsettled(j)' <=> Unsettled(j)
    BY <1>B DEF Unsettled
  <2> QED BY <1>y, <1>B, <2>1 DEF TreeTidy, SessionTidy, AgentTidy
<1> USE DEF bootVars, rowVars, workVars, noteVars
<1>1. CASE Take
  <2>1. /\ queue # <<>> /\ queue' = Tail(queue) /\ cur' = Head(queue) /\ pc' = "fetch" /\ pc = "idle"
        /\ UNCHANGED <<njobs, status, session, tree, orphans, kept, boot>>
    BY <1>1 DEF Take, WorkerFrame, Go
  <2>2. Elems(queue') = Elems(queue) \ {Head(queue)} /\ Head(queue) \in Elems(queue)
    BY <1>0, <2>1, ElemsTail DEF Apart
  <2>3. \A j : Unsettled(j) => Unsettled(j)' /\ j # cur'
    BY <2>1, <2>2 DEF Unsettled
  <2>4. TreeTidy'
    BY <1>y, <2>1 DEF TreeTidy, InTree
  <2> QED BY <1>y, <2>1, <2>3, <2>4 DEF SessionTidy, AgentTidy
<1>2. CASE Fetch
  <2>1. TreeTidy'
    BY <1>y, <1>2 DEF Fetch, At, WorkerFrame, Go, End, TreeTidy, InTree
  <2> QED BY <1>A, <1>2, <2>1 DEF Fetch, At, WorkerFrame, InSession
<1>3. CASE Prepare
  <2>1. TreeTidy'
    BY <1>y, <1>3 DEF Prepare, At, WorkerFrame, Go, End, TreeTidy, InTree
  <2> QED BY <1>A, <1>3, <2>1 DEF Prepare, At, WorkerFrame, InSession
<1>4. CASE Merge
  <2>1. TreeTidy'
    BY <1>y, <1>4 DEF Merge, Abort, At, WorkerFrame, Go, End, TreeTidy, InTree
  <2> QED BY <1>A, <1>4, <2>1 DEF Merge, At, WorkerFrame, InSession
<1>5. CASE Commit
  <2>1. TreeTidy'
    BY <1>y, <1>5 DEF Commit, Abort, At, WorkerFrame, Go, End, TreeTidy, InTree
  <2> QED BY <1>A, <1>5, <2>1 DEF Commit, At, WorkerFrame, InSession
<1>6. CASE Push
  <2>1. TreeTidy'
    BY <1>y, <1>6 DEF Push, Abort, At, WorkerFrame, Go, End, TreeTidy, InTree
  <2> QED BY <1>A, <1>6, <2>1 DEF Push, At, WorkerFrame, InSession
<1>7. CASE VerifyPush
  <2>1. TreeTidy'
    BY <1>y, <1>7 DEF VerifyPush, VerifyRemoteSync, Abort, At, WorkerFrame, Go, End, TreeTidy, InTree
  <2> QED BY <1>A, <1>7, <2>1 DEF VerifyPush, At, WorkerFrame, InSession
<1>8. CASE Cleanup
  <2>1. TreeTidy'
    BY <1>y, <1>8 DEF Cleanup, RemoveTree, At, WorkerFrame, Go, TreeTidy, InTree
  <2> QED BY <1>A, <1>8, <2>1 DEF Cleanup, At, WorkerFrame, InSession
<1>9. CASE Launch
  <2>1. TreeTidy'
    BY <1>y, <1>9 DEF Launch, Escape, At, WorkerFrame, Go, End, TreeTidy, InTree
  <2> QED BY <1>A, <1>9, <2>1 DEF Launch, At, WorkerFrame, InSession
<1>10. CASE CreateSession
  <2>1. /\ session' = [session EXCEPT ![cur] = "launched"] /\ pc = "create" /\ pc' = "link"
        /\ UNCHANGED <<njobs, status, queue, boot, cur, tree, kept, orphans>>
    BY <1>10 DEF CreateSession, WorkerFrame, Go
  <2>2. \A j : Unsettled(j)' <=> Unsettled(j)
    BY <2>1 DEF Unsettled
  <2>3. TreeTidy'
    BY <1>y, <2>1 DEF TreeTidy, InTree
  <2>4. AgentTidy'
    BY <1>y, <2>1, <2>2 DEF AgentTidy
  <2>5. \A j \in Jobs : session'[j] = "launched" => j = cur \/ session[j] = "launched"
    BY <2>1 DEF RowType
  <2>6. SessionTidy'
    BY <1>0, <1>y, <2>1, <2>2, <2>5 DEF SessionTidy, InSession
  <2> QED BY <1>y, <2>1, <2>3, <2>4, <2>6
<1>11. CASE LinkSession
  <2>1. /\ status' = [status EXCEPT ![cur] = "launched"] /\ pc = "link" /\ pc' = "wait"
        /\ UNCHANGED <<njobs, session, queue, boot, cur, tree, kept, orphans>>
    BY <1>11 DEF LinkSession, WorkerFrame, Go
  <2>2. \A j : Unsettled(j) => Unsettled(j)'
    BY <1>0, <2>1 DEF Unsettled, RowType, Pending, Jobs
  <2> QED BY <1>y, <2>1, <2>2 DEF TreeTidy, SessionTidy, AgentTidy, InTree, InSession
<1>12. CASE WaitEnds
  <2>1. TreeTidy'
    BY <1>y, <1>12 DEF WaitEnds, Escape, At, WorkerFrame, Go, End, TreeTidy, InTree
  <2>2. /\ pc = "wait" /\ pc' \in InSession \cup {"removeLast"}
        /\ orphans' = orphans \/ (orphans' = orphans \cup {cur} /\ pc' = "removeLast")
    BY <1>12 DEF WaitEnds, Escape, At, Go, End, InSession
  <2> QED BY <1>A, <1>12, <2>1, <2>2 DEF WaitEnds, At, WorkerFrame, InSession
<1>13. CASE VerifyAgent
  <2>1. TreeTidy'
    BY <1>y, <1>13 DEF VerifyAgent, VerifyRemoteSync, Escape, At, WorkerFrame, Go, End, TreeTidy, InTree
  <2>2. pc = "verifyAgent" /\ pc' \in InSession \cup {"removeLast"}
    BY <1>13 DEF VerifyAgent, VerifyRemoteSync, Escape, At, End, InSession
  <2> QED BY <1>A, <1>13, <2>1, <2>2 DEF VerifyAgent, At, WorkerFrame
<1>14. CASE FinalizeSession
  <2>1. /\ session' = [session EXCEPT ![cur] = "completed"] /\ pc = "close"
        /\ UNCHANGED <<njobs, status, queue, boot, cur, tree, kept>>
        /\ \/ pc' = "conflictRow" /\ orphans' = orphans
           \/ pc' = "removeLast" /\ orphans' = orphans \cup {cur}
    BY <1>14 DEF FinalizeSession, Escape, WorkerFrame, Go, End
  <2>2. \A j : Unsettled(j)' <=> Unsettled(j)
    BY <2>1 DEF Unsettled
  <2>3. TreeTidy'
    BY <1>y, <2>1 DEF TreeTidy, InTree
  <2>4. SessionTidy'
    <3>1. \A j \in Jobs : session'[j] = "launched" => j # cur /\ session[j] = "launched"
      BY <1>0, <2>1 DEF RowType
    <3> QED BY <1>y, <2>1, <2>2, <3>1 DEF SessionTidy
  <2>5. AgentTidy'
    BY <1>0, <1>y, <2>1, <2>2 DEF AgentTidy
  <2> QED BY <1>y, <2>1, <2>3, <2>4, <2>5
<1>15. CASE WriteRow
  <2>1. /\ pc \in {"row", "conflictRow"} /\ status' = [status EXCEPT ![cur] = result]
        /\ UNCHANGED <<njobs, session, queue, boot, tree, kept, orphans>>
        /\ \/ pc = "row" /\ cur' = 0
           \/ pc = "conflictRow" /\ pc' = "removeLast" /\ cur' = cur
    BY <1>15 DEF WriteRow, WorkerFrame, Go, Done
  <2>2. \A j : Unsettled(j) /\ j # cur => Unsettled(j)'
    BY <2>1 DEF Unsettled, RowType, Jobs
  <2>3. TreeTidy'
    BY <1>0, <1>y, <2>1 DEF TreeTidy, InTree
  <2>4. SessionTidy'
    BY <1>0, <1>y, <2>1, <2>2 DEF SessionTidy, InSession
  <2>5. AgentTidy'
    <3>1. \A j \in orphans : Unsettled(j) /\ j # cur /\ j # 0
      BY <1>0, <1>y, <2>1 DEF AgentTidy, Unsettled
    <3>2. cur' = 0 \/ cur' = cur
      BY <2>1
    <3> QED BY <2>1, <2>2, <3>1, <3>2 DEF AgentTidy
  <2> QED BY <1>y, <2>1, <2>3, <2>4, <2>5
<1>16. CASE CleanupLast
  <2>1. /\ pc = "removeLast" /\ cur' = 0
        /\ UNCHANGED <<njobs, status, session, queue, boot, orphans>>
        /\ \/ tree' = tree \ {cur} /\ kept' = kept
           \/ tree' = tree /\ kept' = kept \cup {cur}
    BY <1>16 DEF CleanupLast, RemoveTree, WorkerFrame, Done
  <2>2. \A j : Unsettled(j)' <=> Unsettled(j)
    BY <2>1 DEF Unsettled
  <2>3. \A j : Unsettled(j) => j # 0
    BY <1>0 DEF Unsettled
  <2>4. TreeTidy'
    BY <1>y, <2>1 DEF TreeTidy
  <2> QED BY <1>0, <1>y, <2>1, <2>2, <2>3, <2>4 DEF SessionTidy, AgentTidy
<1>17. CASE BootStart
  <2>1. UNCHANGED <<njobs, status, session, queue, cur, pc, tree, kept, orphans>> /\ boot = "down"
    BY <1>17 DEF BootStart, BootFrame
  <2>2. \A j : Unsettled(j)' <=> Unsettled(j)
    BY <2>1 DEF Unsettled
  <2> QED BY <1>y, <2>1, <2>2 DEF TreeTidy, SessionTidy, AgentTidy
<1>18. CASE BootRow
  <2>1. PICK j \in todo : TRUE
    BY <1>18 DEF BootRow
  <2>2. boot = "scan" /\ j \in 1..njobs
    BY <1>18, <2>1 DEF BootRow, OtherType
  <2> QED BY <1>0, <1>y, <2>2
<1>19. CASE BootSweep
  <2>1. /\ UNCHANGED <<njobs, status, queue, tree, kept, cur, pc, orphans>> /\ boot' = "done"
        /\ \A k \in Jobs : session'[k] = "launched" => session[k] = "launched"
    BY <1>19 DEF BootSweep, BootFrame, Settled
  <2>2. \A j : Unsettled(j)' <=> Unsettled(j)
    BY <2>1 DEF Unsettled
  <2> QED BY <1>y, <2>1, <2>2 DEF TreeTidy, SessionTidy, AgentTidy
<1>20. CASE Crash
  BY <1>20 DEF Crash
<1>21. CASE \E c \in Commits : QueueDevSync(c)
  <2>1. PICK c \in Commits : QueueDevSync(c)
    BY <1>21
  <2>2. UNCHANGED <<session, cur, pc, tree, kept, orphans, boot>> /\ boot = "done"
    BY <2>1 DEF QueueDevSync, Serving
  <2>3. CASE UNCHANGED <<njobs, status, queue>>
    BY <1>B, <2>2, <2>3
  <2>4. CASE /\ njobs < MaxJobs /\ njobs' = njobs + 1
             /\ status' = [status EXCEPT ![njobs + 1] = "queued"] /\ queue' = Append(queue, njobs + 1)
    <3>1. njobs + 1 \notin Elems(queue)
      <4>1. \A i \in 1..Len(queue) : queue[i] \in 1..njobs
        BY <1>0, ElementOfSeq
      <4> QED BY <1>0, <4>1 DEF Elems
    <3>2. Elems(queue') = Elems(queue) \cup {njobs + 1}
      <4>1. queue \in Seq(1..(njobs + 1)) /\ njobs + 1 \in 1..(njobs + 1)
        BY <1>0, SeqMonotonic
      <4> QED BY <2>4, <3>1, <4>1, ElemsAppend DEF Apart
    <3>3. \A j : Unsettled(j) => Unsettled(j)'
      BY <1>0, <2>4, <3>2 DEF Unsettled, RowType, Jobs
    <3> QED BY <1>y, <2>2, <3>3 DEF TreeTidy, SessionTidy, AgentTidy
  <2> QED BY <2>1, <2>3, <2>4 DEF QueueDevSync
<1>22. CASE \E c \in Commits : LoseEvent(c) \/ Redeliver(c)
  BY <1>B, <1>22 DEF LoseEvent, Redeliver, OutsideFrame
<1>23. CASE \E j \in Jobs : AgentPushes(j) \/ OrphanExits(j)
  BY <1>B, <1>23 DEF AgentPushes, OrphanExits, OutsideFrame
<1>24. CASE MainMoves \/ DevMoves \/ UNCHANGED vars
  BY <1>B, <1>24 DEF MainMoves, DevMoves, OutsideFrame, vars
<1> QED BY <1>1, <1>2, <1>3, <1>4, <1>5, <1>6, <1>7, <1>8, <1>9, <1>10, <1>11, <1>12, <1>13, <1>14,
           <1>15, <1>16, <1>17, <1>18, <1>19, <1>20, <1>21, <1>22, <1>23, <1>24
       DEF Next, WorkerStep, BootStep

---------------------------------------------------------------------------
(***************************************************************************)
(* The inductive invariant, and what follows from it.                      *)
(***************************************************************************)
Inv == TypeInv /\ Histories /\ Apart /\ OneSyncPerCommit /\ Finished /\ Tidy

\* The invariant holds at the start ...
LEMMA InitInv == Init => Inv
<1> SUFFICES ASSUME Init PROVE Inv
  OBVIOUS
<1>1. TypeInv
  BY InitType
<1>2. Histories
  BY ConstantsAssumption DEF Init, Histories, Commits
<1>3. Apart
  BY DEF Init, Apart, Elems, Once
<1>4. OneSyncPerCommit
  BY DEF Init, OneSyncPerCommit
<1>5. Finished
  BY DEF Init, Finished, CompletedMeansSynced
<1>6. Tidy
  BY DEF Init, Tidy, TreeTidy, SessionTidy, AgentTidy
<1> QED BY <1>1, <1>2, <1>3, <1>4, <1>5, <1>6 DEF Inv

\* ... and after every step, and dev moves forward.
LEMMA StepInv == Inv /\ [Next]_vars => Inv' /\ Forward
<1> SUFFICES ASSUME Inv, [Next]_vars PROVE Inv' /\ Forward
  OBVIOUS
<1>1. TypeInv'
  BY StepType DEF Inv
<1>2. Histories' /\ Forward
  BY HistoryStep DEF Inv
<1>3. Apart' /\ RowsStay
  BY ApartStep DEF Inv
<1>4. OneSyncPerCommit'
  BY <1>3, OneSyncStep DEF Inv
<1>5. Finished'
  BY <1>2, <1>3, FinishedStep DEF Inv
<1>6. Tidy'
  BY TidyStep DEF Inv
<1> QED BY <1>1, <1>2, <1>3, <1>4, <1>5, <1>6 DEF Inv

\* So it holds throughout.
LEMMA Invariance == Spec => []Inv
<1> QED BY InitInv, StepInv, PTL DEF Spec

\* Every variable holds a value of its kind, through crashes and failing commands.
THEOREM TypeCorrect == Spec => []TypeOK
<1>1. Inv => TypeOK
  BY DEF Inv, TypeInv
<1> QED BY <1>1, Invariance, PTL

\* A sync recorded as completed is reachable from dev, then and ever after.
THEOREM CompletedSynced == Spec => []CompletedMeansSynced
<1>1. Inv => CompletedMeansSynced
  BY DEF Inv, Finished
<1> QED BY <1>1, Invariance, PTL

\* A commit has at most one sync that is under way or done.
THEOREM OneSync == Spec => []OneSyncPerCommit
<1>1. Inv => OneSyncPerCommit
  BY DEF Inv
<1> QED BY <1>1, Invariance, PTL

\* As long as the process lives, a worktree is that of the sync at hand or one git left, and
\* a settled sync has no launched session and no agent at work.
THEOREM NothingLeft == Spec => []NothingLeftBehind
<1>1. Inv => NothingLeftBehind
  <2> SUFFICES ASSUME Inv, ~crashed PROVE NothingLeftBehind
    BY DEF NothingLeftBehind
  <2>1. TreeTidy /\ SessionTidy /\ AgentTidy /\ 1..njobs \subseteq Jobs
    BY ConstantsAssumption DEF Inv, Tidy, TypeInv, TypeOK, RowType, Jobs
  <2>2. tree \subseteq kept \cup {cur}
    BY <2>1 DEF TreeTidy
  <2>3. \A j \in 1..njobs : status[j] \in Settled => session[j] # "launched" /\ j \notin orphans
    BY <2>1 DEF SessionTidy, AgentTidy, Unsettled, Pending, Settled
  <2> QED BY <2>2, <2>3 DEF NothingLeftBehind
<1> QED BY <1>1, Invariance, PTL

\* No push of dani or of its agents loses what others pushed.
THEOREM DevGrows == Spec => DevOnlyGrows
<1>1. Inv /\ [Next]_vars => [hist[dev] \subseteq hist'[dev']]_vars
  BY StepInv DEF Forward
<1> QED BY <1>1, Invariance, PTL DEF Spec, DevOnlyGrows
============================================================================
