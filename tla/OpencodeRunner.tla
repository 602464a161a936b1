--------------------------- MODULE OpencodeRunner ---------------------------
(***************************************************************************)
(* Agent runs over HTTP: OmoHttpRunner submits a prompt to an opencode     *)
(* server and waits on a completion state, which the event streams of the  *)
(* shared OpencodeEventConsumer (one listener thread per directory) and    *)
(* its status-polling thread set from the side.                            *)
(*                                                                         *)
(* One server and one consumer. A directory is the clone of a repository   *)
(* or the worktree of one dev sync, where one agent resolves a conflict.   *)
(* The worker thread of a repository runs one agent at a time, in its      *)
(* clone or in the worktree of one of its dev syncs. Several directories   *)
(* share a server when DANI_OPENCODE_SERVER_URL is set; a server dani      *)
(* spawned itself has one.                                                 *)
(*                                                                         *)
(* Sessions and runs (runtime handles) are numbered in the order they are  *)
(* made; 0 stands for "none" and, in an event, for a missing sessionID.    *)
(* The completion state a registration creates has the number of the run   *)
(* that registers.                                                         *)
(*                                                                         *)
(* Left out: calls that fail without a trace (create_session, get_session),*)
(* events nobody acts on (session.status, messages), the event log, the    *)
(* spawning of servers and their end, which dani leaves to atexit.         *)
(***************************************************************************)
EXTENDS Integers, Sequences

CONSTANTS
  Directories,   \* directories in which agents run
  Worktrees,     \* those of them that are worktrees of dev syncs
  CloneOf,       \* the clone of each directory's repository
  MaxSessions,   \* bound: sessions on the server
  MaxRuns,       \* bound: runtime handles
  MaxTroubles    \* bound: lost connections, failed calls, timeouts, questions, anonymous errors

ASSUME OpencodeAssumption ==
  /\ Directories # {} /\ 0 \notin Directories /\ Worktrees \subseteq Directories
  /\ CloneOf \in [Directories -> Directories \ Worktrees]
  /\ MaxSessions \in Nat \ {0} /\ MaxRuns \in Nat \ {0} /\ MaxTroubles \in Nat

Sessions == 1..MaxSessions
Runs == 1..MaxRuns
Outcomes == {"none", "idle", "polled", "error", "aborted"}

VARIABLES
  \* the opencode server
  nsess, home, agent, sent, ended,
  \* its event streams
  link, stream,
  \* OpencodeEventConsumer: _sessions, the completion states, _directory_connected
  registered, outcome, connected,
  \* OpencodeEventConsumer: the status fallback thread
  snapshot, answer,
  \* OmoHttpRunner and the workers that call it
  nruns, session, completion, pc, run, lineage, result,
  \* history and bound
  lost, stray, left, troubles

serverVars == <<nsess, home, agent, sent, ended>>
streamVars == <<link, stream>>
consumerVars == <<registered, outcome, connected>>
pollVars == <<snapshot, answer>>
runVars == <<nruns, session, completion>>
workVars == <<pc, run, lineage, result>>
historyVars == <<lost, stray, left, troubles>>
vars == <<serverVars, streamVars, consumerVars, pollVars, runVars, workVars, historyVars>>

Init ==
  /\ nsess = 0 /\ home = [s \in Sessions |-> 0] /\ agent = [s \in Sessions |-> "idle"]
  /\ sent = {} /\ ended = {}
  /\ link = [d \in Directories |-> "none"] /\ stream = [d \in Directories |-> <<>>]
  /\ registered = [s \in Sessions |-> 0] /\ outcome = [h \in Runs |-> "none"]
  /\ connected = [d \in Directories |-> FALSE]
  /\ snapshot = {} /\ answer = {}
  /\ nruns = 0 /\ session = [h \in Runs |-> 0] /\ completion = [h \in Runs |-> 0]
  /\ pc = [d \in Directories |-> "free"] /\ run = [d \in Directories |-> 0]
  /\ lineage = {} /\ result = [h \in Runs |-> "none"]
  /\ lost = {} /\ stray = {} /\ left = {} /\ troubles = 0

(***************************************************************************)
(* The server and its event streams                                        *)
(***************************************************************************)

\* Something happens once more that need not: a call fails, a wait runs into its timeout,
\* an agent asks.
Trouble == /\ troubles < MaxTroubles
           /\ troubles' = troubles + 1
NoTrouble == UNCHANGED troubles

\* The server publishes an event of session s in its directory: it reaches a listener
\* whose stream is open and nobody else, and is never sent again.
Emit(kind, s) ==
  IF link[home[s]] = "open"
    THEN /\ stream' = [stream EXCEPT ![home[s]] = Append(@, <<kind, s>>)]
         /\ UNCHANGED lost
    ELSE /\ lost' = lost \cup {s}
         /\ UNCHANGED stream

RunsOf(s) == {h \in Runs : session[h] = s}

\* The agent of s is through with every prompt it was sent, or fails.
AgentStops(s, kind) ==
  /\ agent[s] = "busy"
  /\ agent' = [agent EXCEPT ![s] = "idle"]
  /\ ended' = ended \cup (RunsOf(s) \cap sent)
  /\ Emit(kind, s)
  /\ UNCHANGED <<nsess, home, sent, link, consumerVars, pollVars, runVars, workVars, stray, left, troubles>>

\* The agent asks for a permission and goes no further until it is granted.
AgentAsks(s) ==
  /\ agent[s] = "busy" /\ Trouble
  /\ agent' = [agent EXCEPT ![s] = "asking"]
  /\ Emit("permission", s)
  /\ UNCHANGED <<nsess, home, sent, ended, link, consumerVars, pollVars, runVars, workVars, stray, left>>

\* A session.error without a sessionID.
ServerErrs(d) ==
  /\ link[d] = "open" /\ Trouble
  /\ stream' = [stream EXCEPT ![d] = Append(@, <<"error", 0>>)]
  /\ UNCHANGED <<serverVars, link, consumerVars, pollVars, runVars, workVars, lost, stray, left>>

\* stream_events opens the stream.  The code counts on some event to learn that it is
\* connected; whether the server sends one at once is left open.
Connect(d) ==
  /\ link[d] = "connecting"
  /\ link' = [link EXCEPT ![d] = "open"]
  /\ \E greeting \in {<<>>, << <<"other", 0>> >>} : stream' = [stream EXCEPT ![d] = greeting]
  /\ UNCHANGED <<serverVars, consumerVars, pollVars, runVars, workVars, historyVars>>

\* The connection breaks; what has arrived can still be read.
Break(d) ==
  /\ link[d] = "open" /\ Trouble
  /\ link' = [link EXCEPT ![d] = "broken"]
  /\ \E n \in 0..Len(stream[d]) :
       /\ stream' = [stream EXCEPT ![d] = SubSeq(@, 1, n)]
       /\ lost' = lost \cup ({stream[d][i][2] : i \in (n + 1)..Len(stream[d])} \ {0})
  /\ UNCHANGED <<serverVars, consumerVars, pollVars, runVars, workVars, stray, left>>

(***************************************************************************)
(* OpencodeEventConsumer                                                   *)
(***************************************************************************)

Pending == {s \in Sessions : registered[s] # 0 /\ outcome[registered[s]] = "none"}

\* A mistake: an event ends every pending run.
MarkAll(S, o) ==
  outcome' = [h \in Runs |-> IF \E s \in Pending : registered[s] = h THEN o ELSE outcome[h]]

\* _mark_idle and _record_error_locked: the completion states of the pending sessions
\* among S are set.
Mark(S, o) ==
  LET hit == {registered[s] : s \in S \cap Pending}
  IN outcome' = [h \in Runs |-> IF h \in hit THEN o ELSE outcome[h]]

\* A mistake: only the questions of registered sessions are answered.
RespondRegistered(s) ==
  /\ agent' = [agent EXCEPT ![s] = IF @ = "asking" /\ registered[s] # 0 THEN "busy" ELSE @]
  /\ NoTrouble /\ UNCHANGED lost

\* respond_permission, which may not get through; the event does not come again.
Respond(s) ==
  \/ /\ NoTrouble
     /\ agent' = [agent EXCEPT ![s] = IF @ = "asking" THEN "busy" ELSE @]
     /\ UNCHANGED lost
  \/ /\ Trouble
     /\ lost' = lost \cup {s}
     /\ UNCHANGED agent

\* A mistake: any event of a session ends its run.
ReadEventAny(d) ==
  /\ stream[d] # <<>>
  /\ stream' = [stream EXCEPT ![d] = Tail(@)]
  /\ connected' = [connected EXCEPT ![d] = TRUE]
  /\ Mark({Head(stream[d])[2]} \cap Sessions, Head(stream[d])[1])
  /\ UNCHANGED <<serverVars, link, registered, pollVars, runVars, workVars, historyVars>>

\* One turn of the listener's loop: it is connected once it reads anything.  An error
\* without a session fails every pending session, of every directory.  (The code looks
\* them up one by one; one that is registered meanwhile is as one the error came after.)
ReadEvent(d) ==
  /\ stream[d] # <<>>
  /\ stream' = [stream EXCEPT ![d] = Tail(@)]
  /\ connected' = [connected EXCEPT ![d] = TRUE]
  /\ LET kind == Head(stream[d])[1]
         s == Head(stream[d])[2]
     IN \/ /\ kind \in {"idle", "error"}
           /\ Mark(IF s = 0 THEN Sessions ELSE {s}, kind)
           /\ NoTrouble /\ UNCHANGED <<agent, lost>>
        \/ /\ kind = "permission"
           /\ Respond(s)
           /\ UNCHANGED outcome
        \/ /\ kind = "other"
           /\ NoTrouble /\ UNCHANGED <<agent, lost, outcome>>
  /\ UNCHANGED <<nsess, home, sent, ended, link, registered, pollVars, runVars, workVars, stray, left>>

\* A mistake: connected is not cleared.
NoticeSilently(d) ==
  /\ link[d] = "broken" /\ stream[d] = <<>>
  /\ link' = [link EXCEPT ![d] = "connecting"]
  /\ UNCHANGED <<serverVars, stream, consumerVars, pollVars, runVars, workVars, historyVars>>

\* The stream has ended or failed: the listener says so and, after a pause, connects again.
Notice(d) ==
  /\ link[d] = "broken" /\ stream[d] = <<>>
  /\ connected' = [connected EXCEPT ![d] = FALSE]
  /\ link' = [link EXCEPT ![d] = "connecting"]
  /\ UNCHANGED <<serverVars, stream, registered, outcome, pollVars, runVars, workVars, historyVars>>

Listened == {d \in Directories : link[d] # "none"}
AllConnected == /\ Listened # {}
                /\ \A d \in Listened : connected[d]

\* The fallback thread wakes up: it notes the pending sessions, unless every listener is
\* connected.
PollTick ==
  /\ snapshot = {} /\ answer = {}
  /\ ~AllConnected
  /\ Pending # {}
  /\ snapshot' = Pending
  /\ UNCHANGED <<serverVars, streamVars, consumerVars, answer, runVars, workVars, historyVars>>

\* It asks for the sessions of one directory; a poll that fails is not repeated before
\* the next tick.
PollAsk(d) ==
  /\ answer = {}
  /\ LET here == {s \in snapshot : home[s] = d}
     IN /\ here # {}
        /\ snapshot' = snapshot \ here
        /\ \/ /\ answer' = {s \in here : agent[s] = "idle"}
              /\ NoTrouble
           \/ /\ Trouble
              /\ UNCHANGED answer
  /\ UNCHANGED <<serverVars, streamVars, consumerVars, runVars, workVars, lost, stray, left>>

\* _mark_idle_for_matching: what was pending and idle then is marked now, whatever state
\* is registered for it now.
PollMark(s) ==
  /\ s \in answer
  /\ Mark({s}, "polled")
  /\ answer' = answer \ {s}
  /\ UNCHANGED <<serverVars, streamVars, registered, connected, snapshot, runVars, workVars, historyVars>>

(***************************************************************************)
(* OmoHttpRunner                                                           *)
(***************************************************************************)

\* The worker begins run nruns + 1 in d, on session s.
Begin(d, s) ==
  /\ \A e \in Directories : CloneOf[e] = CloneOf[d] => pc[e] = "free"
  /\ nruns < MaxRuns
  /\ nruns' = nruns + 1
  /\ run' = [run EXCEPT ![d] = nruns + 1]
  /\ pc' = [pc EXCEPT ![d] = "prepared"]
  /\ session' = [session EXCEPT ![nruns + 1] = s]
  /\ UNCHANGED <<completion, lineage, result>>

\* launch: POST /session.  The dev sync of a worktree is run once.
Launch(d) ==
  /\ nsess < MaxSessions
  /\ d \in Worktrees => \A s \in 1..nsess : home[s] # d
  /\ nsess' = nsess + 1
  /\ home' = [home EXCEPT ![nsess + 1] = d]
  /\ Begin(d, nsess + 1)
  /\ UNCHANGED <<agent, sent, ended, streamVars, consumerVars, pollVars, historyVars>>

\* resume: GET /session/{id} finds it.  A follow-up resumes the session of an issue
\* request or follow-up, and so does the recovery of one; nothing resumes the session
\* of a dev sync.
Resume(d, s) ==
  /\ s \in lineage /\ home[s] = d
  /\ Begin(d, s)
  /\ UNCHANGED <<serverVars, streamVars, consumerVars, pollVars, historyVars>>

\* register_session: a completion state that is still there is used again.  The first
\* registration of a directory starts its listener.
Register(d) ==
  LET h == run[d]
      s == session[h]
      state == IF registered[s] = 0 THEN h ELSE registered[s]
  IN /\ pc[d] = "prepared"
     /\ registered' = [registered EXCEPT ![s] = state]
     /\ completion' = [completion EXCEPT ![h] = state]
     /\ link' = [link EXCEPT ![d] = IF @ = "none" THEN "connecting" ELSE @]
     /\ pc' = [pc EXCEPT ![d] = "registered"]
     /\ UNCHANGED <<serverVars, stream, outcome, connected, pollVars, nruns, session,
                    run, lineage, result, historyVars>>

\* The server takes the prompt of run h.
Accept(h) ==
  /\ agent' = [agent EXCEPT ![session[h]] = IF @ = "idle" THEN "busy" ELSE @]
  /\ sent' = sent \cup {h}
  /\ lost' = IF agent[session[h]] = "idle" THEN lost \ {session[h]} ELSE lost

\* send_prompt_async succeeds, and the service stores the session: that of an issue
\* request, a follow-up or a recovery may be resumed.
SendPrompt(d) ==
  LET h == run[d]
  IN /\ pc[d] = "registered"
     /\ Accept(h)
     /\ pc' = [pc EXCEPT ![d] = "waiting"]
     /\ lineage' = IF d \in Worktrees THEN lineage ELSE lineage \cup {session[h]}
     /\ UNCHANGED <<nsess, home, ended, streamVars, consumerVars, pollVars, runVars, run, result,
                    stray, left, troubles>>

\* A mistake: the session stays registered when its prompt is not sent.
SendFailsOnly(d) ==
  /\ pc[d] = "registered" /\ Trouble
  /\ result' = [result EXCEPT ![run[d]] = "unsent"]
  /\ pc' = [pc EXCEPT ![d] = "free"]
  /\ UNCHANGED <<serverVars, streamVars, consumerVars, pollVars, runVars, run, lineage, lost, stray, left>>

\* send_prompt_async fails, perhaps only in its answer; the session is unregistered.
SendFails(d) ==
  LET h == run[d]
      s == session[h]
  IN /\ pc[d] = "registered" /\ Trouble
     /\ \/ /\ Accept(h)
           /\ stray' = stray \cup {s}
        \/ UNCHANGED <<agent, sent, lost, stray>>
     /\ registered' = [registered EXCEPT ![s] = 0]
     /\ result' = [result EXCEPT ![h] = "unsent"]
     /\ pc' = [pc EXCEPT ![d] = "free"]
     /\ UNCHANGED <<nsess, home, ended, streamVars, outcome, connected, pollVars, runVars, run, lineage, left>>

\* A mistake: a wait that failed closes nothing, in no directory.
AfterWaitFails(d, verdict) ==
  /\ result' = [result EXCEPT ![run[d]] = verdict]
  /\ \/ /\ verdict \in {"idle", "polled", "aborted"}
        /\ pc' = [pc EXCEPT ![d] = "closing"]
        /\ UNCHANGED left
     \/ /\ d \in Worktrees \/ verdict \in {"error", "timeout"}
        /\ pc' = [pc EXCEPT ![d] = "free"]
        /\ left' = IF d \in Worktrees THEN left \cup {run[d]} ELSE left
  /\ UNCHANGED <<serverVars, streamVars, consumerVars, pollVars, runVars, run, lineage, lost, stray>>

\* What the caller does when wait has returned or raised: _execute_job_session and
\* _wait_for_comment_recovery_session close the session either way.  The handler of a
\* dev sync's conflict closes it when the sync is verified too; what raises before that,
\* the wait among it, leaves the handler with the session open.
AfterWait(d, verdict) ==
  /\ result' = [result EXCEPT ![run[d]] = verdict]
  /\ \/ /\ d \in Worktrees => verdict \in {"idle", "polled", "aborted"}
        /\ pc' = [pc EXCEPT ![d] = "closing"]
        /\ UNCHANGED left
     \/ /\ d \in Worktrees
        /\ pc' = [pc EXCEPT ![d] = "free"]
        /\ left' = left \cup {run[d]}
  /\ UNCHANGED <<serverVars, streamVars, consumerVars, pollVars, runVars, run, lineage, lost, stray>>

WaitReturns(d) ==
  /\ pc[d] = "waiting"
  /\ outcome[completion[run[d]]] # "none"
  /\ AfterWait(d, outcome[completion[run[d]]])
  /\ NoTrouble

WaitTimesOut(d) ==
  /\ pc[d] = "waiting" /\ Trouble
  /\ outcome[completion[run[d]]] = "none"
  /\ AfterWait(d, "timeout")

\* POST /session/{id}/abort stops an agent that is still at work.
AbortSession(s) ==
  \/ /\ agent[s] # "idle"
     /\ agent' = [agent EXCEPT ![s] = "idle"]
     /\ Emit("idle", s)
  \/ /\ agent[s] = "idle"
     /\ UNCHANGED <<agent, stream, lost>>

\* A mistake: a run whose completion state is set is not aborted.
AbortUnfinished(d) ==
  LET s == session[run[d]]
  IN /\ pc[d] = "closing"
     /\ pc' = [pc EXCEPT ![d] = "aborted"]
     /\ IF outcome[completion[run[d]]] = "none"
          THEN AbortSession(s)
          ELSE UNCHANGED <<agent, stream, lost>>
     /\ UNCHANGED <<nsess, home, sent, ended, link, consumerVars, pollVars, runVars, run, lineage,
                    result, stray, left, troubles>>

\* close_session, terminate: a failure of the call is only logged.
Abort(d) ==
  LET s == session[run[d]]
  IN /\ pc[d] = "closing"
     /\ pc' = [pc EXCEPT ![d] = "aborted"]
     /\ \/ /\ AbortSession(s)
           /\ stray' = stray \ {s} /\ NoTrouble
        \/ /\ Trouble
           /\ stray' = stray \cup {s}
           /\ UNCHANGED <<agent, stream, lost>>
     /\ UNCHANGED <<nsess, home, sent, ended, link, consumerVars, pollVars, runVars, run, lineage, result,
                    left>>

\* close_session, the rest: mark_aborted and unregister_session.
Unregister(d) ==
  LET s == session[run[d]]
  IN /\ pc[d] = "aborted"
     /\ outcome' = [h \in Runs |-> IF h = registered[s] THEN "aborted" ELSE outcome[h]]
     /\ registered' = [registered EXCEPT ![s] = 0]
     /\ pc' = [pc EXCEPT ![d] = "free"]
     /\ UNCHANGED <<serverVars, streamVars, connected, pollVars, runVars, run, lineage, result, historyVars>>

(***************************************************************************)
(* Specification                                                           *)
(***************************************************************************)

Worker(d) ==
  \/ Launch(d) \/ (\E s \in Sessions : Resume(d, s)) \/ Register(d)
  \/ SendPrompt(d) \/ SendFails(d) \/ WaitReturns(d) \/ WaitTimesOut(d)
  \/ Abort(d) \/ Unregister(d)

Poll == PollTick \/ (\E d \in Directories : PollAsk(d)) \/ (\E s \in Sessions : PollMark(s))

Server ==
  \/ \E s \in Sessions : (\E kind \in {"idle", "error"} : AgentStops(s, kind)) \/ AgentAsks(s)
  \/ \E d \in Directories : ServerErrs(d) \/ Break(d)

Next ==
  \/ \E d \in Directories : Worker(d) \/ Connect(d) \/ ReadEvent(d) \/ Notice(d)
  \/ Poll
  \/ Server

Spec == Init /\ [][Next]_vars

\* The threads of dani go on as long as they can: listeners read and notice, the fallback
\* thread polls, wait returns and what follows it is done.  No agent has to stop, no
\* connection has to be made again, no timeout has to run out and no run has to begin.
FairSpec ==
  /\ Spec
  /\ WF_vars(Poll)
  /\ \A d \in Directories :
       /\ WF_vars(ReadEvent(d)) /\ WF_vars(Notice(d))
       /\ WF_vars(WaitReturns(d) \/ Abort(d) \/ Unregister(d))

(***************************************************************************)
(* Properties                                                              *)
(***************************************************************************)

\* What the server publishes when it has n sessions; only an error can lack its session.
EventsOf(n) == ({"idle", "error", "permission"} \X (1..n)) \cup {<<"error", 0>>, <<"other", 0>>}

\* Every variable holds only what the code and the server put there; events and
\* registrations name sessions and runs that exist.
TypeOK ==
  /\ nsess \in 0..MaxSessions /\ nruns \in 0..MaxRuns
  /\ home \in [Sessions -> Directories \cup {0}]
  /\ agent \in [Sessions -> {"idle", "busy", "asking"}]
  /\ sent \subseteq 1..nruns /\ ended \subseteq sent
  /\ link \in [Directories -> {"none", "connecting", "open", "broken"}]
  /\ stream \in [Directories -> Seq(EventsOf(nsess))]
  /\ registered \in [Sessions -> 0..nruns] /\ outcome \in [Runs -> Outcomes]
  /\ connected \in [Directories -> BOOLEAN]
  /\ snapshot \subseteq 1..nsess /\ answer \subseteq 1..nsess
  /\ session \in [Runs -> 0..nsess] /\ completion \in [Runs -> 0..nruns]
  /\ pc \in [Directories -> {"free", "prepared", "registered", "waiting", "closing", "aborted"}]
  /\ run \in [Directories -> 0..nruns]
  /\ lineage \subseteq 1..nsess
  /\ result \in [Runs -> Outcomes \cup {"timeout", "unsent"}]
  /\ lost \subseteq 1..nsess /\ stray \subseteq 1..nsess
  /\ left \subseteq 1..nruns /\ troubles \in 0..MaxTroubles

\* A run has session s in its hands from its registration to its unregistration.
Holds(d, s) == /\ pc[d] \notin {"free", "prepared"}
               /\ session[run[d]] = s
Waits(d, h) == pc[d] = "waiting" /\ run[d] = h

\* The handler of a dev sync's conflict was left with s open.
LeftOpen(s) == \E h \in left : session[h] = s

\* The consumer forgets a session when its run is over, however it ends (a prompt that is
\* not sent, an error, a timeout, an abort that fails): what is registered is in the
\* hands of a run.  Only a worktree, in which nothing runs any more, can have a session
\* that is left (service.py:969, 853, 855, 1484, omo_http_runner.py:178, 282).
ClosedIsForgotten ==
  \A s \in Sessions : registered[s] # 0 =>
    \/ \E d \in Directories : Holds(d, s)
    \/ LeftOpen(s) /\ home[s] \in Worktrees /\ pc[home[s]] = "free"

Streaming == \A d \in Listened : link[d] = "open" /\ connected[d]

\* No agent goes on behind the back of dani: one that is at work is in the hands of a
\* run, unless the abort or the answer to the prompt got lost, or the agent of a dev sync's
\* conflict was left (omo_http_runner.py:185, task_handle.py:75, service.py:1484).
AgentHasKeeper ==
  \A s \in Sessions : agent[s] # "idle" =>
    s \in stray \/ LeftOpen(s) \/ \E d \in Directories : Holds(d, s)

\* Run e ended with an idle event, on a completion state of its own.
OwnIdle(e) == result[e] = "idle" /\ completion[e] = e

\* When an idle event ends a wait, the prompt waited for is done; only the late event of
\* an earlier run of the session, one that did not end with its own idle event, can be
\* mistaken for it (event_consumer.py:211, 226).
IdleIsEarned ==
  \A h \in Runs : result[h] = "idle" =>
    completion[h] \in ended \/ \E e \in RunsOf(session[h]) : e < h /\ ~OwnIdle(e)

\* The worker of an agent that is done learns it without waiting for the timeout, unless
\* the event got lost and every stream is open again and has been read from, which is when
\* the fallback thread does not poll (event_consumer.py:145, 157, 176).
NoticedUnlessLost ==
  \A d \in Directories, h \in Runs :
    (h \in ended /\ Waits(d, h)) ~>
      (~Waits(d, h) \/ outcome[completion[h]] # "none" \/ (session[h] \in lost /\ Streaming))

\* A question of an agent is answered, whether or not its session is registered (any
\* more), unless the event or the answer gets lost (event_consumer.py:265).
QuestionsAreAnswered ==
  \A s \in Sessions : (agent[s] = "asking") ~> (agent[s] # "asking" \/ s \in lost)

\* A run does not begin with a completion state that an earlier run of its session has
\* left set: its wait would return at once and the close after it abort the prompt just
\* sent (event_consumer.py:84 uses a state that is still there again).
BeginsUnfinished ==
  [][\A d \in Directories :
       (pc[d] = "prepared" /\ pc'[d] = "registered") => outcome[completion'[run[d]]] = "none"]_vars
=============================================================================
