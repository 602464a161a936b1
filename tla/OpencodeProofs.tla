--------------------------- MODULE OpencodeProofs ---------------------------
(***************************************************************************)
(* Proofs about OpencodeRunner, for any number of directories that share   *)
(* the server and the event consumer, of sessions, runs and troubles.      *)
(***************************************************************************)
EXTENDS OpencodeRunner, TLAPS

Phases == {"free", "prepared", "registered", "waiting", "closing", "aborted"}
Kinds == {"idle", "error", "permission"}

---------------------------------------------------------------------------
(***************************************************************************)
(* The inductive invariant, part by part.                                  *)
(***************************************************************************)

\* The server: a session that is at work exists, and so does what its events name.
ServerType ==
  /\ nsess \in 0..MaxSessions /\ nruns \in 0..MaxRuns
  /\ home \in [Sessions -> Directories \cup {0}]
  /\ \A s \in 1..nsess : home[s] \in Directories
  /\ agent \in [Sessions -> {"idle", "busy", "asking"}]
  /\ \A s \in Sessions : agent[s] # "idle" => s \in 1..nsess
  /\ sent \subseteq 1..nruns /\ ended \subseteq sent
  /\ link \in [Directories -> {"none", "connecting", "open", "broken"}]
  /\ stream \in [Directories -> Seq(EventsOf(nsess))]

\* The consumer: what is registered are sessions that exist.
ConsumerType ==
  /\ registered \in [Sessions -> 0..nruns] /\ outcome \in [Runs -> Outcomes]
  /\ \A s \in Sessions : registered[s] # 0 => s \in 1..nsess
  /\ connected \in [Directories -> BOOLEAN]
  /\ snapshot \subseteq 1..nsess /\ answer \subseteq 1..nsess

\* The workers: a run that is under way has a number and a session.
RunType ==
  /\ session \in [Runs -> 0..nsess] /\ completion \in [Runs -> 0..nruns]
  /\ left \subseteq 1..nruns
  /\ pc \in [Directories -> Phases] /\ run \in [Directories -> 0..nruns]
  /\ \A d \in Directories : pc[d] # "free" => run[d] \in 1..nruns /\ session[run[d]] \in 1..nsess
  /\ \A d \in Directories : pc[d] \in {"registered", "waiting"} => completion[run[d]] \in 1..nruns
  /\ lineage \subseteq 1..nsess
  /\ result \in [Runs -> Outcomes \cup {"timeout", "unsent"}]
  /\ lost \subseteq 1..nsess /\ stray \subseteq 1..nsess /\ troubles \in 0..MaxTroubles

TypeInv == ServerType /\ ConsumerType /\ RunType

\* Two workers never have the same run, and a run has no result before its wait is over.
RunsApart ==
  /\ \A d, e \in Directories : pc[d] # "free" /\ pc[e] # "free" /\ run[d] = run[e] => d = e
  /\ \A d \in Directories : pc[d] \in {"prepared", "registered", "waiting"} => result[run[d]] = "none"
  /\ \A h \in Runs : h > nruns => result[h] = "none"

\* A worker that may have set the agent of s to work and has not aborted it yet.
WorksOn(d, s) == pc[d] \in {"waiting", "closing"} /\ session[run[d]] = s

AgentKept ==
  \A s \in Sessions : agent[s] # "idle" =>
    s \in stray \/ LeftOpen(s) \/ \E d \in Directories : WorksOn(d, s)

\* What is registered is in the hands of a run or was left.
ClosedKept ==
  \A s \in Sessions : registered[s] # 0 => LeftOpen(s) \/ \E d \in Directories : Holds(d, s)

Inv == TypeInv /\ RunsApart /\ ClosedKept /\ AgentKept

---------------------------------------------------------------------------
(***************************************************************************)
(* Types.                                                                  *)
(***************************************************************************)

\* What the arithmetic of the proofs below needs.
LEMMA Naturals0 ==
  ASSUME ServerType
  PROVE  /\ nsess \in Nat /\ nruns \in Nat /\ MaxSessions \in Nat /\ MaxRuns \in Nat
         /\ 1..nsess \subseteq Sessions /\ 1..nruns \subseteq Runs
         /\ 0 \notin Sessions /\ 0 \notin Runs /\ Sessions \subseteq Nat /\ Runs \subseteq Nat
BY OpencodeAssumption DEF ServerType, Sessions, Runs

\* What a stream is made of when one more event is published or some are lost.
LEMMA StreamSteps ==
  ASSUME NEW n \in Nat, NEW q \in Seq(EventsOf(n))
  PROVE  /\ \A e \in EventsOf(n) : Append(q, e) \in Seq(EventsOf(n))
         /\ q # <<>> => Tail(q) \in Seq(EventsOf(n)) /\ Head(q) \in EventsOf(n)
         /\ \A k \in 0..Len(q) : SubSeq(q, 1, k) \in Seq(EventsOf(n))
         /\ q \in Seq(EventsOf(n + 1))
<1>1. EventsOf(n) \subseteq EventsOf(n + 1)
  BY DEF EventsOf
<1>2. q \in Seq(EventsOf(n + 1))
  BY <1>1
<1>3. \A k \in 0..Len(q) : SubSeq(q, 1, k) \in Seq(EventsOf(n))
  OBVIOUS
<1> QED BY <1>2, <1>3

\* A published event names a session that exists.
LEMMA EmitType ==
  ASSUME TypeInv, NEW s \in 1..nsess, NEW kind \in Kinds, Emit(kind, s)
  PROVE  stream' \in [Directories -> Seq(EventsOf(nsess))] /\ lost' \subseteq 1..nsess
<1>1. home[s] \in Directories /\ <<kind, s>> \in EventsOf(nsess) /\ nsess \in Nat
  BY Naturals0 DEF TypeInv, ServerType, EventsOf, Kinds
<1>2. Append(stream[home[s]], <<kind, s>>) \in Seq(EventsOf(nsess))
  BY <1>1, StreamSteps DEF TypeInv, ServerType
<1>3. CASE link[home[s]] = "open"
  BY <1>1, <1>2, <1>3 DEF Emit, TypeInv, ServerType, RunType
<1>4. CASE link[home[s]] # "open"
  BY <1>4 DEF Emit, TypeInv, ServerType, RunType
<1> QED BY <1>3, <1>4

\* Marking keeps the completion states typed.
LEMMA MarkType ==
  ASSUME TypeInv, NEW S, NEW o \in Outcomes, Mark(S, o)
  PROVE  outcome' \in [Runs -> Outcomes]
BY DEF Mark, TypeInv, ConsumerType

\* The types hold at the start.
LEMMA InitType == Init => TypeInv
BY OpencodeAssumption DEF Init, TypeInv, ServerType, ConsumerType, RunType, Sessions, Runs, Outcomes, Phases, EventsOf

\* What the workers and the poll do not touch stays typed.
LEMMA FrameType ==
  ASSUME TypeInv
  PROVE  /\ UNCHANGED <<serverVars, streamVars, nruns>> => ServerType'
         /\ UNCHANGED <<consumerVars, pollVars, nsess, nruns>> => ConsumerType'
         /\ UNCHANGED <<runVars, workVars, lost, stray, left, nsess>> /\ troubles' \in 0..MaxTroubles => RunType'
BY DEF TypeInv, ServerType, ConsumerType, RunType, serverVars, streamVars, consumerVars, pollVars, runVars, workVars

\* The bound on troubles is kept.
LEMMA TroubleType ==
  ASSUME TypeInv, Trouble \/ NoTrouble
  PROVE  troubles' \in 0..MaxTroubles
BY OpencodeAssumption DEF Trouble, NoTrouble, TypeInv, RunType

\* The server's own steps.
LEMMA ServerStepType ==
  ASSUME TypeInv, Server
  PROVE  TypeInv'
<1> USE DEF serverVars, streamVars, consumerVars, pollVars, runVars, workVars
<1>1. ASSUME NEW s \in Sessions, NEW kind \in {"idle", "error"}, AgentStops(s, kind) PROVE TypeInv'
  <2>1. s \in 1..nsess /\ kind \in Kinds
    BY <1>1 DEF AgentStops, TypeInv, ServerType, Kinds
  <2>2. stream' \in [Directories -> Seq(EventsOf(nsess))] /\ lost' \subseteq 1..nsess
    BY <1>1, <2>1, EmitType DEF AgentStops
  <2>3. ServerType'
    BY <1>1, <2>1, <2>2 DEF AgentStops, TypeInv, ServerType
  <2>4. ConsumerType'
    BY <1>1, FrameType DEF AgentStops
  <2>5. RunType'
    BY <1>1, <2>2 DEF AgentStops, TypeInv, RunType
  <2> QED BY <2>3, <2>4, <2>5 DEF TypeInv
<1>2. ASSUME NEW s \in Sessions, AgentAsks(s) PROVE TypeInv'
  <2>1. s \in 1..nsess /\ "permission" \in Kinds
    BY <1>2 DEF AgentAsks, TypeInv, ServerType, Kinds
  <2>2. stream' \in [Directories -> Seq(EventsOf(nsess))] /\ lost' \subseteq 1..nsess
    BY <1>2, <2>1, EmitType DEF AgentAsks
  <2>3. ServerType'
    BY <1>2, <2>1, <2>2 DEF AgentAsks, TypeInv, ServerType
  <2>4. ConsumerType'
    BY <1>2, FrameType DEF AgentAsks
  <2>5. RunType'
    BY <1>2, <2>2, TroubleType DEF AgentAsks, TypeInv, RunType
  <2> QED BY <2>3, <2>4, <2>5 DEF TypeInv
<1>3. ASSUME NEW d \in Directories, ServerErrs(d) PROVE TypeInv'
  <2>1. <<"error", 0>> \in EventsOf(nsess) /\ nsess \in Nat
    BY Naturals0 DEF EventsOf, TypeInv
  <2>2. stream' \in [Directories -> Seq(EventsOf(nsess))]
    BY <1>3, <2>1, StreamSteps DEF ServerErrs, TypeInv, ServerType
  <2>3. ServerType'
    BY <1>3, <2>2 DEF ServerErrs, TypeInv, ServerType
  <2> QED BY <1>3, <2>3, FrameType, TroubleType DEF ServerErrs, TypeInv
<1>4. ASSUME NEW d \in Directories, Break(d) PROVE TypeInv'
  <2>1. PICK n \in 0..Len(stream[d]) :
          /\ stream' = [stream EXCEPT ![d] = SubSeq(@, 1, n)]
          /\ lost' = lost \cup ({stream[d][i][2] : i \in (n + 1)..Len(stream[d])} \ {0})
    BY <1>4 DEF Break
  <2>2. stream[d] \in Seq(EventsOf(nsess)) /\ nsess \in Nat
    BY Naturals0 DEF TypeInv, ServerType
  <2>3. SubSeq(stream[d], 1, n) \in Seq(EventsOf(nsess))
    BY <2>2, StreamSteps
  <2>4. stream' \in [Directories -> Seq(EventsOf(nsess))]
    BY <2>1, <2>3 DEF TypeInv, ServerType
  <2>5. \A i \in (n + 1)..Len(stream[d]) : stream[d][i] \in EventsOf(nsess)
    BY <2>1, <2>2
  <2>6. \A e \in EventsOf(nsess) : e[2] \in 0..nsess
    BY <2>2 DEF EventsOf
  <2>7. \A i \in (n + 1)..Len(stream[d]) : stream[d][i][2] \in 0..nsess
    BY <2>5, <2>6
  <2>8. lost' \subseteq 1..nsess
    <3>1. {stream[d][i][2] : i \in (n + 1)..Len(stream[d])} \ {0} \subseteq 1..nsess
      BY <2>2, <2>7
    <3>2. lost \subseteq 1..nsess
      BY DEF TypeInv, RunType
    <3> QED BY <2>1, <3>1, <3>2
  <2>9. ServerType'
    BY <1>4, <2>4 DEF Break, TypeInv, ServerType
  <2>10. RunType'
    BY <1>4, <2>8, TroubleType DEF Break, TypeInv, RunType
  <2> QED BY <1>4, <2>9, <2>10, FrameType DEF Break, TypeInv
<1> QED BY <1>1, <1>2, <1>3, <1>4 DEF Server

\* The listeners and the fallback thread.
LEMMA ConsumerStepType ==
  ASSUME TypeInv,
         Poll \/ \E d \in Directories : Connect(d) \/ ReadEvent(d) \/ Notice(d)
  PROVE  TypeInv'
<1> USE DEF serverVars, streamVars, consumerVars, pollVars, runVars, workVars, historyVars
<1>1. ASSUME NEW d \in Directories, Connect(d) PROVE TypeInv'
  <2>1. PICK g \in {<<>>, << <<"other", 0>> >>} : stream' = [stream EXCEPT ![d] = g]
    BY <1>1 DEF Connect
  <2>2. g \in Seq(EventsOf(nsess))
    <3>1. <<"other", 0>> \in EventsOf(nsess)
      BY DEF EventsOf
    <3>2. CASE g = <<>>
      BY <3>2
    <3>3. CASE g = << <<"other", 0>> >>
      BY <3>1, <3>3
    <3> QED BY <2>1, <3>2, <3>3
  <2>3. ServerType'
    BY <1>1, <2>1, <2>2 DEF Connect, TypeInv, ServerType
  <2> QED BY <1>1, <2>3, FrameType DEF Connect, TypeInv, RunType
<1>2. ASSUME NEW d \in Directories, ReadEvent(d) PROVE TypeInv'
  <2> DEFINE e == Head(stream[d])
  <2>1. stream[d] \in Seq(EventsOf(nsess)) /\ stream[d] # <<>> /\ nsess \in Nat
    BY <1>2, Naturals0 DEF ReadEvent, TypeInv, ServerType
  <2>2. Tail(stream[d]) \in Seq(EventsOf(nsess)) /\ e \in EventsOf(nsess)
    BY <2>1, StreamSteps
  <2>3. stream' \in [Directories -> Seq(EventsOf(nsess))]
    BY <1>2, <2>2 DEF ReadEvent, TypeInv, ServerType
  <2>4. e[1] = "permission" => e[2] \in 1..nsess
    BY <2>2 DEF EventsOf
  <2> HIDE DEF e
  <2>5. CASE e[1] \in {"idle", "error"}
    <3>1. Mark(IF e[2] = 0 THEN Sessions ELSE {e[2]}, e[1]) /\ e[1] \in Outcomes /\ NoTrouble /\ UNCHANGED <<agent, lost>>
      BY <1>2, <2>5 DEF ReadEvent, e, Outcomes
    <3>2. outcome' \in [Runs -> Outcomes]
      BY <3>1, MarkType
    <3>3. ServerType'
      BY <1>2, <2>3, <3>1 DEF ReadEvent, TypeInv, ServerType
    <3>4. ConsumerType'
      BY <1>2, <3>2 DEF ReadEvent, TypeInv, ConsumerType
    <3> QED BY <1>2, <3>1, <3>3, <3>4, FrameType, TroubleType DEF ReadEvent, TypeInv
  <2>6. CASE e[1] = "permission"
    <3>1. Respond(e[2]) /\ UNCHANGED outcome
      BY <1>2, <2>6 DEF ReadEvent, e
    <3>2. agent' \in [Sessions -> {"idle", "busy", "asking"}] /\ (\A s \in Sessions : agent'[s] # "idle" => agent[s] # "idle")
      BY <3>1 DEF Respond, TypeInv, ServerType
    <3>3. ServerType'
      BY <1>2, <2>3, <3>2 DEF ReadEvent, TypeInv, ServerType
    <3>4. ConsumerType'
      BY <1>2, <3>1 DEF ReadEvent, TypeInv, ConsumerType
    <3>5. lost' \subseteq 1..nsess /\ (Trouble \/ NoTrouble)
      BY <2>4, <2>6, <3>1 DEF Respond, TypeInv, RunType
    <3>6. RunType'
      BY <1>2, <3>5, TroubleType DEF ReadEvent, TypeInv, RunType
    <3> QED BY <3>3, <3>4, <3>6 DEF TypeInv
  <2>7. CASE e[1] = "other"
    <3>1. NoTrouble /\ UNCHANGED <<agent, lost, outcome>>
      BY <1>2, <2>7 DEF ReadEvent, e
    <3>2. ServerType'
      BY <1>2, <2>3, <3>1 DEF ReadEvent, TypeInv, ServerType
    <3>3. ConsumerType'
      BY <1>2, <3>1 DEF ReadEvent, TypeInv, ConsumerType
    <3> QED BY <1>2, <3>1, <3>2, <3>3, FrameType, TroubleType DEF ReadEvent, TypeInv
  <2> QED BY <1>2, <2>5, <2>6, <2>7 DEF ReadEvent, e
<1>3. ASSUME NEW d \in Directories, Notice(d) PROVE TypeInv'
  BY <1>3 DEF Notice, TypeInv, ServerType, ConsumerType, RunType
<1>4. CASE PollTick
  <2>1. Pending \subseteq 1..nsess
    BY DEF Pending, TypeInv, ConsumerType
  <2>2. ConsumerType'
    BY <1>4, <2>1 DEF PollTick, TypeInv, ConsumerType
  <2> QED BY <1>4, <2>2, FrameType DEF PollTick, TypeInv, RunType
<1>5. ASSUME NEW d \in Directories, PollAsk(d) PROVE TypeInv'
  <2>1. ConsumerType'
    BY <1>5 DEF PollAsk, TypeInv, ConsumerType
  <2>2. Trouble \/ NoTrouble
    BY <1>5 DEF PollAsk
  <2> QED BY <1>5, <2>1, <2>2, FrameType, TroubleType DEF PollAsk, TypeInv
<1>6. ASSUME NEW s \in Sessions, PollMark(s) PROVE TypeInv'
  <2>1. outcome' \in [Runs -> Outcomes]
    BY <1>6, MarkType DEF PollMark, Outcomes
  <2>2. ConsumerType'
    BY <1>6, <2>1 DEF PollMark, TypeInv, ConsumerType
  <2> QED BY <1>6, <2>2, FrameType DEF PollMark, TypeInv, RunType
<1> QED BY <1>1, <1>2, <1>3, <1>4, <1>5, <1>6 DEF Poll

\* The workers' steps.
LEMMA WorkerStepType ==
  ASSUME TypeInv, NEW d \in Directories, Worker(d)
  PROVE  TypeInv'
<1> USE DEF serverVars, streamVars, consumerVars, pollVars, runVars, workVars, historyVars
<1>0. /\ nsess \in Nat /\ nruns \in Nat /\ 1..nsess \subseteq Sessions /\ 1..nruns \subseteq Runs
      /\ MaxSessions \in Nat /\ MaxRuns \in Nat /\ 0 \notin Sessions
  BY Naturals0 DEF TypeInv
<1>1. ASSUME NEW s, Begin(d, s), s \in 1..nsess', nsess' \in {nsess, nsess + 1}, UNCHANGED <<lost, stray, left, troubles>>
      PROVE  RunType' /\ nruns' = nruns + 1 /\ nruns' \in 0..MaxRuns
  <2>1. nruns' = nruns + 1 /\ nruns + 1 \in Runs /\ nruns' \in 0..MaxRuns
    BY <1>0, <1>1 DEF Begin, Runs
  <2>2. session' \in [Runs -> 0..nsess'] /\ completion' \in [Runs -> 0..nruns']
    BY <1>0, <1>1, <2>1 DEF Begin, TypeInv, RunType
  <2>3. left' \subseteq 1..nruns'
    BY <1>0, <1>1, <2>1 DEF TypeInv, RunType
  <2>4. pc' \in [Directories -> Phases] /\ run' \in [Directories -> 0..nruns']
    BY <1>0, <1>1, <2>1 DEF Begin, TypeInv, RunType, Phases
  <2>5. \A e \in Directories : pc'[e] # "free" => run'[e] \in 1..nruns' /\ session'[run'[e]] \in 1..nsess'
    BY <1>0, <1>1, <2>1 DEF Begin, TypeInv, RunType
  <2>6. \A e \in Directories : pc'[e] \in {"registered", "waiting"} => completion'[run'[e]] \in 1..nruns'
    BY <1>0, <1>1, <2>1 DEF Begin, TypeInv, RunType
  <2>7. lineage' \subseteq 1..nsess' /\ lost' \subseteq 1..nsess' /\ stray' \subseteq 1..nsess'
    BY <1>0, <1>1 DEF Begin, TypeInv, RunType
  <2> QED BY <1>1, <2>1, <2>2, <2>3, <2>4, <2>5, <2>6, <2>7 DEF Begin, TypeInv, RunType
<1>2. CASE Launch(d)
  <2>1. nsess + 1 \in Sessions /\ nsess' = nsess + 1 /\ nsess' \in 0..MaxSessions /\ nsess + 1 \in 1..nsess'
    BY <1>0, <1>2 DEF Launch, Sessions
  <2>2. RunType' /\ nruns' = nruns + 1 /\ nruns' \in 0..MaxRuns
    BY <1>1, <1>2, <2>1 DEF Launch
  <2>3. stream' \in [Directories -> Seq(EventsOf(nsess'))]
    BY <1>0, <1>2, <2>1, StreamSteps DEF Launch, TypeInv, ServerType
  <2>4. home' \in [Sessions -> Directories \cup {0}] /\ \A s \in 1..nsess' : home'[s] \in Directories
    BY <1>0, <1>2, <2>1 DEF Launch, TypeInv, ServerType
  <2>5. ServerType'
    BY <1>0, <1>2, <2>1, <2>2, <2>3, <2>4 DEF Launch, TypeInv, ServerType
  <2>6. ConsumerType'
    BY <1>0, <1>2, <2>1, <2>2 DEF Launch, TypeInv, ConsumerType
  <2> QED BY <2>2, <2>5, <2>6 DEF TypeInv
<1>3. ASSUME NEW s \in Sessions, Resume(d, s) PROVE TypeInv'
  <2>1. s \in 1..nsess' /\ nsess' = nsess
    BY <1>3 DEF Resume, TypeInv, RunType
  <2>2. RunType' /\ nruns' = nruns + 1 /\ nruns' \in 0..MaxRuns
    BY <1>1, <1>3, <2>1 DEF Resume
  <2>3. ServerType'
    BY <1>0, <1>3, <2>2 DEF Resume, TypeInv, ServerType
  <2>4. ConsumerType'
    BY <1>0, <1>3, <2>2 DEF Resume, TypeInv, ConsumerType
  <2> QED BY <2>2, <2>3, <2>4 DEF TypeInv
<1> DEFINE h == run[d]
           s == session[h]
<1>4. pc[d] # "free" => h \in 1..nruns /\ h \in Runs /\ s \in 1..nsess /\ s \in Sessions
  BY <1>0 DEF TypeInv, RunType
<1>5. CASE Register(d)
  <2> DEFINE state == IF registered[s] = 0 THEN h ELSE registered[s]
  <2>0. pc[d] = "prepared"
    BY <1>5 DEF Register
  <2>1. /\ state \in 1..nruns
        /\ registered' = [registered EXCEPT ![s] = state] /\ completion' = [completion EXCEPT ![h] = state]
    <3>1. registered[s] \in 0..nruns /\ h \in 1..nruns
      BY <1>4, <2>0 DEF TypeInv, ConsumerType
    <3> QED BY <1>0, <1>5, <3>1 DEF Register
  <2> HIDE DEF state
  <2>2. ServerType'
    BY <1>5 DEF Register, TypeInv, ServerType
  <2>3. ConsumerType'
    BY <1>0, <1>4, <1>5, <2>1 DEF Register, TypeInv, ConsumerType
  <2>4. completion' \in [Runs -> 0..nruns]
    <3>1. completion \in [Runs -> 0..nruns] /\ state \in 0..nruns
      BY <1>0, <2>1 DEF TypeInv, RunType
    <3> HIDE DEF h
    <3> QED BY <2>1, <3>1
  <2>5. \A e \in Directories : pc'[e] \in {"registered", "waiting"} => completion'[run[e]] \in 1..nruns
    BY <1>0, <1>4, <1>5, <2>1 DEF Register, TypeInv, RunType
  <2>6. RunType'
    BY <1>0, <1>4, <1>5, <2>4, <2>5 DEF Register, TypeInv, RunType, Phases
  <2> QED BY <2>2, <2>3, <2>6 DEF TypeInv
<1>6. ASSUME pc[d] = "registered", Accept(h)
      PROVE  /\ agent' \in [Sessions -> {"idle", "busy", "asking"}] /\ sent' \subseteq 1..nruns /\ ended \subseteq sent'
             /\ \A x \in Sessions : agent'[x] # "idle" => x \in 1..nsess
             /\ lost' \subseteq 1..nsess
  BY <1>4, <1>6 DEF Accept, TypeInv, ServerType, RunType
<1>7. CASE SendPrompt(d)
  <2>1. pc[d] = "registered" /\ Accept(h)
    BY <1>7 DEF SendPrompt
  <2>2. ServerType'
    BY <1>6, <1>7, <2>1 DEF SendPrompt, TypeInv, ServerType
  <2>3. ConsumerType'
    BY <1>7, FrameType DEF SendPrompt
  <2>4. lineage' \subseteq 1..nsess
    BY <1>4, <1>7, <2>1 DEF SendPrompt, TypeInv, RunType
  <2>5. RunType'
    BY <1>4, <1>6, <1>7, <2>1, <2>4 DEF SendPrompt, TypeInv, RunType, Phases
  <2> QED BY <2>2, <2>3, <2>5 DEF TypeInv
<1>8. CASE SendFails(d)
  <2>1. pc[d] = "registered" /\ Trouble
    BY <1>8 DEF SendFails
  <2>2. /\ agent' \in [Sessions -> {"idle", "busy", "asking"}] /\ sent' \subseteq 1..nruns /\ ended \subseteq sent'
        /\ \A x \in Sessions : agent'[x] # "idle" => x \in 1..nsess
        /\ lost' \subseteq 1..nsess /\ stray' \subseteq 1..nsess
    BY <1>4, <1>6, <1>8, <2>1 DEF SendFails, TypeInv, ServerType, RunType
  <2>3. ServerType'
    BY <1>8, <2>2 DEF SendFails, TypeInv, ServerType
  <2>4. ConsumerType'
    BY <1>0, <1>4, <1>8, <2>1 DEF SendFails, TypeInv, ConsumerType
  <2>5. RunType'
    BY <1>4, <1>8, <2>1, <2>2, TroubleType DEF SendFails, TypeInv, RunType, Phases
  <2> QED BY <2>3, <2>4, <2>5 DEF TypeInv
<1>9. ASSUME NEW verdict \in Outcomes \cup {"timeout"}, AfterWait(d, verdict), pc[d] = "waiting", Trouble \/ NoTrouble
      PROVE  TypeInv'
  <2>1. RunType'
    BY <1>4, <1>9, TroubleType DEF AfterWait, TypeInv, RunType, Phases
  <2> QED BY <1>9, <2>1, FrameType DEF AfterWait, TypeInv
<1>10. CASE WaitReturns(d)
  <2>1. outcome[completion[h]] \in Outcomes
    BY <1>0, <1>10 DEF WaitReturns, TypeInv, RunType, ConsumerType
  <2> QED BY <1>9, <1>10, <2>1 DEF WaitReturns
<1>11. CASE WaitTimesOut(d)
  BY <1>9, <1>11 DEF WaitTimesOut
<1>12. CASE Abort(d)
  <2>1. pc[d] = "closing" /\ (Trouble \/ NoTrouble)
    BY <1>12 DEF Abort
  <2>2. /\ agent' \in [Sessions -> {"idle", "busy", "asking"}]
        /\ \A x \in Sessions : agent'[x] # "idle" => agent[x] # "idle"
    BY <1>12 DEF Abort, AbortSession, TypeInv, ServerType
  <2>3. stream' \in [Directories -> Seq(EventsOf(nsess))] /\ lost' \subseteq 1..nsess
    <3>1. CASE UNCHANGED <<stream, lost>>
      BY <3>1 DEF TypeInv, ServerType, RunType
    <3>2. CASE Emit("idle", s)
      BY <1>4, <2>1, <3>2, EmitType DEF Kinds
    <3> QED BY <1>12, <3>1, <3>2 DEF Abort, AbortSession
  <2>4. stray' \subseteq 1..nsess
    BY <1>4, <1>12, <2>1 DEF Abort, TypeInv, RunType
  <2>5. ServerType'
    BY <1>12, <2>2, <2>3 DEF Abort, TypeInv, ServerType
  <2>6. RunType'
    BY <1>4, <1>12, <2>1, <2>3, <2>4, TroubleType DEF Abort, TypeInv, RunType, Phases
  <2> QED BY <1>12, <2>5, <2>6, FrameType DEF Abort, TypeInv
<1>13. CASE Unregister(d)
  <2>1. pc[d] = "aborted"
    BY <1>13 DEF Unregister
  <2>2. ConsumerType'
    BY <1>0, <1>4, <1>13, <2>1 DEF Unregister, TypeInv, ConsumerType, Outcomes
  <2>3. RunType'
    BY <1>4, <1>13, <2>1 DEF Unregister, TypeInv, RunType, Phases
  <2> QED BY <1>13, <2>2, <2>3, FrameType DEF Unregister, TypeInv
<1> QED BY <1>2, <1>3, <1>5, <1>7, <1>8, <1>10, <1>11, <1>12, <1>13 DEF Worker

\* Every step keeps the types.
LEMMA StepType == TypeInv /\ [Next]_vars => TypeInv'
<1> SUFFICES ASSUME TypeInv, [Next]_vars PROVE TypeInv'
  OBVIOUS
<1>1. CASE UNCHANGED vars
  BY <1>1 DEF vars, serverVars, streamVars, consumerVars, pollVars, runVars, workVars, historyVars,
     TypeInv, ServerType, ConsumerType, RunType
<1>2. CASE Next
  BY <1>2, ServerStepType, ConsumerStepType, WorkerStepType DEF Next
<1> QED BY <1>1, <1>2

\* Every variable holds only what the code and the server put there.
THEOREM TypeCorrect == Spec => []TypeOK
<1>1. TypeInv => TypeOK
  BY DEF TypeInv, ServerType, ConsumerType, RunType, TypeOK, Phases
<1> QED BY <1>1, InitType, StepType, PTL DEF Spec

---------------------------------------------------------------------------
(***************************************************************************)
(* What is registered and what is at work is in somebody's hands.          *)
(***************************************************************************)

\* Nothing is registered or at work at the start.
LEMMA InitKept == Init => RunsApart /\ ClosedKept /\ AgentKept
BY DEF Init, RunsApart, ClosedKept, AgentKept

\* What a step of a listener, the fallback thread or the server leaves alone.
LEMMA OthersStep ==
  ASSUME TypeInv, Server \/ Poll \/ \E d \in Directories : Connect(d) \/ ReadEvent(d) \/ Notice(d)
  PROVE  /\ UNCHANGED <<nruns, session, completion, left, pc, run, lineage, result, registered, stray, nsess>>
         /\ \A s \in Sessions : agent'[s] # "idle" => agent[s] # "idle"
<1> USE DEF serverVars, streamVars, consumerVars, pollVars, runVars, workVars, historyVars
<1>1. ASSUME NEW s \in Sessions, NEW kind \in {"idle", "error"}, AgentStops(s, kind)
      PROVE  /\ UNCHANGED <<nruns, session, completion, left, pc, run, lineage, result, registered, stray, nsess>>
             /\ \A x \in Sessions : agent'[x] # "idle" => agent[x] # "idle"
  BY <1>1 DEF AgentStops, TypeInv, ServerType
<1>2. ASSUME NEW s \in Sessions, AgentAsks(s)
      PROVE  /\ UNCHANGED <<nruns, session, completion, left, pc, run, lineage, result, registered, stray, nsess>>
             /\ \A x \in Sessions : agent'[x] # "idle" => agent[x] # "idle"
  BY <1>2 DEF AgentAsks, TypeInv, ServerType
<1>3. ASSUME NEW d \in Directories, ReadEvent(d)
      PROVE  \A x \in Sessions : agent'[x] # "idle" => agent[x] # "idle"
  BY <1>3 DEF ReadEvent, Respond, TypeInv, ServerType
<1>4. ASSUME NEW d \in Directories, ServerErrs(d) \/ Break(d) \/ Connect(d) \/ ReadEvent(d) \/ Notice(d)
      PROVE  UNCHANGED <<nruns, session, completion, left, pc, run, lineage, result, registered, stray, nsess>>
  BY <1>4 DEF ServerErrs, Break, Connect, ReadEvent, Notice
<1>5. ASSUME NEW d \in Directories, ServerErrs(d) \/ Break(d) \/ Connect(d) \/ Notice(d)
      PROVE  UNCHANGED agent
  BY <1>5 DEF ServerErrs, Break, Connect, Notice
<1>6. CASE Poll
  BY <1>6 DEF Poll, PollTick, PollAsk, PollMark
<1> QED BY <1>1, <1>2, <1>3, <1>4, <1>5, <1>6 DEF Server

\* A worker keeps or hands over what it has in its hands.
LEMMA WorkerKeeps ==
  ASSUME Inv, TypeInv', NEW d \in Directories, Worker(d)
  PROVE  RunsApart' /\ ClosedKept' /\ AgentKept'
<1> USE DEF serverVars, streamVars, consumerVars, pollVars, runVars, workVars, historyVars
<1> DEFINE h == run[d]
           s == session[h]
<1>1. /\ nruns \in Nat /\ Runs \subseteq Nat /\ 1..nruns \subseteq Runs /\ left \subseteq 1..nruns
      /\ session \in [Runs -> 0..nsess] /\ result \in [Runs -> Outcomes \cup {"timeout", "unsent"}]
      /\ pc \in [Directories -> Phases] /\ run \in [Directories -> 0..nruns]
      /\ agent \in [Sessions -> {"idle", "busy", "asking"}] /\ registered \in [Sessions -> 0..nruns]
  BY Naturals0 DEF Inv, TypeInv, RunType, ServerType, ConsumerType
<1>2. pc[d] # "free" => h \in 1..nruns /\ h \in Runs /\ s \in Sessions
  BY <1>1, Naturals0 DEF Inv, TypeInv, RunType
<1>3. \A e \in Directories : pc[e] # "free" /\ e # d /\ pc[d] # "free" => run[e] # h
  BY DEF Inv, RunsApart
<1>4. ASSUME NEW x \in 1..nsess', Begin(d, x), UNCHANGED <<agent, registered, stray, left>>
      PROVE  RunsApart' /\ ClosedKept' /\ AgentKept'
  <2>1. nruns' = nruns + 1 /\ nruns + 1 \in Runs /\ nruns + 1 \notin left /\ result[nruns + 1] = "none"
    <3>1. nruns' = nruns + 1 /\ nruns < MaxRuns
      BY <1>4 DEF Begin
    <3>2. nruns + 1 \in Runs /\ nruns + 1 \notin left /\ nruns + 1 > nruns
      BY <1>1, <3>1, OpencodeAssumption DEF Runs
    <3> QED BY <3>1, <3>2 DEF Inv, RunsApart
  <2>2. /\ pc' = [pc EXCEPT ![d] = "prepared"] /\ run' = [run EXCEPT ![d] = nruns + 1] /\ result' = result
        /\ session' = [session EXCEPT ![nruns + 1] = x] /\ pc[d] = "free"
    BY <1>4 DEF Begin
  <2>3. \A e \in Directories : e # d => pc'[e] = pc[e] /\ run'[e] = run[e] /\ run[e] # nruns + 1
    BY <1>1, <2>2
  <2>4. \A e \in Directories : e # d /\ pc[e] # "free" => run[e] \in 1..nruns /\ session'[run[e]] = session[run[e]]
    BY <1>1, <2>2, <2>3 DEF Inv, TypeInv, RunType
  <2>5. RunsApart'
    <3>1. pc'[d] = "prepared" /\ run'[d] = nruns + 1
      BY <1>1, <2>2
    <3>2. \A g \in Runs : g > nruns' => result'[g] = "none"
      BY <1>1, <2>1, <2>2 DEF Inv, RunsApart
    <3> QED BY <2>1, <2>2, <2>3, <3>1, <3>2 DEF Inv, RunsApart
  <2>6. \A y \in Sessions : LeftOpen(y) => LeftOpen(y)'
    <3>1. \A g \in left : g \in Runs /\ g # nruns + 1
      BY <1>1, <2>1
    <3>2. \A g \in left : session'[g] = session[g]
      BY <1>1, <2>2, <3>1
    <3> QED BY <1>4, <3>2 DEF LeftOpen
  <2>7. ClosedKept'
    BY <1>4, <2>2, <2>3, <2>4, <2>6 DEF Inv, ClosedKept, Holds
  <2>8. AgentKept'
    BY <1>4, <2>2, <2>3, <2>4, <2>6 DEF Inv, AgentKept, WorksOn
  <2> QED BY <2>5, <2>7, <2>8
<1>5. CASE Launch(d)
  <2>1. nsess + 1 \in 1..nsess'
    BY <1>5, Naturals0 DEF Launch, Inv, TypeInv
  <2> QED BY <1>4, <1>5, <2>1 DEF Launch
<1>6. ASSUME NEW x \in Sessions, Resume(d, x) PROVE RunsApart' /\ ClosedKept' /\ AgentKept'
  <2>1. x \in 1..nsess'
    BY <1>6 DEF Resume, Inv, TypeInv, RunType
  <2> QED BY <1>4, <1>6, <2>1 DEF Resume
\* From here on the worker keeps its run.
<1>7. ASSUME UNCHANGED <<session, run, nruns>>, left \subseteq left', pc[d] # "free",
             NEW to \in Phases, pc' = [pc EXCEPT ![d] = to],
             \/ UNCHANGED result /\ (to \in {"prepared", "registered", "waiting"} => pc[d] \in {"prepared", "registered", "waiting"})
             \/ to \notin {"prepared", "registered", "waiting"} /\ \E v : result' = [result EXCEPT ![h] = v]
      PROVE  RunsApart' /\ \A y : LeftOpen(y) => LeftOpen(y)'
  <2>1. RunsApart'
    <3>1. pc'[d] = to /\ \A e \in Directories : e # d => pc'[e] = pc[e]
      BY <1>1, <1>7
    <3>2. \A g \in Runs : g # h => result'[g] = result[g]
      BY <1>1, <1>7
    <3>3. \A e \in Directories : pc'[e] # "free" /\ e # d => run[e] # h /\ run[e] \in Runs
      BY <1>1, <1>3, <1>7, <3>1 DEF Inv, TypeInv, RunType
    <3>4. to \in {"prepared", "registered", "waiting"} => result'[h] = "none"
      BY <1>7 DEF Inv, RunsApart
    <3>5. \A g \in Runs : g > nruns => result'[g] = "none"
      BY <1>1, <1>2, <1>7, <3>2 DEF Inv, RunsApart
    <3>6. \A e \in Directories : pc'[e] \in {"prepared", "registered", "waiting"} => result'[run[e]] = "none"
      BY <3>1, <3>2, <3>3, <3>4 DEF Inv, RunsApart
    <3>7. \A e, f \in Directories : pc'[e] # "free" /\ pc'[f] # "free" /\ run[e] = run[f] => e = f
      BY <1>7, <3>1 DEF Inv, RunsApart
    <3> QED BY <1>7, <3>5, <3>6, <3>7 DEF RunsApart
  <2>2. \A y : LeftOpen(y) => LeftOpen(y)'
    BY <1>7 DEF LeftOpen
  <2> QED BY <2>1, <2>2
<1>8. CASE Register(d)
  <2>1. /\ pc[d] = "prepared" /\ pc' = [pc EXCEPT ![d] = "registered"]
        /\ UNCHANGED <<session, left, run, nruns, result, agent, stray>>
        /\ \E v : registered' = [registered EXCEPT ![s] = v]
    BY <1>8 DEF Register
  <2>2. RunsApart' /\ \A y : LeftOpen(y) => LeftOpen(y)'
    BY <1>7, <2>1 DEF Phases
  <2>3. Holds(d, s)'
    BY <1>1, <2>1 DEF Holds
  <2>4. \A e \in Directories, y \in Sessions : Holds(e, y) => Holds(e, y)'
    BY <1>1, <2>1 DEF Holds
  <2>5. ClosedKept'
    BY <1>1, <2>1, <2>2, <2>3, <2>4 DEF Inv, ClosedKept
  <2>6. \A e \in Directories, y \in Sessions : WorksOn(e, y) => WorksOn(e, y)'
    BY <1>1, <2>1 DEF WorksOn
  <2>7. AgentKept'
    BY <2>1, <2>2, <2>6 DEF Inv, AgentKept
  <2> QED BY <2>2, <2>5, <2>7
<1>9. CASE SendPrompt(d)
  <2>1. /\ pc[d] = "registered" /\ pc' = [pc EXCEPT ![d] = "waiting"]
        /\ UNCHANGED <<session, left, run, nruns, result, registered, stray>>
        /\ \A y \in Sessions : y # s => agent'[y] = agent[y]
    BY <1>1, <1>2, <1>9 DEF SendPrompt, Accept
  <2>2. RunsApart' /\ \A y : LeftOpen(y) => LeftOpen(y)'
    BY <1>7, <2>1 DEF Phases
  <2>3. \A e \in Directories, y \in Sessions : Holds(e, y) => Holds(e, y)'
    BY <1>1, <2>1 DEF Holds
  <2>4. ClosedKept'
    BY <2>1, <2>2, <2>3 DEF Inv, ClosedKept
  <2>5. \A e \in Directories, y \in Sessions : WorksOn(e, y) => WorksOn(e, y)'
    BY <1>1, <2>1 DEF WorksOn
  <2>6. WorksOn(d, s)'
    BY <1>1, <2>1 DEF WorksOn
  <2>7. AgentKept'
    BY <2>1, <2>2, <2>5, <2>6 DEF Inv, AgentKept
  <2> QED BY <2>2, <2>4, <2>7
<1>10. CASE SendFails(d)
  <2>1. /\ pc[d] = "registered" /\ pc' = [pc EXCEPT ![d] = "free"]
        /\ UNCHANGED <<session, left, run, nruns>>
        /\ registered' = [registered EXCEPT ![s] = 0] /\ result' = [result EXCEPT ![h] = "unsent"]
        /\ stray \subseteq stray' /\ \A y \in Sessions : agent'[y] = agent[y] \/ y \in stray'
    BY <1>1, <1>2, <1>10 DEF SendFails, Accept
  <2>2. RunsApart' /\ \A y : LeftOpen(y) => LeftOpen(y)'
    BY <1>7, <2>1 DEF Phases
  <2>3. \A e \in Directories, y \in Sessions : y # s /\ Holds(e, y) => Holds(e, y)'
    BY <1>1, <2>1 DEF Holds
  <2>4. ClosedKept'
    BY <1>1, <1>2, <2>1, <2>2, <2>3 DEF Inv, ClosedKept
  <2>5. \A e \in Directories, y \in Sessions : WorksOn(e, y) => WorksOn(e, y)'
    BY <1>1, <2>1 DEF WorksOn
  <2>6. AgentKept'
    BY <2>1, <2>2, <2>5 DEF Inv, AgentKept
  <2> QED BY <2>2, <2>4, <2>6
<1>11. ASSUME NEW v \in (Outcomes \cup {"timeout"}) \ {"none"}, AfterWait(d, v), pc[d] = "waiting"
       PROVE  RunsApart' /\ ClosedKept' /\ AgentKept'
  <2>1. PICK to \in {"free", "closing"} :
          /\ pc' = [pc EXCEPT ![d] = to] /\ result' = [result EXCEPT ![h] = v]
          /\ UNCHANGED <<session, run, nruns, registered, agent, stray>>
          /\ left \subseteq left' /\ (to = "free" => h \in left')
    BY <1>11 DEF AfterWait
  <2>2. RunsApart' /\ \A y : LeftOpen(y) => LeftOpen(y)'
    BY <1>7, <1>11, <2>1 DEF Phases
  <2>3. to = "free" => LeftOpen(s)'
    BY <2>1 DEF LeftOpen
  <2>5. \A e \in Directories, y \in Sessions : Holds(e, y) => Holds(e, y)' \/ LeftOpen(y)'
    BY <1>1, <1>11, <2>1, <2>3 DEF Holds
  <2>6. ClosedKept'
    BY <2>1, <2>2, <2>5 DEF Inv, ClosedKept
  <2>7. \A e \in Directories, y \in Sessions : WorksOn(e, y) => WorksOn(e, y)' \/ LeftOpen(y)'
    BY <1>1, <1>11, <2>1, <2>3 DEF WorksOn
  <2>8. AgentKept'
    BY <2>1, <2>2, <2>7 DEF Inv, AgentKept
  <2> QED BY <2>2, <2>6, <2>8
<1>12. CASE WaitReturns(d)
  <2>1. pc[d] = "waiting" /\ outcome[completion[h]] # "none" /\ AfterWait(d, outcome[completion[h]])
    BY <1>12 DEF WaitReturns
  <2>2. outcome[completion[h]] \in Outcomes
    BY <1>1, <2>1 DEF Inv, TypeInv, RunType, ConsumerType
  <2> QED BY <1>11, <2>1, <2>2
<1>13. CASE WaitTimesOut(d)
  BY <1>11, <1>13 DEF WaitTimesOut, Outcomes
<1>14. CASE Abort(d)
  <2>1. /\ pc[d] = "closing" /\ pc' = [pc EXCEPT ![d] = "aborted"]
        /\ UNCHANGED <<session, left, run, nruns, result, registered>>
        /\ \A y \in Sessions : agent'[y] # "idle" => agent[y] # "idle"
        /\ \/ agent'[s] = "idle" /\ stray' = stray \ {s}
           \/ stray' = stray \cup {s}
    BY <1>1, <1>2, <1>14 DEF Abort, AbortSession
  <2>2. RunsApart' /\ \A y : LeftOpen(y) => LeftOpen(y)'
    BY <1>7, <2>1 DEF Phases
  <2>3. \A e \in Directories, y \in Sessions : Holds(e, y) => Holds(e, y)'
    BY <1>1, <2>1 DEF Holds
  <2>4. ClosedKept'
    BY <2>1, <2>2, <2>3 DEF Inv, ClosedKept
  <2>5. \A e \in Directories, y \in Sessions : y # s /\ WorksOn(e, y) => WorksOn(e, y)'
    BY <1>1, <2>1 DEF WorksOn
  <2>6. AgentKept'
    BY <2>1, <2>2, <2>5 DEF Inv, AgentKept
  <2> QED BY <2>2, <2>4, <2>6
<1>15. CASE Unregister(d)
  <2>1. /\ pc[d] = "aborted" /\ pc' = [pc EXCEPT ![d] = "free"]
        /\ UNCHANGED <<session, left, run, nruns, result, agent, stray>>
        /\ registered' = [registered EXCEPT ![s] = 0]
    BY <1>15 DEF Unregister
  <2>2. RunsApart' /\ \A y : LeftOpen(y) => LeftOpen(y)'
    BY <1>7, <2>1 DEF Phases
  <2>3. \A e \in Directories, y \in Sessions : y # s /\ Holds(e, y) => Holds(e, y)'
    BY <1>1, <2>1 DEF Holds
  <2>4. ClosedKept'
    BY <1>1, <1>2, <2>1, <2>2, <2>3 DEF Inv, ClosedKept
  <2>5. \A e \in Directories, y \in Sessions : WorksOn(e, y) => WorksOn(e, y)'
    BY <1>1, <2>1 DEF WorksOn
  <2>6. AgentKept'
    BY <2>1, <2>2, <2>5 DEF Inv, AgentKept
  <2> QED BY <2>2, <2>4, <2>6
<1> QED BY <1>5, <1>6, <1>8, <1>9, <1>10, <1>12, <1>13, <1>14, <1>15 DEF Worker

\* Every step keeps the invariant.
LEMMA StepInv == Inv /\ [Next]_vars => Inv'
<1> SUFFICES ASSUME Inv, [Next]_vars PROVE Inv'
  OBVIOUS
<1>1. TypeInv'
  BY StepType DEF Inv
<1>2. ASSUME UNCHANGED <<nruns, session, completion, left, pc, run, lineage, result, registered, stray, nsess>>,
             \A s \in Sessions : agent'[s] # "idle" => agent[s] # "idle"
      PROVE  RunsApart' /\ ClosedKept' /\ AgentKept'
  BY <1>2 DEF Inv, RunsApart, ClosedKept, AgentKept, LeftOpen, Holds, WorksOn
<1>3. CASE UNCHANGED vars
  BY <1>1, <1>2, <1>3 DEF Inv, vars, serverVars, streamVars, consumerVars, pollVars, runVars, workVars, historyVars
<1>4. ASSUME NEW d \in Directories, Worker(d) PROVE Inv'
  BY <1>1, <1>4, WorkerKeeps DEF Inv
<1>5. CASE Server \/ Poll \/ \E d \in Directories : Connect(d) \/ ReadEvent(d) \/ Notice(d)
  <2>1. TypeInv
    BY DEF Inv
  <2> QED BY <1>1, <1>2, <1>5, <2>1, OthersStep DEF Inv
<1> QED BY <1>3, <1>4, <1>5 DEF Next

\* The invariant of the next theorem.
LEMMA InvHolds == Spec => []Inv
<1>1. Init => Inv
  BY InitType, InitKept DEF Inv
<1> QED BY <1>1, StepInv, PTL DEF Spec

\* No agent goes on behind the back of dani: one that is at work has a worker, or its
\* abort or the answer to its prompt got lost, or it is that of a dev sync's conflict and
\* was left.
THEOREM AgentsKept == Spec => []AgentHasKeeper
<1>1. \A d \in Directories, s \in Sessions : WorksOn(d, s) => Holds(d, s)
  BY DEF WorksOn, Holds
<1>2. Inv => AgentHasKeeper
  BY <1>1 DEF Inv, AgentKept, AgentHasKeeper
<1> QED BY <1>2, InvHolds, PTL

---------------------------------------------------------------------------
(***************************************************************************)
(* An idle event that ends a wait is the run's own, unless an earlier run of *)
(* the session ended otherwise: whose run, prompt and completion state.    *)
(***************************************************************************)

\* A worker's run is the latest of its session, which lives in the worker's directory, and
\* its prompt is sent when it waits and not before.
RunsInTurn ==
  /\ \A h \in Runs : h > nruns => session[h] = 0 /\ completion[h] = 0
  /\ \A d \in Directories : pc[d] # "free" =>
       home[session[run[d]]] = d /\ \A e \in RunsOf(session[run[d]]) : e <= run[d]
  /\ \A d \in Directories :
       /\ pc[d] = "prepared" => completion[run[d]] = 0
       /\ pc[d] \in {"prepared", "registered"} => run[d] \notin sent
       /\ pc[d] = "waiting" => run[d] \in sent

\* A completion state is made by a run of the session it is registered for, and only what
\* is registered is ever set.
Completions ==
  /\ \A s \in Sessions : registered[s] # 0 =>
       session[registered[s]] = s /\ completion[registered[s]] = registered[s]
  /\ \A d \in Directories : pc[d] \in {"registered", "waiting", "closing", "aborted"} =>
       completion[run[d]] # 0 /\ registered[session[run[d]]] = completion[run[d]]
  /\ \A h \in Runs : completion[h] # h => outcome[h] = "none"
  /\ \A h \in Runs : completion[h] # 0 => session[completion[h]] = session[h] /\ completion[h] <= h

\* Only what is registered is set.
LEMMA MarkStep ==
  ASSUME TypeInv, NEW S, NEW o, Mark(S, o)
  PROVE  \A h \in Runs : outcome'[h] = outcome[h] \/ (outcome'[h] = o /\ \E s \in S \cap Sessions : registered[s] = h)
BY DEF Mark, Pending

\* What a step of a listener, the fallback thread or the server does to homes, prompts and
\* completion states.
LEMMA OthersMark ==
  ASSUME TypeInv, Server \/ Poll \/ \E d \in Directories : Connect(d) \/ ReadEvent(d) \/ Notice(d)
  PROVE  /\ UNCHANGED <<home, sent>>
         /\ \A h \in Runs : outcome'[h] = outcome[h] \/ \E s \in Sessions : registered[s] = h
<1> USE DEF serverVars, streamVars, consumerVars, pollVars, runVars, workVars, historyVars
<1>1. ASSUME NEW s \in Sessions, (\E kind \in {"idle", "error"} : AgentStops(s, kind)) \/ AgentAsks(s)
      PROVE  UNCHANGED <<home, sent, outcome>>
  BY <1>1 DEF AgentStops, AgentAsks
<1>2. ASSUME NEW d \in Directories, ServerErrs(d) \/ Break(d) \/ Connect(d) \/ Notice(d)
      PROVE  UNCHANGED <<home, sent, outcome>>
  BY <1>2 DEF ServerErrs, Break, Connect, Notice
<1>3. ASSUME NEW d \in Directories, ReadEvent(d)
      PROVE  /\ UNCHANGED <<home, sent>>
             /\ \A h \in Runs : outcome'[h] = outcome[h] \/ \E s \in Sessions : registered[s] = h
  <2>1. UNCHANGED outcome \/ \E S : \E o : Mark(S, o)
    BY <1>3 DEF ReadEvent
  <2> QED BY <1>3, <2>1, MarkStep DEF ReadEvent
<1>4. CASE PollTick \/ \E d \in Directories : PollAsk(d)
  BY <1>4 DEF PollTick, PollAsk
<1>5. ASSUME NEW s \in Sessions, PollMark(s)
      PROVE  /\ UNCHANGED <<home, sent>>
             /\ \A h \in Runs : outcome'[h] = outcome[h] \/ \E x \in Sessions : registered[x] = h
  BY <1>5, MarkStep DEF PollMark
<1> QED BY <1>1, <1>2, <1>3, <1>4, <1>5 DEF Server, Poll

\* No run is under way at the start.
LEMMA TurnInit == Init => RunsInTurn /\ Completions
BY DEF Init, RunsInTurn, Completions, RunsOf

\* The threads that are not workers keep the runs in turn.
LEMMA TurnOthers ==
  ASSUME TypeInv, RunsInTurn, Completions,
         UNCHANGED <<nruns, session, completion, pc, run, registered, home, sent>>,
         \A h \in Runs : outcome'[h] = outcome[h] \/ \E s \in Sessions : registered[s] = h
  PROVE  RunsInTurn' /\ Completions'
<1>1. RunsInTurn'
  BY DEF RunsInTurn, RunsOf
<1>2. \A h \in Runs : completion[h] # h => outcome'[h] = "none"
  BY Naturals0 DEF Completions, TypeInv
<1>3. Completions'
  BY <1>2 DEF Completions
<1> QED BY <1>1, <1>3

\* What the worker of d knows of its run and its session, and of those of the others.
LEMMA WorkerFacts ==
  ASSUME TypeInv, RunsApart, RunsInTurn, NEW d \in Directories, pc[d] # "free"
  PROVE  /\ run[d] \in 1..nruns /\ run[d] \in Runs /\ session[run[d]] \in 1..nsess /\ session[run[d]] \in Sessions
         /\ \A e \in Directories : e # d /\ pc[e] # "free" =>
              /\ run[e] # run[d] /\ run[e] \in Runs /\ session[run[e]] \in Sessions
              /\ session[run[e]] # session[run[d]]
<1>1. run[d] \in 1..nruns /\ session[run[d]] \in 1..nsess
  BY DEF TypeInv, RunType
<1>2. \A e \in Directories : pc[e] # "free" => run[e] \in Runs /\ session[run[e]] \in Sessions
  BY Naturals0 DEF TypeInv, RunType
<1>3. \A e \in Directories : e # d /\ pc[e] # "free" => run[e] # run[d] /\ session[run[e]] # session[run[d]]
  BY DEF RunsApart, RunsInTurn
<1> QED BY <1>1, <1>2, <1>3

\* A new run is the latest of its session, whose worker has no other.
LEMMA TurnBegin ==
  ASSUME TypeInv, RunsApart, RunsInTurn, Completions, NEW d \in Directories, NEW s \in Sessions,
         Begin(d, s), UNCHANGED <<sent, registered, outcome>>,
         home' = home \/ home' = [home EXCEPT ![nsess + 1] = d], home'[s] = d
  PROVE  RunsInTurn' /\ Completions'
<1>1. /\ nruns \in Nat /\ nsess \in Nat /\ MaxRuns \in Nat /\ Runs \subseteq Nat /\ 1..nruns \subseteq Runs /\ 0 \notin Sessions /\ 0 \notin Runs
      /\ session \in [Runs -> 0..nsess] /\ completion \in [Runs -> 0..nruns] /\ sent \subseteq 1..nruns
      /\ pc \in [Directories -> Phases] /\ run \in [Directories -> 0..nruns]
      /\ registered \in [Sessions -> 0..nruns] /\ home \in [Sessions -> Directories \cup {0}]
  BY Naturals0 DEF TypeInv, RunType, ServerType, ConsumerType
<1>2. nruns' = nruns + 1 /\ nruns + 1 \in Runs /\ nruns + 1 \notin 1..nruns /\ nruns + 1 # 0
  BY <1>1 DEF Begin, Runs
<1>3. /\ pc[d] = "free" /\ pc' = [pc EXCEPT ![d] = "prepared"] /\ run' = [run EXCEPT ![d] = nruns + 1]
      /\ session' = [session EXCEPT ![nruns + 1] = s] /\ completion' = completion
  BY DEF Begin
<1>4. /\ \A h \in Runs : h # nruns + 1 => session'[h] = session[h]
      /\ session'[nruns + 1] = s /\ session[nruns + 1] = 0 /\ completion[nruns + 1] = 0
  BY <1>1, <1>2, <1>3 DEF RunsInTurn
<1>5. /\ pc'[d] = "prepared" /\ run'[d] = nruns + 1
      /\ \A e \in Directories : e # d => pc'[e] = pc[e] /\ run'[e] = run[e]
  BY <1>1, <1>3
<1>6. \A e \in Directories : pc[e] # "free" =>
        /\ run[e] \in 1..nruns /\ run[e] \in Runs /\ run[e] # nruns + 1 /\ session[run[e]] \in 1..nsess
        /\ session'[run[e]] = session[run[e]] /\ session[run[e]] # nsess + 1
  <2>1. \A e \in Directories : pc[e] # "free" => run[e] \in 1..nruns /\ session[run[e]] \in 1..nsess
    BY DEF TypeInv, RunType
  <2> QED BY <1>1, <1>2, <1>4, <2>1
<1>7. \A e \in Directories : e # d /\ pc[e] # "free" => session[run[e]] # s /\ home'[session[run[e]]] = e
  <2>1. \A x \in 1..nsess : home'[x] = home[x]
    BY <1>1, Naturals0 DEF TypeInv
  <2>2. \A e \in Directories : pc[e] # "free" => home[session[run[e]]] = e
    BY DEF RunsInTurn
  <2> QED BY <1>6, <2>1, <2>2
<1>8. \A h \in Runs : h > nruns' => session'[h] = 0 /\ completion'[h] = 0
  BY <1>1, <1>2, <1>3, <1>4 DEF RunsInTurn
<1>9. RunsInTurn'
  <2>1. \A e \in Directories : pc'[e] # "free" =>
          home'[session'[run'[e]]] = e /\ \A h \in Runs : session'[h] = session'[run'[e]] => h <= run'[e]
    <3>1. \A h \in Runs : session'[h] = s => h <= nruns + 1
      BY <1>1, <1>2, <1>4, <1>8
    <3>2. ASSUME NEW e \in Directories, e # d, pc[e] # "free"
          PROVE home'[session[run[e]]] = e /\ \A h \in Runs : session'[h] = session[run[e]] => h <= run[e]
      BY <1>4, <1>7, <3>2 DEF RunsInTurn, RunsOf
    <3> QED BY <1>4, <1>5, <1>6, <3>1, <3>2
  <2>2. \A e \in Directories :
          /\ pc'[e] = "prepared" => completion'[run'[e]] = 0
          /\ pc'[e] \in {"prepared", "registered"} => run'[e] \notin sent'
          /\ pc'[e] = "waiting" => run'[e] \in sent'
    BY <1>1, <1>2, <1>3, <1>4, <1>5 DEF RunsInTurn
  <2> QED BY <1>8, <2>1, <2>2 DEF RunsInTurn, RunsOf
<1>10. Completions'
  <2>1. \A x \in Sessions : registered[x] # 0 => session'[registered[x]] = x /\ completion[registered[x]] = registered[x]
    <3>1. \A x \in Sessions : registered[x] # 0 => registered[x] # nruns + 1 /\ registered[x] \in Runs
      BY <1>1, <1>2
    <3> QED BY <1>4, <3>1 DEF Completions
  <2>2. \A e \in Directories : pc'[e] \in {"registered", "waiting", "closing", "aborted"} =>
          completion[run'[e]] # 0 /\ registered[session'[run'[e]]] = completion[run'[e]]
    BY <1>5, <1>6 DEF Completions
  <2>3. \A h \in Runs : completion[h] # 0 => session'[completion[h]] = session'[h] /\ completion[h] <= h
    <3>1. \A h \in Runs : completion[h] # 0 => h # nruns + 1 /\ completion[h] \in Runs /\ completion[h] # nruns + 1
      BY <1>1, <1>2, <1>4
    <3> QED BY <1>4, <3>1 DEF Completions
  <2> QED BY <1>3, <2>1, <2>2, <2>3 DEF Completions
<1> QED BY <1>9, <1>10

\* A registration makes a completion state or takes over that of an earlier run.
LEMMA TurnRegister ==
  ASSUME TypeInv, RunsApart, RunsInTurn, Completions, NEW d \in Directories, Register(d)
  PROVE  RunsInTurn' /\ Completions'
<1> DEFINE h == run[d]
           s == session[h]
<1> USE DEF serverVars, streamVars, consumerVars, pollVars, runVars, workVars, historyVars
<1>0. pc[d] = "prepared"
  BY DEF Register
<1>1. /\ h \in 1..nruns /\ h \in Runs /\ s \in Sessions
      /\ \A e \in Directories : e # d /\ pc[e] # "free" =>
            run[e] # h /\ run[e] \in Runs /\ session[run[e]] \in Sessions /\ session[run[e]] # s
  BY <1>0, WorkerFacts
<1>2. PICK k : /\ k = IF registered[s] = 0 THEN h ELSE registered[s]
               /\ registered' = [registered EXCEPT ![s] = k] /\ completion' = [completion EXCEPT ![h] = k]
  BY DEF Register
<1>3. /\ registered \in [Sessions -> 0..nruns] /\ completion \in [Runs -> 0..nruns] /\ pc \in [Directories -> Phases]
      /\ 0 \notin Runs /\ 1..nruns \subseteq Runs /\ nruns \in Nat
  BY Naturals0 DEF TypeInv, RunType, ConsumerType
<1>4. k \in Runs /\ k # 0 /\ session[k] = s /\ k <= h /\ (k = h \/ completion[k] = k) /\ completion[h] = 0
  <2>1. completion[h] = 0
    BY <1>0 DEF RunsInTurn
  <2>2. CASE registered[s] = 0
    BY <1>1, <1>2, <1>3, <2>1, <2>2
  <2>3. CASE registered[s] # 0
    <3>1. k = registered[s] /\ session[k] = s /\ completion[k] = k
      BY <1>1, <1>2, <2>3 DEF Completions
    <3>2. k \in Runs /\ k # 0
      BY <1>1, <1>3, <2>3, <3>1
    <3>3. k <= h
      BY <1>0, <3>1, <3>2 DEF RunsInTurn, RunsOf
    <3> QED BY <2>1, <3>1, <3>2, <3>3
  <2> QED BY <2>2, <2>3
<1> HIDE DEF h, s
<1>5. /\ completion'[h] = k /\ \A g \in Runs : g # h => completion'[g] = completion[g]
      /\ registered'[s] = k /\ \A x \in Sessions : x # s => registered'[x] = registered[x]
  BY <1>1, <1>2, <1>3
<1>6. /\ UNCHANGED <<nruns, session, run, sent, home, outcome>> /\ pc' = [pc EXCEPT ![d] = "registered"]
  BY DEF Register
<1>7. pc'[d] = "registered" /\ \A e \in Directories : e # d => pc'[e] = pc[e]
  BY <1>3, <1>6
<1>8. RunsInTurn'
  <2>1. \A g \in Runs : g > nruns => completion'[g] = 0
    BY <1>1, <1>3, <1>5 DEF RunsInTurn
  <2>2. \A e \in Directories : pc'[e] # "free" => pc[e] # "free"
    BY <1>0, <1>7
  <2>3. \A e \in Directories :
          /\ pc'[e] = "prepared" => completion'[run[e]] = 0
          /\ pc'[e] \in {"prepared", "registered"} => run[e] \notin sent
          /\ pc'[e] = "waiting" => run[e] \in sent
    BY <1>0, <1>1, <1>5, <1>7 DEF RunsInTurn, h
  <2> QED BY <1>6, <2>1, <2>2, <2>3 DEF RunsInTurn, RunsOf
<1>9. Completions'
  <2>1. \A x \in Sessions : registered'[x] # 0 => session[registered'[x]] = x /\ completion'[registered'[x]] = registered'[x]
    <3>1. ASSUME NEW x \in Sessions, x # s, registered[x] # 0
          PROVE  registered[x] # h /\ registered[x] \in Runs /\ session[registered[x]] = x /\ completion[registered[x]] = registered[x]
      BY <1>3, <3>1 DEF Completions, s
    <3>2. completion'[k] = k
      BY <1>4, <1>5
    <3> QED BY <1>4, <1>5, <3>1, <3>2
  <2>2. \A e \in Directories : pc'[e] \in {"registered", "waiting", "closing", "aborted"} =>
          completion'[run[e]] # 0 /\ registered'[session[run[e]]] = completion'[run[e]]
    <3>1. completion'[run[d]] # 0 /\ registered'[session[run[d]]] = completion'[run[d]]
      BY <1>4, <1>5 DEF h, s
    <3>2. ASSUME NEW e \in Directories, e # d, pc[e] \in {"registered", "waiting", "closing", "aborted"}
          PROVE completion'[run[e]] # 0 /\ registered'[session[run[e]]] = completion'[run[e]]
      BY <1>1, <1>5, <3>2 DEF Completions
    <3> QED BY <1>7, <3>1, <3>2
  <2>3. \A g \in Runs : completion'[g] # g => outcome[g] = "none"
    BY <1>1, <1>3, <1>4, <1>5 DEF Completions
  <2>4. \A g \in Runs : completion'[g] # 0 => session[completion'[g]] = session[g] /\ completion'[g] <= g
    BY <1>4, <1>5 DEF Completions, s
  <2> QED BY <1>6, <2>1, <2>2, <2>3, <2>4 DEF Completions
<1> QED BY <1>8, <1>9

\* The rest of a run: it is submitted, waited for, closed and forgotten.
LEMMA TurnOn ==
  ASSUME TypeInv, RunsApart, RunsInTurn, Completions, NEW d \in Directories, pc[d] # "free",
         UNCHANGED <<nruns, session, completion, run, home>>,
         NEW to \in Phases \ {"prepared", "registered"}, pc' = [pc EXCEPT ![d] = to],
         sent' \in {sent, sent \cup {run[d]}}, to = "waiting" => run[d] \in sent',
         pc[d] \notin {"prepared"} \/ to = "free",
         \/ registered' = registered
         \/ to = "free" /\ registered' = [registered EXCEPT ![session[run[d]]] = 0],
         \A h \in Runs : outcome'[h] = outcome[h] \/ h = registered[session[run[d]]]
  PROVE  RunsInTurn' /\ Completions'
<1> DEFINE s == session[run[d]]
<1>1. /\ run[d] \in Runs /\ s \in Sessions
      /\ \A e \in Directories : e # d /\ pc[e] # "free" =>
            run[e] # run[d] /\ run[e] \in Runs /\ session[run[e]] \in Sessions /\ session[run[e]] # s
  BY WorkerFacts
<1>2. /\ pc \in [Directories -> Phases] /\ registered \in [Sessions -> 0..nruns] /\ 0 \notin Runs
  BY Naturals0 DEF TypeInv, RunType, ConsumerType
<1>3. pc'[d] = to /\ \A e \in Directories : e # d => pc'[e] = pc[e]
  BY <1>2
<1>4. RunsInTurn'
  <2>1. \A e \in Directories :
          /\ pc'[e] = "prepared" => completion[run[e]] = 0
          /\ pc'[e] \in {"prepared", "registered"} => run[e] \notin sent'
          /\ pc'[e] = "waiting" => run[e] \in sent'
    BY <1>1, <1>3 DEF RunsInTurn
  <2>2. \A e \in Directories : pc'[e] # "free" => pc[e] # "free"
    BY <1>3
  <2> QED BY <2>1, <2>2 DEF RunsInTurn, RunsOf
<1> HIDE DEF s
<1>5. \A x \in Sessions : registered'[x] = registered[x] \/ (x = s /\ registered'[x] = 0 /\ to = "free")
  BY <1>1, <1>2 DEF s
<1>6. Completions'
  <2>1. \A x \in Sessions : registered'[x] # 0 => session[registered'[x]] = x /\ completion[registered'[x]] = registered'[x]
    BY <1>5 DEF Completions
  <2>2. \A e \in Directories : pc'[e] \in {"registered", "waiting", "closing", "aborted"} =>
          completion[run[e]] # 0 /\ registered'[session[run[e]]] = completion[run[e]]
    <3>1. ASSUME NEW e \in Directories, e # d, pc[e] \in {"registered", "waiting", "closing", "aborted"}
          PROVE completion[run[e]] # 0 /\ registered'[session[run[e]]] = completion[run[e]]
      BY <1>1, <1>5, <3>1 DEF Completions
    <3>2. ASSUME to # "free"
          PROVE completion[run[d]] # 0 /\ registered'[session[run[d]]] = completion[run[d]]
      <4>1. pc[d] \in {"registered", "waiting", "closing", "aborted"}
        BY <1>2, <3>2 DEF Phases
      <4> QED BY <3>2, <4>1 DEF Completions
    <3> QED BY <1>3, <3>1, <3>2
  <2>3. \A g \in Runs : completion[g] # g => outcome'[g] = "none"
    <3>1. registered[s] \in Runs => completion[registered[s]] = registered[s]
      BY <1>1, <1>2 DEF Completions
    <3> QED BY <3>1 DEF Completions, s
  <2> QED BY <2>1, <2>2, <2>3 DEF Completions
<1> QED BY <1>4, <1>6

\* Every step of a worker keeps the runs in turn.
LEMMA TurnWorker ==
  ASSUME TypeInv, RunsApart, RunsInTurn, Completions, NEW d \in Directories, Worker(d)
  PROVE  RunsInTurn' /\ Completions'
<1> USE DEF serverVars, streamVars, consumerVars, pollVars, runVars, workVars, historyVars
<1>1. CASE Launch(d)
  <2>1. nsess + 1 \in Sessions /\ home'[nsess + 1] = d
    <3>1. nsess + 1 \in Sessions
      BY <1>1, Naturals0 DEF Launch, TypeInv, Sessions
    <3> QED BY <1>1, <3>1 DEF Launch, TypeInv, ServerType
  <2> QED BY <1>1, <2>1, TurnBegin DEF Launch
<1>2. ASSUME NEW s \in Sessions, Resume(d, s) PROVE RunsInTurn' /\ Completions'
  BY <1>2, TurnBegin DEF Resume
<1>3. CASE Register(d)
  BY <1>3, TurnRegister
<1>4. CASE SendPrompt(d)
  BY <1>4, TurnOn DEF SendPrompt, Accept, Phases
<1>5. CASE SendFails(d)
  <2>1. sent' \in {sent, sent \cup {run[d]}}
    BY <1>5 DEF SendFails, Accept
  <2> QED BY <1>5, <2>1, TurnOn DEF SendFails, Phases
<1>6. CASE WaitReturns(d) \/ WaitTimesOut(d)
  <2>1. PICK to \in {"free", "closing"} : pc' = [pc EXCEPT ![d] = to]
    BY <1>6 DEF WaitReturns, WaitTimesOut, AfterWait
  <2> QED BY <1>6, <2>1, TurnOn DEF WaitReturns, WaitTimesOut, AfterWait, Phases
<1>7. CASE Abort(d)
  BY <1>7, TurnOn DEF Abort, Phases
<1>8. CASE Unregister(d)
  BY <1>8, TurnOn DEF Unregister, Phases
<1> QED BY <1>1, <1>2, <1>3, <1>4, <1>5, <1>6, <1>7, <1>8 DEF Worker

---------------------------------------------------------------------------
(***************************************************************************)
(* The idle events in the streams.                                         *)
(***************************************************************************)

\* The idle events of session s that listener d has not read.
Idles(d, s) == {i \in 1..Len(stream[d]) : stream[d][i] = <<"idle", s>>}

EventsAtHome == \A d \in Directories, s \in 1..nsess : Idles(d, s) # {} => d = home[s]

\* What is in the stream of d was there before: read from the front, cut off at the end.
Drained(d, s) == \E k \in {0, 1} : \A i \in Idles(d, s)' : i + k \in Idles(d, s)

\* The items of a stream after each operation on it.
LEMMA StreamItems ==
  ASSUME NEW S, NEW q \in Seq(S)
  PROVE  /\ Len(q) \in Nat
         /\ \A e \in S : /\ Len(Append(q, e)) = Len(q) + 1
                         /\ \A i \in 1..Len(q) : Append(q, e)[i] = q[i]
                         /\ Append(q, e)[Len(q) + 1] = e
         /\ q # <<>> => /\ Len(Tail(q)) = Len(q) - 1 /\ Len(q) >= 1 /\ Head(q) = q[1]
                        /\ \A i \in 1..Len(Tail(q)) : Tail(q)[i] = q[i + 1]
         /\ \A n \in 0..Len(q) : /\ Len(SubSeq(q, 1, n)) = n
                                 /\ \A i \in 1..n : SubSeq(q, 1, n)[i] = q[i]
OBVIOUS

\* An event that is published comes last in the stream of the session's home.
LEMMA EmitIdles ==
  ASSUME TypeInv, NEW s \in 1..nsess, NEW kind \in Kinds, Emit(kind, s)
  PROVE  \A d \in Directories, t \in 1..nsess :
           \A i \in Idles(d, t)' : i \in Idles(d, t) \/ (d = home[s] /\ t = s /\ kind = "idle" /\ i = Len(stream[d]) + 1)
<1>1. stream \in [Directories -> Seq(EventsOf(nsess))] /\ home[s] \in Directories /\ <<kind, s>> \in EventsOf(nsess)
  BY Naturals0 DEF TypeInv, ServerType, EventsOf, Kinds
<1>2. CASE UNCHANGED stream
  BY <1>2 DEF Idles
<1>3. CASE stream' = [stream EXCEPT ![home[s]] = Append(@, <<kind, s>>)]
  <2>1. stream'[home[s]] = Append(stream[home[s]], <<kind, s>>) /\ \A d \in Directories : d # home[s] => stream'[d] = stream[d]
    BY <1>1, <1>3
  <2>2. stream[home[s]] \in Seq(EventsOf(nsess))
    BY <1>1
  <2>3. /\ Len(stream'[home[s]]) = Len(stream[home[s]]) + 1 /\ Len(stream[home[s]]) \in Nat
        /\ \A i \in 1..Len(stream[home[s]]) : stream'[home[s]][i] = stream[home[s]][i]
        /\ stream'[home[s]][Len(stream[home[s]]) + 1] = <<kind, s>>
    BY <1>1, <2>1, <2>2, StreamItems
  <2>4. \A i \in 1..(Len(stream[home[s]]) + 1) : i \in 1..Len(stream[home[s]]) \/ i = Len(stream[home[s]]) + 1
    BY <2>3
  <2>5. ASSUME NEW d \in Directories, d # home[s], NEW t \in 1..nsess PROVE Idles(d, t)' = Idles(d, t)
    BY <2>1, <2>5 DEF Idles
  <2>6. ASSUME NEW d \in Directories, d = home[s], NEW t \in 1..nsess, NEW i \in Idles(d, t)', i \notin Idles(d, t)
        PROVE t = s /\ kind = "idle" /\ i = Len(stream[d]) + 1
    <3>1. i \in 1..(Len(stream[d]) + 1) /\ stream'[d][i] = <<"idle", t>>
      BY <2>3, <2>6 DEF Idles
    <3>2. i = Len(stream[d]) + 1
      BY <2>3, <2>4, <2>6, <3>1 DEF Idles
    <3>3. <<kind, s>> = <<"idle", t>>
      BY <2>3, <2>6, <3>1, <3>2
    <3> QED BY <3>2, <3>3
  <2> QED BY <2>5, <2>6
<1> QED BY <1>2, <1>3 DEF Emit

\* Whatever else happens to a stream, no idle event comes in.
LEMMA StreamDrains ==
  ASSUME TypeInv, NEW d \in Directories,
         \/ stream' = stream
         \/ \E n \in 0..Len(stream[d]) : stream' = [stream EXCEPT ![d] = SubSeq(@, 1, n)]
         \/ stream[d] # <<>> /\ stream' = [stream EXCEPT ![d] = Tail(@)]
         \/ stream' = [stream EXCEPT ![d] = Append(@, <<"error", 0>>)]
         \/ \E greeting \in {<<>>, << <<"other", 0>> >>} : stream' = [stream EXCEPT ![d] = greeting]
  PROVE  \A e \in Directories, s \in 1..nsess : Drained(e, s)
<1>1. stream \in [Directories -> Seq(EventsOf(nsess))] /\ <<"error", 0>> \in EventsOf(nsess) /\ 0 \notin 1..nsess /\ nsess \in Nat
  BY Naturals0 DEF TypeInv, ServerType, EventsOf
<1>2. stream[d] \in Seq(EventsOf(nsess)) /\ Len(stream[d]) \in Nat
  BY <1>1
<1>3. ASSUME NEW e \in Directories, NEW s \in 1..nsess, stream'[e] = stream[e] PROVE Drained(e, s)
  BY <1>1, <1>3 DEF Drained, Idles
<1>4. \A e \in Directories, s \in 1..nsess : e # d => Drained(e, s)
  BY <1>1, <1>3
<1>5. ASSUME NEW s \in 1..nsess PROVE Drained(d, s)
  <2>1. CASE stream' = stream
    BY <1>3, <2>1
  <2>2. ASSUME NEW n \in 0..Len(stream[d]), stream' = [stream EXCEPT ![d] = SubSeq(@, 1, n)] PROVE Drained(d, s)
    <3>1. Len(stream'[d]) = n /\ \A i \in 1..n : stream'[d][i] = stream[d][i]
      BY <1>1, <1>2, <2>2, StreamItems
    <3>2. \A i \in Idles(d, s)' : i + 0 \in Idles(d, s)
      BY <1>2, <3>1 DEF Idles
    <3> QED BY <3>2 DEF Drained
  <2>3. CASE stream[d] # <<>> /\ stream' = [stream EXCEPT ![d] = Tail(@)]
    <3>1. Len(stream'[d]) = Len(stream[d]) - 1 /\ \A i \in 1..Len(stream'[d]) : stream'[d][i] = stream[d][i + 1]
      BY <1>1, <1>2, <2>3, StreamItems
    <3>2. \A i \in Idles(d, s)' : i + 1 \in Idles(d, s)
      BY <1>2, <3>1 DEF Idles
    <3> QED BY <3>2 DEF Drained
  <2>4. CASE stream' = [stream EXCEPT ![d] = Append(@, <<"error", 0>>)]
    <3>1. /\ Len(stream'[d]) = Len(stream[d]) + 1 /\ stream'[d][Len(stream[d]) + 1] = <<"error", 0>>
          /\ \A i \in 1..Len(stream[d]) : stream'[d][i] = stream[d][i]
      BY <1>1, <1>2, <2>4, StreamItems
    <3>2. \A i \in Idles(d, s)' : i + 0 \in Idles(d, s)
      BY <1>2, <3>1 DEF Idles
    <3> QED BY <3>2 DEF Drained
  <2>5. ASSUME NEW g \in {<<>>, << <<"other", 0>> >>}, stream' = [stream EXCEPT ![d] = g] PROVE Drained(d, s)
    <3>1. stream'[d] = g
      BY <1>1, <2>5
    <3>2. Idles(d, s)' = {}
      BY <2>5, <3>1 DEF Idles
    <3> QED BY <3>2 DEF Drained
  <2> QED BY <2>1, <2>2, <2>3, <2>4, <2>5
<1> QED BY <1>4, <1>5

\* The events about a session that is not there yet: there are none.
LEMMA NoEventsBefore ==
  ASSUME TypeInv, NEW d \in Directories
  PROVE  Idles(d, nsess + 1) = {}
<1>1. stream[d] \in Seq(EventsOf(nsess)) /\ nsess \in Nat
  BY Naturals0 DEF TypeInv, ServerType
<1>2. \A i \in 1..Len(stream[d]) : stream[d][i] \in EventsOf(nsess)
  BY <1>1
<1>3. <<"idle", nsess + 1>> \notin EventsOf(nsess)
  BY <1>1 DEF EventsOf
<1> QED BY <1>2, <1>3 DEF Idles

\* What each step does to the streams.
LEMMA StreamOthers ==
  ASSUME TypeInv, Poll \/ (\E d \in Directories : ServerErrs(d) \/ Break(d) \/ Connect(d) \/ ReadEvent(d) \/ Notice(d))
  PROVE  \A e \in Directories, s \in 1..nsess : Drained(e, s)
<1>1. CASE Poll
  <2>1. Directories # {} /\ stream' = stream
    BY <1>1, OpencodeAssumption DEF Poll, PollTick, PollAsk, PollMark, streamVars
  <2> QED BY <2>1, StreamDrains
<1>2. ASSUME NEW d \in Directories, ServerErrs(d) \/ Break(d) \/ Connect(d) \/ ReadEvent(d) \/ Notice(d)
      PROVE \A e \in Directories, s \in 1..nsess : Drained(e, s)
  <2>1. CASE ServerErrs(d)
    BY <2>1, StreamDrains DEF ServerErrs
  <2>2. CASE Break(d)
    BY <2>2, StreamDrains DEF Break
  <2>3. CASE Connect(d)
    BY <2>3, StreamDrains DEF Connect
  <2>4. CASE ReadEvent(d)
    BY <2>4, StreamDrains DEF ReadEvent
  <2>5. CASE Notice(d)
    BY <2>5, StreamDrains DEF Notice
  <2> QED BY <1>2, <2>1, <2>2, <2>3, <2>4, <2>5
<1> QED BY <1>1, <1>2

\* The one thing a worker makes the server publish is the end of an agent it aborts.
LEMMA StreamWorker ==
  ASSUME TypeInv, NEW d \in Directories, Worker(d)
  PROVE  stream' = stream \/ (Abort(d) /\ agent[session[run[d]]] # "idle" /\ Emit("idle", session[run[d]]))
<1>1. CASE Abort(d)
  BY <1>1 DEF Abort, AbortSession
<1>2. CASE Launch(d) \/ (\E s \in Sessions : Resume(d, s)) \/ Register(d) \/ SendPrompt(d) \/ SendFails(d)
           \/ WaitReturns(d) \/ WaitTimesOut(d) \/ Unregister(d)
  BY <1>2 DEF Launch, Resume, Register, SendPrompt, SendFails, WaitReturns, WaitTimesOut, AfterWait, Unregister, streamVars
<1> QED BY <1>1, <1>2 DEF Worker

\* The idle events of a session are published in its home only.
LEMMA HomeStep ==
  ASSUME TypeInv, EventsAtHome, [Next]_vars
  PROVE  EventsAtHome'
<1>1. /\ Server \/ Poll \/ (\E d \in Directories : Connect(d) \/ ReadEvent(d) \/ Notice(d)) => UNCHANGED <<home, nsess>>
  BY OthersStep, OthersMark
<1>2. ASSUME UNCHANGED <<home, nsess>>, \A e \in Directories, s \in 1..nsess : Drained(e, s) PROVE EventsAtHome'
  BY <1>2 DEF EventsAtHome, Drained
<1>3. ASSUME UNCHANGED <<home, nsess>>, NEW s \in 1..nsess, NEW kind \in Kinds, Emit(kind, s) PROVE EventsAtHome'
  BY <1>3, EmitIdles DEF EventsAtHome
<1>4. ASSUME stream' = stream, UNCHANGED <<home, nsess>> PROVE EventsAtHome'
  BY <1>4 DEF EventsAtHome, Idles
<1>5. CASE UNCHANGED vars
  BY <1>4, <1>5 DEF vars, serverVars, streamVars
<1>6. ASSUME NEW s \in Sessions, NEW kind \in {"idle", "error"}, AgentStops(s, kind) PROVE EventsAtHome'
  <2>1. s \in 1..nsess /\ kind \in Kinds
    BY <1>6 DEF AgentStops, TypeInv, ServerType, Kinds
  <2> QED BY <1>3, <1>6, <2>1 DEF AgentStops
<1>7. ASSUME NEW s \in Sessions, AgentAsks(s) PROVE EventsAtHome'
  <2>1. s \in 1..nsess /\ "permission" \in Kinds
    BY <1>7 DEF AgentAsks, TypeInv, ServerType, Kinds
  <2> QED BY <1>3, <1>7, <2>1 DEF AgentAsks
<1>8. CASE Poll \/ (\E d \in Directories : ServerErrs(d) \/ Break(d) \/ Connect(d) \/ ReadEvent(d) \/ Notice(d))
  BY <1>1, <1>2, <1>8, StreamOthers DEF Server
<1>9. ASSUME NEW d \in Directories, Worker(d), ~Launch(d) PROVE EventsAtHome'
  <2>1. UNCHANGED <<home, nsess>>
    BY <1>9 DEF Worker, Resume, Register, SendPrompt, SendFails, WaitReturns, WaitTimesOut, AfterWait, Abort, Unregister, serverVars
  <2>2. CASE stream' = stream
    BY <1>4, <2>1, <2>2
  <2>3. CASE Abort(d) /\ Emit("idle", session[run[d]])
    <3>1. session[run[d]] \in 1..nsess /\ "idle" \in Kinds
      BY <2>3 DEF Abort, TypeInv, RunType, Kinds
    <3> QED BY <1>3, <2>1, <2>3, <3>1
  <2> QED BY <1>9, <2>2, <2>3, StreamWorker
<1>10. ASSUME NEW d \in Directories, Launch(d) PROVE EventsAtHome'
  <2>1. stream' = stream /\ nsess' = nsess + 1 /\ home' = [home EXCEPT ![nsess + 1] = d]
    BY <1>10 DEF Launch, streamVars
  <2>2. \A s \in 1..nsess' : s = nsess + 1 \/ (s \in 1..nsess /\ home'[s] = home[s])
    BY <2>1, Naturals0 DEF TypeInv, ServerType
  <2>3. \A e \in Directories, s \in 1..nsess' : Idles(e, s)' # {} => e = home'[s]
    <3> SUFFICES ASSUME NEW e \in Directories, NEW n \in 1..nsess', NEW s, n = s, Idles(e, s) # {} PROVE e = home'[s]
      BY <2>1 DEF Idles
    <3> QED BY <2>2, NoEventsBefore DEF EventsAtHome
  <2> QED BY <2>3 DEF EventsAtHome
<1> QED BY <1>5, <1>6, <1>7, <1>8, <1>9, <1>10 DEF Next, Server

---------------------------------------------------------------------------
(***************************************************************************)
(* While every run of a session ends with its own idle event, the agent and *)
(* the one idle event under way belong to the run that waits.              *)
(***************************************************************************)

\* Every run of the session so far has ended with its own idle event, or is under way with
\* a completion state of its own.
Spotless(s) == \A e \in RunsOf(s) : result[e] \in {"idle", "none"} /\ completion[e] \in {0, e}

\* The worker of d waits for the idle event of s.
Awaits(d, s) == pc[d] = "waiting" /\ session[run[d]] = s /\ outcome[run[d]] # "idle"

\* The agent and the one idle event there can be are those of the run that waits.
PureAt(d, s) ==
  /\ Idles(d, s) # {} => Awaits(d, s) /\ run[d] \in ended
  /\ \A i, j \in Idles(d, s) : i = j
  /\ agent[s] # "idle" => Awaits(d, s) /\ run[d] \notin ended
  /\ (pc[d] \in {"registered", "waiting"} /\ session[run[d]] = s /\ outcome[run[d]] = "idle") => run[d] \in ended

Pure == \A d \in Directories, s \in 1..nsess : home[s] = d /\ Spotless(s) => PureAt(d, s)

EarnInv == TypeInv /\ RunsApart /\ RunsInTurn /\ Completions /\ EventsAtHome /\ Pure

\* A stream that drains gets no second idle event.
LEMMA IdlesDrained ==
  ASSUME TypeInv, NEW d \in Directories, NEW s, Drained(d, s), \A i, j \in Idles(d, s) : i = j
  PROVE  /\ Idles(d, s) = {} => Idles(d, s)' = {}
         /\ \A i, j \in Idles(d, s)' : i = j
<1>1. PICK k \in {0, 1} : \A i \in Idles(d, s)' : i + k \in Idles(d, s)
  BY DEF Drained
<1>2. \A i \in Idles(d, s)' : i \in Int
  BY DEF Idles
<1>3. Idles(d, s) = {} => Idles(d, s)' = {}
  BY <1>1
<1>4. ASSUME NEW i \in Idles(d, s)', NEW j \in Idles(d, s)' PROVE i = j
  <2>1. i + k = j + k /\ i \in Int /\ j \in Int /\ k \in Int
    BY <1>1, <1>2, <1>4
  <2> QED BY <2>1
<1> QED BY <1>3, <1>4

\* What a step must leave alone for a session to stay in order.
LEMMA PureFrame ==
  ASSUME TypeInv, NEW d \in Directories, NEW s, PureAt(d, s), Drained(d, s),
         agent'[s] # "idle" => agent[s] # "idle",
         Awaits(d, s) => Awaits(d, s)' /\ run'[d] = run[d] /\ (run[d] \in ended' <=> run[d] \in ended),
         (pc'[d] \in {"registered", "waiting"} /\ session'[run'[d]] = s /\ outcome'[run'[d]] = "idle") => run'[d] \in ended'
  PROVE  PureAt(d, s)'
<1>1. /\ Idles(d, s) = {} => Idles(d, s)' = {}
      /\ \A i, j \in Idles(d, s)' : i = j
  BY IdlesDrained DEF PureAt
<1>2. Idles(d, s)' # {} => Awaits(d, s)' /\ run'[d] \in ended'
  BY <1>1 DEF PureAt
<1>3. agent'[s] # "idle" => Awaits(d, s)' /\ run'[d] \notin ended'
  BY DEF PureAt
<1> QED BY <1>1, <1>2, <1>3 DEF PureAt

\* No listener, fallback thread or agent of another session disturbs it.
LEMMA PureAround ==
  ASSUME TypeInv, NEW d \in Directories, NEW s \in 1..nsess, PureAt(d, s), Drained(d, s),
         UNCHANGED <<pc, run, session>>, agent'[s] # "idle" => agent[s] # "idle",
         session[run[d]] = s => (run[d] \in ended' <=> run[d] \in ended),
         \A h \in RunsOf(s) : outcome'[h] = "idle" => outcome[h] = "idle"
  PROVE  PureAt(d, s)'
<1>1. pc[d] \in {"registered", "waiting"} => run[d] \in Runs
  BY Naturals0 DEF TypeInv, RunType
<1>2. Awaits(d, s) => Awaits(d, s)' /\ run'[d] = run[d] /\ (run[d] \in ended' <=> run[d] \in ended)
  BY <1>1 DEF Awaits, RunsOf
<1>3. (pc'[d] \in {"registered", "waiting"} /\ session'[run'[d]] = s /\ outcome'[run'[d]] = "idle") => run'[d] \in ended'
  BY <1>1 DEF PureAt, RunsOf
<1> QED BY <1>2, <1>3, PureFrame

\* An agent stops: the run that waits for it has ended and its idle event is the first.
LEMMA PureStops ==
  ASSUME EarnInv, NEW a \in Sessions, NEW kind \in {"idle", "error"}, AgentStops(a, kind),
         NEW d \in Directories, NEW s \in 1..nsess, home[s] = d, PureAt(d, s)
  PROVE  PureAt(d, s)'
<1> USE DEF consumerVars, pollVars, runVars, workVars
<1>1. a \in 1..nsess /\ kind \in Kinds /\ Emit(kind, a) /\ agent[a] = "busy" /\ agent' = [agent EXCEPT ![a] = "idle"]
  BY DEF AgentStops, EarnInv, TypeInv, ServerType, Kinds
<1>2. /\ UNCHANGED <<pc, run, session, outcome, sent>> /\ ended' = ended \cup (RunsOf(a) \cap sent)
      /\ agent \in [Sessions -> {"idle", "busy", "asking"}] /\ nsess \in Nat
  BY Naturals0 DEF AgentStops, EarnInv, TypeInv, ServerType
<1>3. \A i \in Idles(d, s)' : i \in Idles(d, s) \/ (s = a /\ kind = "idle" /\ i = Len(stream[d]) + 1)
  BY <1>1, EmitIdles DEF EarnInv
<1>4. CASE s # a
  <2>1. Drained(d, s)
    <3>1. \A i \in Idles(d, s)' : i + 0 \in Idles(d, s)
      BY <1>3, <1>4 DEF Idles
    <3> QED BY <3>1 DEF Drained
  <2>2. session[run[d]] = s => (run[d] \in ended' <=> run[d] \in ended)
    BY <1>2, <1>4 DEF RunsOf
  <2>3. agent'[s] = agent[s]
    BY <1>1, <1>2, <1>4
  <2> QED BY <1>2, <2>1, <2>2, <2>3, PureAround DEF EarnInv
<1>5. CASE s = a
  <2>1. Awaits(d, s) /\ run[d] \notin ended /\ Idles(d, s) = {}
    BY <1>1, <1>5 DEF PureAt
  <2>2. run[d] \in ended'
    <3>1. run[d] \in RunsOf(a) /\ run[d] \in sent
      BY <1>5, <2>1, Naturals0 DEF Awaits, EarnInv, RunsInTurn, RunsOf, TypeInv, RunType
    <3> QED BY <1>2, <3>1
  <2>3. Awaits(d, s)' /\ agent'[s] = "idle"
    BY <1>1, <1>2, <1>5, <2>1 DEF Awaits
  <2>4. \A i, j \in Idles(d, s)' : i = j
    BY <1>3, <2>1
  <2> QED BY <1>2, <2>2, <2>3, <2>4 DEF PureAt
<1> QED BY <1>4, <1>5

\* A listener reads: only the idle event of a run that has ended makes it idle.
LEMMA PureReads ==
  ASSUME EarnInv, NEW a \in Directories, ReadEvent(a),
         NEW d \in Directories, NEW s \in 1..nsess, home[s] = d, Spotless(s)
  PROVE  PureAt(d, s)'
<1> USE DEF pollVars, runVars, workVars
<1> DEFINE e == Head(stream[a])
<1>1. /\ UNCHANGED <<pc, run, session, ended>> /\ stream' = [stream EXCEPT ![a] = Tail(@)] /\ stream[a] # <<>>
      /\ stream[a] \in Seq(EventsOf(nsess)) /\ stream \in [Directories -> Seq(EventsOf(nsess))]
      /\ agent \in [Sessions -> {"idle", "busy", "asking"}] /\ nsess \in Nat
  BY Naturals0 DEF ReadEvent, EarnInv, TypeInv, ServerType
<1>2. PureAt(d, s) /\ Drained(d, s)
  BY StreamOthers DEF EarnInv, Pure
<1>3. agent'[s] # "idle" => agent[s] # "idle"
  <2>1. s \in Sessions
    BY Naturals0 DEF EarnInv, TypeInv
  <2> QED BY <2>1, OthersStep DEF EarnInv
<1>4. e \in EventsOf(nsess) /\ e = stream[a][1] /\ Len(stream[a]) \in Nat /\ Len(stream[a]) >= 1
  BY <1>1, StreamItems, StreamSteps
<1>5. CASE ~\E h \in RunsOf(s) : outcome'[h] = "idle" /\ outcome[h] # "idle"
  BY <1>1, <1>2, <1>3, <1>5, PureAround DEF EarnInv
<1>6. ASSUME NEW h \in RunsOf(s), outcome'[h] = "idle", outcome[h] # "idle" PROVE PureAt(d, s)'
  <2>1. PICK x \in Sessions : e = <<"idle", x>> /\ registered[x] = h
    <3>1. e[1] \in {"idle", "error"} /\ Mark(IF e[2] = 0 THEN Sessions ELSE {e[2]}, e[1])
      BY <1>1, <1>6 DEF ReadEvent, RunsOf
    <3> DEFINE S == IF e[2] = 0 THEN Sessions ELSE {e[2]}
    <3>2. e[1] = "idle" /\ \E x \in S \cap Sessions : registered[x] = h
      <4> HIDE DEF S
      <4>1. Mark(S, e[1])
        BY <3>1 DEF S
      <4> QED BY <1>6, <4>1, MarkStep DEF EarnInv, RunsOf
    <3>3. e \in {"idle"} \X (1..nsess)
      BY <1>4, <3>2 DEF EventsOf
    <3> QED BY <1>1, <3>2, <3>3
  <2>2. x = s
    BY <1>6, <2>1, Naturals0 DEF EarnInv, Completions, RunsOf, TypeInv
  <2>3. 1 \in Idles(a, s)
    BY <1>4, <2>1, <2>2 DEF Idles
  <2>4. a = d
    BY <2>3 DEF EarnInv, EventsAtHome
  <2>5. Awaits(d, s) /\ run[d] \in ended /\ \A i \in Idles(d, s) : i = 1
    BY <1>2, <2>3, <2>4 DEF PureAt
  <2>6. Idles(d, s)' = {}
    <3>1. Len(stream'[a]) = Len(stream[a]) - 1 /\ \A i \in 1..Len(stream'[a]) : stream'[a][i] = stream[a][i + 1]
      BY <1>1, StreamItems
    <3>2. \A i \in Idles(d, s)' : i + 1 \in Idles(d, s) /\ i >= 1
      BY <1>4, <2>4, <3>1 DEF Idles
    <3>3. Idles(d, s)' \subseteq Int
      BY DEF Idles
    <3> QED BY <2>5, <3>2, <3>3
  <2>7. agent'[s] = "idle"
    BY <1>2, <1>3, <2>5 DEF PureAt
  <2> QED BY <1>1, <2>5, <2>6, <2>7 DEF PureAt
<1> QED BY <1>5, <1>6

\* The threads that are not workers keep a session in order.
LEMMA PureOthers ==
  ASSUME EarnInv, Server \/ Poll \/ \E a \in Directories : Connect(a) \/ ReadEvent(a) \/ Notice(a),
         NEW d \in Directories, NEW s \in 1..nsess, home[s] = d, Spotless(s)
  PROVE  PureAt(d, s)'
<1> USE DEF serverVars, streamVars, consumerVars, pollVars, runVars, workVars, historyVars
<1>1. PureAt(d, s) /\ s \in Sessions
  BY Naturals0 DEF EarnInv, Pure, TypeInv
<1>2. UNCHANGED <<pc, run, session>> /\ (agent'[s] # "idle" => agent[s] # "idle")
  BY <1>1, OthersStep DEF EarnInv
<1>3. ASSUME NEW a \in Sessions, NEW kind \in {"idle", "error"}, AgentStops(a, kind) PROVE PureAt(d, s)'
  BY <1>1, <1>3, PureStops
<1>4. ASSUME NEW a \in Sessions, AgentAsks(a) PROVE PureAt(d, s)'
  <2>1. a \in 1..nsess /\ "permission" \in Kinds /\ Emit("permission", a) /\ UNCHANGED <<ended, outcome>>
    BY <1>4 DEF AgentAsks, EarnInv, TypeInv, ServerType, Kinds
  <2>2. \A i \in Idles(d, s)' : i \in Idles(d, s)
    BY <2>1, EmitIdles DEF EarnInv
  <2>3. \A i \in Idles(d, s)' : i + 0 \in Idles(d, s)
    BY <2>2 DEF Idles
  <2>4. Drained(d, s)
    BY <2>3 DEF Drained
  <2> QED BY <1>1, <1>2, <2>1, <2>4, PureAround DEF EarnInv
<1>5. ASSUME NEW a \in Directories, ReadEvent(a) PROVE PureAt(d, s)'
  BY <1>5, PureReads
<1>6. ASSUME NEW a \in Directories, ServerErrs(a) \/ Break(a) \/ Connect(a) \/ Notice(a) PROVE PureAt(d, s)'
  <2>1. UNCHANGED <<ended, outcome>>
    BY <1>6 DEF ServerErrs, Break, Connect, Notice
  <2>2. Drained(d, s)
    BY <1>6, StreamOthers DEF EarnInv
  <2> QED BY <1>1, <1>2, <2>1, <2>2, PureAround DEF EarnInv
<1>7. CASE Poll
  <2>1. UNCHANGED ended /\ (UNCHANGED outcome \/ \E x \in Sessions : Mark({x}, "polled"))
    BY <1>7 DEF Poll, PollTick, PollAsk, PollMark
  <2>2. \A h \in Runs : outcome'[h] = "idle" => outcome[h] = "idle"
    <3>1. ASSUME NEW x \in Sessions, Mark({x}, "polled") PROVE \A h \in Runs : outcome'[h] = outcome[h] \/ outcome'[h] = "polled"
      <4> DEFINE S == {x}
      <4> HIDE DEF S
      <4>1. Mark(S, "polled")
        BY <3>1 DEF S
      <4> QED BY <4>1, MarkStep DEF EarnInv
    <3> QED BY <2>1, <3>1
  <2>3. Drained(d, s)
    BY <1>7, StreamOthers DEF EarnInv
  <2> QED BY <1>1, <1>2, <2>1, <2>2, <2>3, PureAround DEF EarnInv, RunsOf
<1> QED BY <1>3, <1>4, <1>5, <1>6, <1>7 DEF Server

\* A run that begins: nothing goes on in its session.
LEMMA PureBegin ==
  ASSUME EarnInv, NEW w \in Directories, NEW x \in Sessions, Begin(w, x),
         UNCHANGED <<agent, sent, ended, stream, outcome>>,
         \/ UNCHANGED <<home, nsess>>
         \/ nsess' = nsess + 1 /\ home' = [home EXCEPT ![nsess + 1] = w] /\ x = nsess + 1,
         home'[x] = w,
         NEW d \in Directories, NEW s \in 1..nsess', home'[s] = d, Spotless(s)'
  PROVE  PureAt(d, s)'
<1>1. /\ nruns \in Nat /\ nsess \in Nat /\ MaxRuns \in Nat /\ 1..nruns \subseteq Runs /\ 1..nsess \subseteq Sessions
      /\ session \in [Runs -> 0..nsess] /\ pc \in [Directories -> Phases] /\ run \in [Directories -> 0..nruns]
      /\ home \in [Sessions -> Directories \cup {0}] /\ stream \in [Directories -> Seq(EventsOf(nsess))]
  BY Naturals0 DEF EarnInv, TypeInv, RunType, ServerType
<1>2. /\ pc[w] = "free" /\ pc' = [pc EXCEPT ![w] = "prepared"] /\ run' = [run EXCEPT ![w] = nruns + 1]
      /\ session' = [session EXCEPT ![nruns + 1] = x] /\ UNCHANGED <<completion, result>> /\ nruns + 1 \in Runs
  BY <1>1 DEF Begin, Runs
<1>3. pc'[w] = "prepared" /\ \A e \in Directories : e # w => pc'[e] = pc[e] /\ run'[e] = run[e]
  BY <1>1, <1>2
<1>4. pc[d] # "free" => run[d] \in 1..nruns /\ run[d] # nruns + 1 /\ session'[run[d]] = session[run[d]]
  <2>1. pc[d] # "free" => run[d] \in 1..nruns
    BY DEF EarnInv, TypeInv, RunType
  <2> QED BY <1>1, <1>2, <2>1
<1>5. Idles(d, s)' = Idles(d, s)
  BY DEF Idles
<1>6. CASE s \in 1..nsess
  <2>1. home[s] = d
    BY <1>1, <1>6
  <2>2. Spotless(s)
    <3>1. \A e \in RunsOf(s) : e # nruns + 1
      BY <1>1, <1>2, <1>6 DEF EarnInv, RunsInTurn, RunsOf
    <3>2. \A e \in RunsOf(s) : e \in RunsOf(s)'
      BY <1>1, <1>2, <3>1 DEF RunsOf
    <3> QED BY <1>2, <3>2 DEF Spotless
  <2>3. PureAt(d, s)
    BY <1>6, <2>1, <2>2 DEF EarnInv, Pure
  <2>4. CASE d = w
    <3>1. Idles(d, s) = {} /\ agent[s] = "idle"
      BY <1>2, <2>3, <2>4 DEF PureAt, Awaits
    <3> QED BY <1>3, <1>5, <2>4, <3>1 DEF PureAt
  <2>5. CASE d # w
    BY <1>3, <1>4, <1>5, <2>3, <2>5 DEF PureAt, Awaits
  <2> QED BY <2>4, <2>5
<1>7. CASE s \notin 1..nsess
  <2>1. s = nsess + 1 /\ x = s
    BY <1>1, <1>7
  <2>2. Idles(d, s) = {}
    BY <2>1, NoEventsBefore DEF EarnInv
  <2>3. agent[s] = "idle"
    BY <1>7, <2>1 DEF EarnInv, TypeInv, ServerType
  <2> QED BY <1>3, <1>5, <2>1, <2>2, <2>3 DEF PureAt
<1> QED BY <1>6, <1>7

\* A worker disturbs no session but its own.
LEMMA PureElsewhere ==
  ASSUME EarnInv, NEW w \in Directories, pc[w] # "free",
         UNCHANGED <<run, session, home, ended>>,
         NEW to, pc' = [pc EXCEPT ![w] = to],
         \A h \in Runs : h # run[w] => result'[h] = result[h] /\ completion'[h] = completion[h],
         \A h \in Runs : outcome'[h] = "idle" => outcome[h] = "idle",
         \A x \in Sessions : x # session[run[w]] => agent'[x] = agent[x],
         NEW d \in Directories, NEW s \in 1..nsess, home[s] = d, Spotless(s)', s # session[run[w]], Drained(d, s)
  PROVE  PureAt(d, s)'
<1>1. \A e \in RunsOf(s) : e # run[w] /\ e \in Runs /\ e \in RunsOf(s)'
  BY DEF RunsOf
<1>2. Spotless(s)
  BY <1>1 DEF Spotless
<1>3. PureAt(d, s) /\ s \in Sessions
  BY <1>2, Naturals0 DEF EarnInv, Pure, TypeInv
<1>4. \A e \in Directories : e # w => pc'[e] = pc[e]
  BY DEF EarnInv, TypeInv, RunType
<1>5. pc[d] # "free" => run[d] \in Runs
  BY Naturals0 DEF EarnInv, TypeInv, RunType
<1>6. Awaits(d, s) => Awaits(d, s)' /\ run'[d] = run[d] /\ (run[d] \in ended' <=> run[d] \in ended)
  BY <1>4, <1>5 DEF Awaits
<1>7. (pc'[d] \in {"registered", "waiting"} /\ session'[run'[d]] = s /\ outcome'[run'[d]] = "idle") => run'[d] \in ended'
  BY <1>3, <1>4, <1>5 DEF PureAt
<1> QED BY <1>3, <1>6, <1>7, PureFrame DEF EarnInv

\* A worker that has its run: what it does to its own session.
LEMMA PureHere ==
  ASSUME EarnInv, NEW w \in Directories, Worker(w), pc[w] # "free",
         NEW s, s = session[run[w]], Spotless(s)'
  PROVE  PureAt(w, s)'
<1> USE DEF serverVars, streamVars, consumerVars, pollVars, runVars, workVars, historyVars
<1> DEFINE h == run[w]
<1>1. h \in Runs /\ s \in 1..nsess /\ s \in Sessions /\ home[s] = w /\ pc[w] \in Phases
  BY WorkerFacts DEF EarnInv, RunsInTurn, TypeInv, RunType
<1>2. /\ pc \in [Directories -> Phases] /\ completion \in [Runs -> 0..nruns] /\ result \in [Runs -> Outcomes \cup {"timeout", "unsent"}]
      /\ agent \in [Sessions -> {"idle", "busy", "asking"}] /\ ended \subseteq sent
      /\ 0 \notin Runs
  BY Naturals0 DEF EarnInv, TypeInv, RunType, ServerType
<1>3. ~Launch(w) /\ ~\E x \in Sessions : Resume(w, x)
  BY DEF Launch, Resume, Begin
<1>4. UNCHANGED <<run, session, ended>> /\ h \in RunsOf(s)'
  BY <1>1, <1>3 DEF Worker, Register, SendPrompt, SendFails, WaitReturns, WaitTimesOut, AfterWait, Abort, Unregister, RunsOf
\* Before the step the session is in order, too.
<1>5. ASSUME completion[h] = 0 \/ completion'[h] = completion[h], result[h] = "none" \/ result'[h] = result[h],
             \A e \in Runs : e # h => completion'[e] = completion[e] /\ result'[e] = result[e]
      PROVE  PureAt(w, s)
  <2>1. Spotless(s)
    <3>1. \A e \in RunsOf(s) : e \in RunsOf(s)' /\ e \in Runs
      BY <1>4 DEF RunsOf
    <3> QED BY <1>5, <3>1 DEF Spotless
  <2> QED BY <1>1, <2>1 DEF EarnInv, Pure
<1>6. pc[w] \in {"prepared", "registered", "waiting"} => result[h] = "none"
  BY DEF EarnInv, RunsApart
<1>7. CASE Register(w)
  <2>1. /\ pc[w] = "prepared" /\ pc' = [pc EXCEPT ![w] = "registered"] /\ UNCHANGED <<agent, stream, outcome, result>>
        /\ \E k : completion' = [completion EXCEPT ![h] = k]
    BY <1>7 DEF Register
  <2>2. completion[h] = 0
    BY <2>1 DEF EarnInv, RunsInTurn
  <2>3. PureAt(w, s)
    BY <1>2, <1>5, <2>1, <2>2
  <2>4. Idles(w, s) = {} /\ agent[s] = "idle"
    BY <2>1, <2>3 DEF PureAt, Awaits
  <2>5. outcome[h] = "none"
    BY <1>1, <1>2, <2>2 DEF EarnInv, Completions
  <2> QED BY <1>4, <2>1, <2>4, <2>5 DEF PureAt, Idles
<1>8. CASE SendPrompt(w)
  <2>1. /\ pc[w] = "registered" /\ pc' = [pc EXCEPT ![w] = "waiting"] /\ UNCHANGED <<stream, outcome, result, completion>>
    BY <1>8 DEF SendPrompt
  <2>2. PureAt(w, s)
    BY <1>5, <2>1
  <2>3. Idles(w, s) = {}
    BY <2>1, <2>2 DEF PureAt, Awaits
  <2>4. h \notin ended
    BY <1>2, <2>1 DEF EarnInv, RunsInTurn
  <2>5. outcome[h] # "idle"
    BY <2>1, <2>2, <2>4 DEF PureAt
  <2>6. Idles(w, s)' = {}
    BY <2>1, <2>3 DEF Idles
  <2>7. Awaits(w, s)'
    BY <1>2, <1>4, <2>1, <2>5 DEF Awaits
  <2> QED BY <1>4, <2>4, <2>6, <2>7 DEF PureAt, Awaits
<1>9. CASE SendFails(w)
  <2>1. result'[h] = "unsent"
    BY <1>1, <1>2, <1>9 DEF SendFails
  <2> QED BY <1>4, <2>1 DEF Spotless
<1>10. CASE WaitReturns(w) \/ WaitTimesOut(w)
  <2>1. PICK v : /\ result' = [result EXCEPT ![h] = v] /\ (v = outcome[completion[h]] \/ v = "timeout")
                 /\ \E to \in {"free", "closing"} : pc' = [pc EXCEPT ![w] = to]
                 /\ pc[w] = "waiting" /\ UNCHANGED <<agent, stream, outcome, completion>>
                 /\ v # "none"
    BY <1>10 DEF WaitReturns, WaitTimesOut, AfterWait
  <2>2. PureAt(w, s)
    BY <1>2, <1>5, <1>6, <2>1
  <2>3. v = "idle" /\ completion[h] \in {0, h}
    <3>1. result'[h] = v
      BY <1>1, <1>2, <2>1
    <3> QED BY <1>4, <2>1, <3>1 DEF Spotless
  <2>4. outcome[h] = "idle"
    BY <2>1, <2>3 DEF EarnInv, Completions
  <2>5. Idles(w, s) = {} /\ agent[s] = "idle"
    BY <2>2, <2>4 DEF PureAt, Awaits
  <2>6. pc'[w] \in {"free", "closing"}
    BY <1>2, <2>1
  <2> QED BY <1>4, <2>1, <2>5, <2>6 DEF PureAt, Idles
<1>11. CASE Abort(w) \/ Unregister(w)
  <2>1. /\ pc[w] \in {"closing", "aborted"} /\ \E to \in {"aborted", "free"} : pc' = [pc EXCEPT ![w] = to]
        /\ UNCHANGED <<result, completion>>
    BY <1>11 DEF Abort, Unregister
  <2>2. PureAt(w, s)
    BY <1>5, <2>1
  <2>3. Idles(w, s) = {} /\ agent[s] = "idle"
    BY <2>1, <2>2 DEF PureAt, Awaits
  <2>4. UNCHANGED <<agent, stream>>
    BY <1>11, <2>3 DEF Abort, AbortSession, Unregister
  <2>5. pc'[w] \in {"aborted", "free"}
    BY <1>2, <2>1
  <2> QED BY <2>3, <2>4, <2>5 DEF PureAt, Idles
<1> QED BY <1>3, <1>7, <1>8, <1>9, <1>10, <1>11 DEF Worker

\* A worker keeps every session in order that is so after its step.
LEMMA PureWorker ==
  ASSUME EarnInv, NEW w \in Directories, Worker(w)
  PROVE  Pure'
<1> USE DEF serverVars, streamVars, consumerVars, pollVars, runVars, workVars, historyVars
<1>1. CASE Launch(w)
  <2>1. nsess + 1 \in Sessions /\ home'[nsess + 1] = w
    <3>1. nsess + 1 \in Sessions
      BY <1>1, Naturals0 DEF Launch, EarnInv, TypeInv, Sessions
    <3> QED BY <1>1, <3>1 DEF Launch, EarnInv, TypeInv, ServerType
  <2>2. ASSUME NEW d \in Directories, NEW n \in 1..nsess', NEW s, n = s, home'[s] = d, Spotless(s)' PROVE PureAt(d, s)'
    BY <1>1, <2>1, <2>2, PureBegin DEF Launch
  <2> QED BY <2>2 DEF Pure
<1>2. ASSUME NEW x \in Sessions, Resume(w, x) PROVE Pure'
  <2>1. ASSUME NEW d \in Directories, NEW n \in 1..nsess', NEW s, n = s, home'[s] = d, Spotless(s)' PROVE PureAt(d, s)'
    BY <1>2, <2>1, PureBegin DEF Resume
  <2> QED BY <2>1 DEF Pure
<1>3. CASE ~Launch(w) /\ ~\E x \in Sessions : Resume(w, x)
  <2>1. pc[w] # "free"
    BY <1>3 DEF Worker, Register, SendPrompt, SendFails, WaitReturns, WaitTimesOut, Abort, Unregister
  <2>2. /\ UNCHANGED <<run, session, home, ended, nsess>> /\ \E to : pc' = [pc EXCEPT ![w] = to]
        /\ \A h \in Runs : h # run[w] => result'[h] = result[h] /\ completion'[h] = completion[h]
    <3>1. /\ result \in [Runs -> Outcomes \cup {"timeout", "unsent"}] /\ completion \in [Runs -> 0..nruns]
      BY DEF EarnInv, TypeInv, RunType
    <3> QED BY <1>3, <3>1 DEF Worker, Register, SendPrompt, SendFails, WaitReturns, WaitTimesOut, AfterWait, Abort, Unregister
  <2>3. \A h \in Runs : outcome'[h] = "idle" => outcome[h] = "idle"
    BY <1>3 DEF Worker, Register, SendPrompt, SendFails, WaitReturns, WaitTimesOut, AfterWait, Abort, Unregister
  <2>4. \A x \in Sessions : x # session[run[w]] => agent'[x] = agent[x]
    <3>1. agent \in [Sessions -> {"idle", "busy", "asking"}]
      BY DEF EarnInv, TypeInv, ServerType
    <3> QED BY <1>3, <3>1 DEF Worker, Register, SendPrompt, SendFails, Accept, WaitReturns, WaitTimesOut, AfterWait, Abort, AbortSession, Unregister
  <2>5. ASSUME NEW d \in Directories, NEW s \in 1..nsess, s # session[run[w]] PROVE Drained(d, s)
    <3>1. CASE stream' = stream
      BY <3>1, StreamDrains DEF EarnInv
    <3>2. CASE Abort(w) /\ Emit("idle", session[run[w]])
      <4>1. session[run[w]] \in 1..nsess /\ "idle" \in Kinds
        BY <2>1 DEF EarnInv, TypeInv, RunType, Kinds
      <4>2. \A i \in Idles(d, s)' : i \in Idles(d, s)
        BY <2>5, <3>2, <4>1, EmitIdles DEF EarnInv
      <4>3. \A i \in Idles(d, s)' : i + 0 \in Idles(d, s)
        BY <4>2 DEF Idles
      <4> QED BY <4>3 DEF Drained
    <3> QED BY <3>1, <3>2, StreamWorker DEF EarnInv
  <2>6. ASSUME NEW d \in Directories, NEW s \in 1..nsess, home[s] = d, Spotless(s)' PROVE PureAt(d, s)'
    <3>1. CASE s = session[run[w]]
      <4>1. d = w
        BY <2>1, <2>6, <3>1 DEF EarnInv, RunsInTurn
      <4> QED BY <2>1, <2>6, <3>1, <4>1, PureHere
    <3>2. CASE s # session[run[w]]
      BY <2>1, <2>2, <2>3, <2>4, <2>5, <2>6, <3>2, PureElsewhere
    <3> QED BY <3>1, <3>2
  <2> QED BY <2>2, <2>6 DEF Pure
<1> QED BY <1>1, <1>2, <1>3

\* Every step keeps the invariant.
LEMMA EarnStep == EarnInv /\ RunsApart' /\ [Next]_vars => EarnInv'
<1> SUFFICES ASSUME EarnInv, RunsApart', [Next]_vars PROVE EarnInv'
  OBVIOUS
<1>1. TypeInv' /\ EventsAtHome'
  BY StepType, HomeStep DEF EarnInv
<1>2. CASE UNCHANGED vars
  <2>1. RunsInTurn' /\ Completions' /\ Pure'
    BY <1>2 DEF vars, serverVars, streamVars, consumerVars, pollVars, runVars, workVars, EarnInv, RunsInTurn, RunsOf,
       Completions, Pure, PureAt, Idles, Awaits, Spotless
  <2> QED BY <1>1, <2>1 DEF EarnInv
<1>3. ASSUME NEW d \in Directories, Worker(d) PROVE EarnInv'
  BY <1>1, <1>3, TurnWorker, PureWorker DEF EarnInv
<1>4. CASE Server \/ Poll \/ \E d \in Directories : Connect(d) \/ ReadEvent(d) \/ Notice(d)
  <2>1. /\ UNCHANGED <<nruns, session, completion, pc, run, result, registered, home, sent, nsess>>
        /\ \A h \in Runs : outcome'[h] = outcome[h] \/ \E s \in Sessions : registered[s] = h
    BY <1>4, OthersStep, OthersMark DEF EarnInv
  <2>2. RunsInTurn' /\ Completions'
    BY <2>1, TurnOthers DEF EarnInv
  <2>3. ASSUME NEW d \in Directories, NEW s \in 1..nsess, home[s] = d, Spotless(s)' PROVE PureAt(d, s)'
    <3>1. Spotless(s)
      BY <2>1, <2>3 DEF Spotless, RunsOf
    <3> QED BY <1>4, <2>3, <3>1, PureOthers
  <2>4. Pure'
    BY <2>1, <2>3 DEF Pure
  <2> QED BY <1>1, <2>2, <2>4 DEF EarnInv
<1> QED BY <1>2, <1>3, <1>4 DEF Next

\* What a wait that returns with "idle" knows.
LEMMA EarnedHere ==
  ASSUME EarnInv, IdleIsEarned, NEW d \in Directories, WaitReturns(d), outcome[completion[run[d]]] = "idle"
  PROVE  completion[run[d]] \in ended \/ \E e \in RunsOf(session[run[d]]) : e < run[d] /\ ~OwnIdle(e)
<1> DEFINE h == run[d]
           s == session[h]
           k == completion[h]
<1>1. pc[d] = "waiting" /\ h \in Runs /\ s \in 1..nsess /\ home[s] = d /\ \A e \in RunsOf(s) : e <= h
  BY WorkerFacts DEF WaitReturns, EarnInv, RunsInTurn
<1>2. SUFFICES ASSUME \A e \in RunsOf(s) : e < h => OwnIdle(e) PROVE k \in ended
  OBVIOUS
<1>3. k # 0 /\ session[k] = s /\ k <= h /\ k \in Runs /\ k \in RunsOf(s) /\ Runs \subseteq Nat
  <2>1. k # 0 /\ k \in 0..nruns
    BY <1>1 DEF EarnInv, Completions, TypeInv, RunType
  <2>2. session[k] = s /\ k <= h
    BY <1>1, <2>1 DEF EarnInv, Completions
  <2> QED BY <2>1, <2>2, Naturals0 DEF EarnInv, TypeInv, RunsOf
<1>4. CASE k < h
  <2>1. OwnIdle(k)
    BY <1>2, <1>3, <1>4
  <2>2. k \in ended \/ \E e \in RunsOf(s) : e < k /\ ~OwnIdle(e)
    BY <1>3, <2>1 DEF IdleIsEarned, OwnIdle
  <2>3. \A e \in RunsOf(s) : e < k => e < h
    <3>1. \A e \in RunsOf(s) : e \in Nat
      BY <1>3 DEF RunsOf
    <3>2. k \in Nat /\ h \in Nat
      BY <1>1, <1>3
    <3> HIDE DEF h, s, k
    <3> QED BY <1>4, <3>1, <3>2
  <2> QED BY <1>2, <2>2, <2>3
<1>5. CASE k = h
  <2>1. result[h] = "none"
    BY <1>1 DEF EarnInv, RunsApart
  <2>2. \A e \in RunsOf(s) : e = h \/ e < h
    <3>1. \A e \in RunsOf(s) : e \in Nat
      BY <1>3 DEF RunsOf
    <3>2. h \in Nat
      BY <1>1, <1>3
    <3> HIDE DEF h, s, k
    <3> QED BY <1>1, <3>1, <3>2
  <2>3. Spotless(s)
    BY <1>2, <1>5, <2>1, <2>2 DEF Spotless, OwnIdle
  <2>4. PureAt(d, s)
    BY <1>1, <2>3 DEF EarnInv, Pure
  <2> QED BY <1>1, <1>5, <2>4 DEF PureAt
<1>6. k < h \/ k = h
  <2>1. k \in Nat /\ h \in Nat
    BY <1>1, <1>3
  <2> HIDE DEF h, s, k
  <2> QED BY <1>3, <2>1
<1> QED BY <1>4, <1>5, <1>6

\* A result that is new is earned, and one that is there stays so.
LEMMA EarnedStep == EarnInv /\ IdleIsEarned /\ [Next]_vars => IdleIsEarned'
<1> SUFFICES ASSUME EarnInv, IdleIsEarned, [Next]_vars PROVE IdleIsEarned'
  OBVIOUS
<1> USE DEF serverVars, streamVars, consumerVars, pollVars, runVars, workVars, historyVars
<1>1. /\ nruns \in Nat /\ Runs \subseteq Nat /\ session \in [Runs -> 0..nsess] /\ completion \in [Runs -> 0..nruns]
      /\ result \in [Runs -> Outcomes \cup {"timeout", "unsent"}] /\ MaxRuns \in Nat
  BY Naturals0 DEF EarnInv, TypeInv, RunType
\* What is in the way of a result that is there already stays there.
<1>2. ASSUME NEW h \in Runs, result[h] = "idle", session'[h] = session[h], completion'[h] = completion[h], ended \subseteq ended',
             \A e \in Runs : e < h => session'[e] = session[e] /\ (result[e] = "idle" => completion'[e] = completion[e])
                                    /\ (result'[e] = "idle" => result[e] = "idle")
      PROVE  completion'[h] \in ended' \/ \E e \in Runs : session'[e] = session'[h] /\ e < h /\ ~(result'[e] = "idle" /\ completion'[e] = e)
  <2>1. CASE completion[h] \in ended
    BY <1>2, <2>1
  <2>2. ASSUME NEW e \in RunsOf(session[h]), e < h, ~OwnIdle(e)
        PROVE session'[e] = session'[h] /\ e < h /\ ~(result'[e] = "idle" /\ completion'[e] = e)
    BY <1>2, <2>2 DEF RunsOf, OwnIdle
  <2> QED BY <1>2, <2>1, <2>2 DEF IdleIsEarned, RunsOf
<1>3. ASSUME UNCHANGED <<session, completion, result>>, ended \subseteq ended' PROVE IdleIsEarned'
  BY <1>2, <1>3 DEF IdleIsEarned, RunsOf, OwnIdle
<1>4. ASSUME NEW x, NEW d \in Directories, Begin(d, x), UNCHANGED ended PROVE IdleIsEarned'
  <2>1. /\ session' = [session EXCEPT ![nruns + 1] = x] /\ UNCHANGED <<completion, result>>
        /\ \A h \in Runs : result[h] = "idle" => h <= nruns
    <3>1. session' = [session EXCEPT ![nruns + 1] = x] /\ UNCHANGED <<completion, result>>
      BY <1>4 DEF Begin
    <3>2. \A h \in Runs : h > nruns => result[h] = "none"
      BY DEF EarnInv, RunsApart
    <3> QED BY <1>1, <3>1, <3>2
  <2>2. \A h, e \in Runs : result[h] = "idle" /\ e <= h => session'[e] = session[e]
    BY <1>1, <2>1
  <2>3. \A h \in Runs : h <= h
    BY <1>1
  <2>4. \A h, e \in Runs : e < h => e <= h
    BY <1>1
  <2> QED BY <1>2, <1>4, <2>1, <2>2, <2>3, <2>4 DEF IdleIsEarned, RunsOf, OwnIdle
\* A worker has the latest run of its session.
<1>5. ASSUME NEW d \in Directories, pc[d] \in {"prepared", "registered", "waiting"}, UNCHANGED <<session, ended>>,
             \A e \in Runs : e # run[d] => completion'[e] = completion[e] /\ result'[e] = result[e],
             result'[run[d]] = "idle" => completion'[run[d]] \in ended \/ \E e \in RunsOf(session[run[d]]) : e < run[d] /\ ~OwnIdle(e)
      PROVE  IdleIsEarned'
  <2>1. run[d] \in Runs /\ result[run[d]] = "none" /\ \A e \in Runs : session[e] = session[run[d]] => e <= run[d]
    BY <1>5, WorkerFacts DEF EarnInv, RunsApart, RunsInTurn, RunsOf
  <2>2. ASSUME NEW h \in Runs, h # run[d], result'[h] = "idle"
        PROVE completion'[h] \in ended' \/ \E e \in Runs : session'[e] = session'[h] /\ e < h /\ ~(result'[e] = "idle" /\ completion'[e] = e)
    <3>1. result[h] = "idle" /\ completion'[h] = completion[h]
      BY <1>5, <2>2
    <3>2. CASE completion[h] \in ended
      BY <1>5, <3>1, <3>2
    <3>3. ASSUME NEW e \in RunsOf(session[h]), e < h, ~OwnIdle(e)
          PROVE session'[e] = session'[h] /\ e < h /\ ~(result'[e] = "idle" /\ completion'[e] = e)
      <4>1. e # run[d] /\ e \in Runs
        BY <1>1, <2>1, <3>3 DEF RunsOf
      <4> QED BY <1>5, <3>3, <4>1 DEF RunsOf, OwnIdle
    <3> QED BY <3>1, <3>2, <3>3 DEF IdleIsEarned, RunsOf
  <2>3. ASSUME NEW e \in RunsOf(session[run[d]]), e < run[d], ~OwnIdle(e)
        PROVE e \in Runs /\ session'[e] = session'[run[d]] /\ ~(result'[e] = "idle" /\ completion'[e] = e)
    <3>1. e # run[d] /\ e \in Runs
      BY <1>1, <2>1, <2>3 DEF RunsOf
    <3> QED BY <1>5, <2>3, <3>1 DEF RunsOf, OwnIdle
  <2> QED BY <1>5, <2>1, <2>2, <2>3 DEF IdleIsEarned, RunsOf, OwnIdle
<1>6. CASE UNCHANGED vars
  BY <1>3, <1>6 DEF vars
<1>7. CASE Server \/ Poll \/ \E d \in Directories : Connect(d) \/ ReadEvent(d) \/ Notice(d)
  <2>1. ended \subseteq ended'
    BY <1>7 DEF Server, AgentStops, AgentAsks, ServerErrs, Break, Poll, PollTick, PollAsk, PollMark, Connect, ReadEvent, Notice
  <2> QED BY <1>3, <1>7, <2>1, OthersStep DEF EarnInv
<1>8. ASSUME NEW d \in Directories, Worker(d) PROVE IdleIsEarned'
  <2>1. CASE Launch(d) \/ \E x \in Sessions : Resume(d, x)
    BY <1>4, <2>1 DEF Launch, Resume
  <2>2. CASE Register(d)
    <3>1. /\ pc[d] = "prepared" /\ UNCHANGED <<session, ended, result>>
          /\ \A e \in Runs : e # run[d] => completion'[e] = completion[e]
      BY <1>1, <2>2 DEF Register
    <3>2. result'[run[d]] # "idle"
      BY <3>1 DEF EarnInv, RunsApart
    <3> QED BY <1>5, <3>1, <3>2
  <2>3. CASE SendPrompt(d) \/ Abort(d) \/ Unregister(d)
    BY <1>3, <2>3 DEF SendPrompt, Abort, Unregister
  <2>4. CASE SendFails(d)
    <3>1. /\ pc[d] = "registered" /\ UNCHANGED <<session, ended, completion>> /\ result' = [result EXCEPT ![run[d]] = "unsent"]
      BY <2>4 DEF SendFails
    <3>2. result'[run[d]] # "idle" /\ \A e \in Runs : e # run[d] => result'[e] = result[e]
      BY <1>1, <3>1, WorkerFacts DEF EarnInv
    <3> QED BY <1>5, <3>1, <3>2
  <2>5. CASE WaitReturns(d) \/ WaitTimesOut(d)
    <3>1. /\ pc[d] = "waiting" /\ UNCHANGED <<session, ended, completion>>
          /\ \/ WaitReturns(d) /\ result' = [result EXCEPT ![run[d]] = outcome[completion[run[d]]]]
             \/ result' = [result EXCEPT ![run[d]] = "timeout"]
      BY <2>5 DEF WaitReturns, WaitTimesOut, AfterWait
    <3>2. run[d] \in Runs
      BY <3>1, WorkerFacts DEF EarnInv
    <3>3. \A e \in Runs : e # run[d] => result'[e] = result[e]
      BY <1>1, <3>1
    <3>4. result'[run[d]] = "idle" =>
            completion'[run[d]] \in ended \/ \E e \in RunsOf(session[run[d]]) : e < run[d] /\ ~OwnIdle(e)
      BY <1>1, <3>1, <3>2, EarnedHere
    <3> QED BY <1>5, <3>1, <3>3, <3>4
  <2> QED BY <1>8, <2>1, <2>2, <2>3, <2>4, <2>5 DEF Worker
<1> QED BY <1>6, <1>7, <1>8 DEF Next

\* No event, no run and no result at the start.
LEMMA EarnInit == Init => EarnInv /\ IdleIsEarned
<1> SUFFICES ASSUME Init PROVE EarnInv /\ IdleIsEarned
  OBVIOUS
<1>1. EventsAtHome /\ Pure
  BY OpencodeAssumption DEF Init, EventsAtHome, Pure
<1>2. IdleIsEarned
  BY DEF Init, IdleIsEarned
<1> QED BY <1>1, <1>2, InitType, InitKept, TurnInit DEF EarnInv

\* When an idle event ends a wait, the prompt waited for is done, or an earlier run of the
\* session did not end with its own idle event.
THEOREM IdleEarned == Spec => []IdleIsEarned
<1>1. Inv => RunsApart
  BY DEF Inv
<1>2. Inv /\ EarnInv /\ IdleIsEarned /\ [Next]_vars => EarnInv' /\ IdleIsEarned'
  BY StepInv, EarnStep, EarnedStep, <1>1 DEF Inv
<1> QED BY <1>2, EarnInit, InvHolds, PTL DEF Spec

---------------------------------------------------------------------------
(***************************************************************************)
(* A session that is left stays alone: nothing runs in its worktree again. *)
(***************************************************************************)

LeftAlone ==
  /\ \A s \in lineage : home[s] \notin Worktrees
  /\ \A h \in left : /\ session[h] \in 1..nsess /\ home[session[h]] \in Worktrees
                     /\ pc[home[session[h]]] = "free"

OpenInv == Inv /\ RunsInTurn /\ Completions /\ LeftAlone

\* A run that begins does so in a clone, or in a worktree without a session.
LEMMA LeftBegin ==
  ASSUME TypeInv, RunsInTurn, LeftAlone, NEW d \in Directories,
         Launch(d) \/ \E s \in Sessions : Resume(d, s)
  PROVE  LeftAlone'
<1>1. /\ nruns \in Nat /\ nsess \in Nat /\ Runs \subseteq Nat /\ 1..nruns \subseteq Runs
      /\ session \in [Runs -> 0..nsess] /\ pc \in [Directories -> Phases]
      /\ home \in [Sessions -> Directories \cup {0}] /\ left \subseteq 1..nruns
      /\ lineage \subseteq 1..nsess /\ 1..nsess \subseteq Sessions
  BY Naturals0 DEF TypeInv, ServerType, RunType
<1>2. /\ UNCHANGED <<left, lineage>> /\ pc' = [pc EXCEPT ![d] = "prepared"]
      /\ \E x : session' = [session EXCEPT ![nruns + 1] = x]
      /\ nsess' \in {nsess, nsess + 1} /\ (home' = home \/ home' = [home EXCEPT ![nsess + 1] = d])
  BY DEF Launch, Resume, Begin, serverVars, historyVars
<1>3. \A s \in 1..nsess : home'[s] = home[s] /\ s \in 1..nsess'
  BY <1>1, <1>2
<1>4. \A h \in left : session'[h] = session[h]
  BY <1>1, <1>2
<1>5. \A h \in left : home[session[h]] # d
  <2>1. CASE Launch(d)
    BY <2>1 DEF Launch, LeftAlone
  <2>2. CASE \E s \in Sessions : Resume(d, s)
    BY <2>2 DEF Resume, LeftAlone
  <2> QED BY <2>1, <2>2
<1>6. \A h \in left : pc'[home[session[h]]] = "free"
  <2>1. \A e \in Directories : e # d => pc'[e] = pc[e]
    BY <1>1, <1>2
  <2>2. \A h \in left : home[session[h]] \in Directories
    BY OpencodeAssumption DEF LeftAlone
  <2> QED BY <1>5, <2>1, <2>2 DEF LeftAlone
<1> QED BY <1>1, <1>2, <1>3, <1>4, <1>6 DEF LeftAlone

\* The rest of a run leaves a session only in a worktree, which it frees.
LEMMA LeftOn ==
  ASSUME TypeInv, RunsInTurn, LeftAlone, NEW d \in Directories, Worker(d),
         ~Launch(d), \A s \in Sessions : ~Resume(d, s)
  PROVE  LeftAlone'
<1> USE DEF serverVars, streamVars, consumerVars, pollVars, runVars, workVars, historyVars
<1>1. /\ pc \in [Directories -> Phases] /\ run[d] \in 0..nruns
      /\ (pc[d] # "free" => session[run[d]] \in 1..nsess /\ home[session[run[d]]] = d)
  BY DEF TypeInv, RunType, RunsInTurn
<1>2. UNCHANGED <<nsess, home, session>>
  BY DEF Worker, Register, SendPrompt, SendFails, WaitReturns, WaitTimesOut, AfterWait, Abort, Unregister
<1>3. \E to : pc[d] # "free" /\ pc' = [pc EXCEPT ![d] = to]
  BY DEF Worker, Register, SendPrompt, SendFails, WaitReturns, WaitTimesOut, AfterWait, Abort, Unregister
<1>4. \A e \in Directories : pc[e] = "free" => pc'[e] = "free"
  BY <1>1, <1>3
<1>5. \/ left' = left
      \/ left' = left \cup {run[d]} /\ d \in Worktrees /\ pc' = [pc EXCEPT ![d] = "free"]
  BY DEF Worker, Register, SendPrompt, SendFails, WaitReturns, WaitTimesOut, AfterWait, Abort, Unregister
<1>6. \/ lineage' = lineage
      \/ lineage' = lineage \cup {session[run[d]]} /\ d \notin Worktrees
  BY DEF Worker, Register, SendPrompt, SendFails, WaitReturns, WaitTimesOut, AfterWait, Abort, Unregister
<1>7. \A s \in lineage' : home'[s] \notin Worktrees
  BY <1>1, <1>2, <1>3, <1>6 DEF LeftAlone
<1>8. \A h \in left' : session[h] \in 1..nsess /\ home[session[h]] \in Worktrees /\ pc'[home[session[h]]] = "free"
  <2>1. \A h \in left : home[session[h]] \in Directories
    BY OpencodeAssumption DEF LeftAlone
  <2>2. \A h \in left : pc'[home[session[h]]] = "free"
    BY <1>4, <2>1 DEF LeftAlone
  <2> QED BY <1>1, <1>3, <1>5, <2>2 DEF LeftAlone
<1> QED BY <1>2, <1>7, <1>8 DEF LeftAlone

\* Every step keeps the invariant.
LEMMA OpenStep == OpenInv /\ [Next]_vars => OpenInv'
<1> SUFFICES ASSUME OpenInv, [Next]_vars PROVE OpenInv'
  OBVIOUS
<1>0. TypeInv /\ RunsApart /\ RunsInTurn /\ Completions /\ LeftAlone /\ Inv'
  BY StepInv DEF OpenInv, Inv
<1>1. CASE UNCHANGED vars
  <2>1. RunsInTurn' /\ Completions' /\ LeftAlone'
    BY <1>0, <1>1 DEF vars, serverVars, streamVars, consumerVars, pollVars, runVars, workVars, historyVars,
       RunsInTurn, RunsOf, Completions, LeftAlone
  <2> QED BY <1>0, <2>1 DEF OpenInv
<1>2. ASSUME NEW d \in Directories, Worker(d) PROVE OpenInv'
  <2>1. RunsInTurn' /\ Completions'
    BY <1>0, <1>2, TurnWorker
  <2>2. LeftAlone'
    BY <1>0, <1>2, LeftBegin, LeftOn
  <2> QED BY <1>0, <2>1, <2>2 DEF OpenInv
<1>3. CASE Server \/ Poll \/ \E d \in Directories : Connect(d) \/ ReadEvent(d) \/ Notice(d)
  <2>1. /\ UNCHANGED <<nruns, session, completion, left, pc, run, lineage, registered, home, sent, nsess>>
        /\ \A h \in Runs : outcome'[h] = outcome[h] \/ \E s \in Sessions : registered[s] = h
    BY <1>0, <1>3, OthersStep, OthersMark
  <2>2. RunsInTurn' /\ Completions'
    BY <1>0, <2>1, TurnOthers
  <2>3. LeftAlone'
    BY <1>0, <2>1 DEF LeftAlone
  <2> QED BY <1>0, <2>2, <2>3 DEF OpenInv
<1> QED BY <1>1, <1>2, <1>3 DEF Next

\* The invariant of the next two theorems.
LEMMA OpenHolds == Spec => []OpenInv
<1>1. Init => OpenInv
  <2>1. Init => LeftAlone
    BY DEF Init, LeftAlone
  <2> QED BY <2>1, InitType, InitKept, TurnInit DEF OpenInv, Inv
<1> QED BY <1>1, OpenStep, PTL DEF Spec

\* The event consumer forgets a session when its run is over, however it ends and however
\* many directories share the consumer; only that of a dev sync's conflict can be left, in
\* a worktree in which nothing runs any more.
THEOREM ClosedForgotten == Spec => []ClosedIsForgotten
<1>1. OpenInv => ClosedIsForgotten
  BY DEF OpenInv, Inv, ClosedKept, ClosedIsForgotten, LeftOpen, LeftAlone
<1> QED BY <1>1, OpenHolds, PTL

\* A session that is about to be registered is not registered.
LEMMA PreparedIsNew ==
  ASSUME OpenInv, NEW d \in Directories, pc[d] = "prepared"
  PROVE  registered[session[run[d]]] = 0
<1>1. session[run[d]] \in Sessions /\ home[session[run[d]]] = d
  BY Naturals0 DEF OpenInv, Inv, TypeInv, RunType, RunsInTurn
<1>2. ASSUME LeftOpen(session[run[d]]) PROVE FALSE
  BY <1>1, <1>2 DEF OpenInv, LeftAlone, LeftOpen
<1>3. ASSUME NEW e \in Directories, Holds(e, session[run[d]]) PROVE FALSE
  BY <1>1, <1>3 DEF OpenInv, RunsInTurn, Holds
<1> QED BY <1>1, <1>2, <1>3 DEF OpenInv, Inv, ClosedKept

\* A run never begins with a completion state that an earlier run of its session has left
\* set, however many runs resume the session and whatever events and polls come late.
THEOREM BeginUnfinished == Spec => BeginsUnfinished
<1>1. OpenInv /\ [Next]_vars =>
        [\A d \in Directories : (pc[d] = "prepared" /\ pc'[d] = "registered") => outcome[completion'[run[d]]] = "none"]_vars
  <2> SUFFICES ASSUME OpenInv, Next, NEW d \in Directories, pc[d] = "prepared", pc'[d] = "registered"
               PROVE  outcome[completion'[run[d]]] = "none"
    OBVIOUS
  <2>1. TypeInv /\ pc \in [Directories -> Phases] /\ run[d] \in Runs /\ completion \in [Runs -> 0..nruns] /\ 0 \notin Runs
    BY Naturals0 DEF OpenInv, Inv, TypeInv, RunType
  <2>2. Register(d)
    <3>1. pc' # pc
      BY <2>1
    <3>2. \E e \in Directories : Worker(e)
      BY <2>1, <3>1, OthersStep DEF Next
    <3>3. PICK e \in Directories : Worker(e)
      BY <3>2
    <3>4. \E to : pc' = [pc EXCEPT ![e] = to]
      BY <3>3 DEF Worker, Launch, Resume, Begin, Register, SendPrompt, SendFails, WaitReturns, WaitTimesOut, AfterWait, Abort, Unregister
    <3>5. e = d
      BY <2>1, <3>4
    <3>6. Register(e) \/ pc'[e] # "registered"
      BY <2>1, <3>3 DEF Worker, Launch, Resume, Begin, SendPrompt, SendFails, WaitReturns, WaitTimesOut, AfterWait, Abort, Unregister
    <3> QED BY <3>5, <3>6
  <2>3. completion'[run[d]] = run[d]
    BY <2>1, <2>2, PreparedIsNew DEF Register
  <2>4. completion[run[d]] # run[d]
    BY <2>1 DEF OpenInv, RunsInTurn
  <2> QED BY <2>1, <2>3, <2>4 DEF OpenInv, Completions
<1> QED BY <1>1, OpenHolds, PTL DEF Spec, BeginsUnfinished
=============================================================================
