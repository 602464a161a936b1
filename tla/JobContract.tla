---------------------------- MODULE JobContract ----------------------------
(***************************************************************************)
(* What dani promises of a job, whatever happens to its agents: it opens,  *)
(* it ends once and for all, and it is reported done only when the comment *)
(* or pull request it stands for exists.                                   *)
(***************************************************************************)
CONSTANT Jobs

VARIABLES
  phase,    \* absent, open, done or failed
  effect    \* its comment or pull request is on GitHub
vars == <<phase, effect>>

Init ==
  /\ phase = [j \in Jobs |-> "absent"]
  /\ effect = [j \in Jobs |-> FALSE]

Open(j) ==
  /\ phase[j] = "absent"
  /\ phase' = [phase EXCEPT ![j] = "open"]
  /\ effect' \in {effect, [effect EXCEPT ![j] = TRUE]}

\* An agent's post can be what several jobs wait for, and it can come after its
\* job was given up.
Appear ==
  /\ \E E \in SUBSET {j \in Jobs : phase[j] # "absent"} :
       effect' = [j \in Jobs |-> effect[j] \/ j \in E]
  /\ UNCHANGED phase

Finish(j) ==
  /\ phase[j] = "open" /\ effect[j]
  /\ phase' = [phase EXCEPT ![j] = "done"]
  /\ UNCHANGED effect

GiveUp(j) ==
  /\ phase[j] = "open"
  /\ phase' = [phase EXCEPT ![j] = "failed"]
  /\ UNCHANGED effect

Next ==
  \/ Appear
  \/ \E j \in Jobs : Open(j) \/ Finish(j) \/ GiveUp(j)

Safety == Init /\ [][Next]_vars
Fairness == \A j \in Jobs : WF_vars(Finish(j) \/ GiveUp(j))
Spec == Safety /\ Fairness
===========================================================================
