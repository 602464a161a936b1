---------------------- MODULE JobLifecycleRefinement ----------------------
(***************************************************************************)
(* JobLifecycle implements JobContract where no one overrides a job from   *)
(* outside: without restart_issue and the pull_request_opened handler, and *)
(* with crashes only where no recovery jobs are involved.                  *)
(***************************************************************************)
EXTENDS JobLifecycle

PhaseOf(st) ==
  CASE st = "completed" -> "done"
    [] st \in {"failed", "superseded"} -> "failed"
    [] st = "absent" -> "absent"
    [] OTHER -> "open"

Phase == [j \in Jobs |-> PhaseOf(status[j])]
Effect == [j \in Jobs |-> status[j] # "absent" /\ Seen(EffectOf(j, FALSE))]

Contract == INSTANCE JobContract WITH phase <- Phase, effect <- Effect

\* The rows of jobs.json and what is on GitHub behave as the contract says:
\* terminal means terminal, completed means posted.
KeepsContract == Contract!Safety

\* And every job ends, as the contract says: with KeepsContract, all of Contract!Spec.
EndsEveryJob == Contract!Fairness
===========================================================================
