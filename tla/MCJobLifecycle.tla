-------------------------- MODULE MCJobLifecycle --------------------------
(* Values for the constants of JobLifecycle. *)
EXTENDS JobLifecycleRefinement

Issue == {"issue_request"}
IssueAndImplementation == {"issue_request", "implementation"}
IssueAndReview == {"issue_request", "review_round"}
===========================================================================
