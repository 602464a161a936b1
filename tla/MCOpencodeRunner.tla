-------------------------- MODULE MCOpencodeRunner --------------------------
(***************************************************************************)
(* OpencodeRunner with the clone of one repository, and with or without the*)
(* worktree of one of its dev syncs.                                       *)
(***************************************************************************)
EXTENDS OpencodeRunner

CONSTANTS clone, worktree

TheDirectories == {clone, worktree}
TheWorktrees == {worktree}
TheClone == [d \in TheDirectories |-> clone]

OneDirectory == {clone}
NoWorktree == {}
ItsClone == [d \in OneDirectory |-> clone]
=============================================================================
