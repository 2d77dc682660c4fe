----------------------------- MODULE MCClassify -----------------------------
(* Classification in a repository with one branch, which HEAD may leave,   *)
(* and one file: in the index until its directory is a submodule.          *)
EXTENDS Classify

CONSTANTS main, detached, nested, noOwner

Domains  == DOMAIN Position
Branches == {main}
Files    == {nested}
TrackedFiles == {nested}
NestedFiles  == {nested}

(* One control file for each kind of row of the table; those with actions  *)
(* of their own are left out, and config.worktree, which is like config.   *)
RowFiles ==
  {"index", "info/exclude", "modules/*", "objects/*", "shallow", "refs/remotes/*", "config",
   "refs/stash", "worktrees/*", "MERGE_HEAD", "refs/bisect/*"}
=============================================================================
