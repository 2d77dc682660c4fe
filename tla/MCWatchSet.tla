------------------------------ MODULE MCWatchSet ------------------------------
(* A worktree with at most two directories, one in the other.              *)
EXTENDS WatchSet

CONSTANTS root, outer, inner, excludes

Dirs     == {root, outer, inner}
ParentOf == [d \in Dirs |-> IF d = inner THEN outer ELSE root]
AboveOf  == [d \in Dirs |-> IF d = root THEN {} ELSE IF d = outer THEN {root} ELSE {root, outer}]

(* The rules match nothing, or the outer directory with all in it.         *)
SomeRules == {{}, {outer}}

(* For the counterexample, a single directory.                             *)
FewDirs   == {root, outer}
FewParent == [d \in FewDirs |-> root]
FewAbove  == [d \in FewDirs |-> IF d = root THEN {} ELSE {root}]
=============================================================================
