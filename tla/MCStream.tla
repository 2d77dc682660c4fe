------------------------------ MODULE MCStream ------------------------------
(* The stream over small snapshots.  The compared and the uncompared parts *)
(* of a PathState and one further domain are enough for every case of      *)
(* Delta, Patch and Refreshes.  That a PathState has these parts is        *)
(* checked by evaluation, on every state two paths can be read into.       *)
EXTENDS Stream, PathStates

SmallDomains == {"Head", "Paths"}

Counts == [added : {0, 1}, removed : {1}]

(* What libgit2 lists: the status of a path that is staged, changed on     *)
(* both sides, renamed, untracked, ignored or conflicted.                  *)
SmallStatuses ==
  LET Raw == [path : {1, 2}, names : {{}},
              status : {{"index_modified"}, {"index_new", "workdir_deleted"}, {"workdir_new"},
                        {"ignored"}, {"conflicted"}}]
               \cup [path : {1, 2}, names : {{3}, {4}}, status : {{"index_renamed"}}]
  IN  {<<>>} \cup {<<r>> : r \in Raw} \cup {<<r, s>> : r \in Raw, s \in Raw}

SmallIndexes ==
  {<<>>, <<[path |-> 1, flags |-> {"assume_unchanged"}], [path |-> 2, flags |-> {}]>>,
   <<[path |-> 1, flags |-> IndexFlag], [path |-> 2, flags |-> {"skip_worktree"}]>>}

SmallState(statuses, index, c) ==
  PathStateOf(statuses, index, "stages", DiffSummaries(<<c, c>>, <<c, c>>))

SmallPathStates ==
  {SmallState(statuses, index, c) :
     statuses \in SmallStatuses, index \in SmallIndexes, c \in Counts}

(* The delta of path states misses none of their differences.              *)
ASSUME PathDeltaIsComplete ==
  DeltaIsComplete(SmallPathStates \cup {[s EXCEPT !.conflicts = "others"] :
                                          s \in {p \in SmallPathStates : Len(p.entries) < 2}})

ASSUME PathEntriesAreSorted == InOrderOfPaths(SmallPathStates)

ASSUME PathSetsShowEntries == SetsShowEntries(SmallPathStates)

ASSUME PathFlagsAreShown ==
  \A statuses \in SmallStatuses, index \in SmallIndexes, c \in Counts :
    FlagsAreShown(statuses, index, SmallState(statuses, index, c))

ASSUME PathSummariesTellCounts == SummaryTellsCounts(0..4)
=============================================================================
