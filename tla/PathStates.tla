------------------------------ MODULE PathStates ------------------------------
(***************************************************************************)
(* The value of the section "Paths" and its delta (repository/paths.rs).   *)
(* path_state turns what libgit2 reports, the status of each path, the     *)
(* flags of the index and counts of changed lines, into sorted entries and *)
(* sets of paths; path_delta compares two of them.                         *)
(*                                                                         *)
(* Paths are numbers, in their order.  Reading is pure, so this module has *)
(* no variables; Snapshots takes a PathState apart into the parts its      *)
(* delta tells apart, and what is stated here is why it may.               *)
(***************************************************************************)
EXTENDS Naturals, Sequences, SequencesExt

StagedFlag ==
  {"index_new", "index_modified", "index_deleted", "index_renamed", "index_typechange"}

UnstagedFlag ==
  {"workdir_modified", "workdir_deleted", "workdir_typechange", "workdir_renamed",
   "workdir_unreadable"}

(* The flags of an index entry, which no status has.                       *)
IndexFlag == {"assume_unchanged", "skip_worktree"}

(* The old and new names of an entry without deltas.                       *)
NoNames == {}

-----------------------------------------------------------------------------
(* Counts of lines.  Both diffs, HEAD to index and index to worktree, add  *)
(* to the counts of a path; a path in neither has counts of zero.          *)

(* summarize_raw_diff: a removed line and an added one are a changed one.  *)
Summarize(added, removed) ==
  LET changed == IF added < removed THEN added ELSE removed
  IN  [added |-> added - changed, changed |-> changed, removed |-> removed - changed]

DiffSummaries(staged, workdir) ==
  [p \in DOMAIN staged |->
     Summarize(staged[p].added + workdir[p].added, staged[p].removed + workdir[p].removed)]

-----------------------------------------------------------------------------
(* include_index_flag_entries: the flags go to the first entry of the path *)
(* or, when it has none, to an entry of their own.                         *)
AddFlags(entries, item, diffs) ==
  LET first == SelectInSeq(entries, LAMBDA e : e.path = item.path) IN
  IF item.flags = {} THEN entries
  ELSE IF first = 0
  THEN Append(entries, [path |-> item.path, names |-> NoNames, status |-> item.flags,
                        diff |-> diffs[item.path]])
  ELSE [entries EXCEPT ![first].status = (@ \ IndexFlag) \cup item.flags]

IncludeIndexFlags(entries, index, diffs) ==
  FoldLeft(LAMBDA es, item : AddFlags(es, item, diffs), entries, index)

(* sort_by is stable: entries of the same path keep their order.           *)
SortByPath(entries) ==
  LET paths == {entries[i].path : i \in DOMAIN entries}
      InOrder == SetToSortSeq(paths, <)
  IN  FlattenSeq([k \in DOMAIN InOrder |->
                    SelectSeq(entries, LAMBDA e : e.path = InOrder[k])])

PathsWith(statuses, flags) ==
  {raw.path : raw \in {statuses[i] : i \in {j \in DOMAIN statuses :
                                               statuses[j].status \cap flags # {}}}}

(* path_state of a repository that is not bare.                            *)
PathStateOf(statuses, index, conflicts, diffs) ==
  LET read == [i \in DOMAIN statuses |->
                 [path |-> statuses[i].path, names |-> statuses[i].names,
                  status |-> statuses[i].status, diff |-> diffs[statuses[i].path]]]
  IN  [staged     |-> PathsWith(statuses, StagedFlag),
       unstaged   |-> PathsWith(statuses, UnstagedFlag),
       untracked  |-> PathsWith(statuses, {"workdir_new"}),
       ignored    |-> PathsWith(statuses, {"ignored"}),
       conflicted |-> PathsWith(statuses, {"conflicted"}),
       conflicts  |-> conflicts,
       entries    |-> SortByPath(IncludeIndexFlags(read, index, diffs))]

-----------------------------------------------------------------------------
(* path_delta.                                                             *)

(* path_entry_map: of several entries of a path the last one counts.       *)
EntryMap(entries) ==
  LET Shown(p) == CHOOSE i \in DOMAIN entries :
                   /\ entries[i].path = p
                   /\ \A j \in DOMAIN entries : entries[j].path = p => j <= i
  IN  [p \in {entries[i].path : i \in DOMAIN entries} |-> entries[Shown(p)]]

SetDelta(previous, current) ==
  [added |-> current \ previous, removed |-> previous \ current]

EntriesChanged(previous, current) ==
  {p \in DOMAIN previous \cup DOMAIN current :
     ~(p \in DOMAIN previous \cap DOMAIN current /\ previous[p] = current[p])}

PathDelta(previous, current) ==
  [staged     |-> SetDelta(previous.staged, current.staged),
   unstaged   |-> SetDelta(previous.unstaged, current.unstaged),
   untracked  |-> SetDelta(previous.untracked, current.untracked),
   ignored    |-> SetDelta(previous.ignored, current.ignored),
   conflicted |-> SetDelta(previous.conflicted, current.conflicted),
   entries_changed |-> EntriesChanged(EntryMap(previous.entries), EntryMap(current.entries))]

PathsHaveChanges(delta) ==
  \/ delta.entries_changed # {}
  \/ \E part \in {"staged", "unstaged", "untracked", "ignored", "conflicted"} :
       delta[part].added # {} \/ delta[part].removed # {}

-----------------------------------------------------------------------------
(* What the stream relies on.                                              *)

DistinctPaths(state) ==
  \A i, j \in DOMAIN state.entries : state.entries[i].path = state.entries[j].path => i = j

(* Entries are listed in the order of their paths.                         *)
InOrderOfPaths(states) ==
  \A s \in states : \A i, j \in DOMAIN s.entries :
    i <= j => s.entries[i].path <= s.entries[j].path

(* README, Refresh Contract: a watched update "encodes every observed       *)
(* change".  No difference between two path states escapes their delta but *)
(* one in the conflict stages, provided that no path has two entries: a    *)
(* staged rename is listed under its old name, and of it and an untracked  *)
(* file of that name only the one listed last is compared entry by entry.  *)
DeltaIsComplete(states) ==
  \A previous, current \in states :
    DistinctPaths(previous) /\ DistinctPaths(current) =>
      (PathsHaveChanges(PathDelta(previous, current))
         <=> [previous EXCEPT !.conflicts = current.conflicts] # current)

(* The sets of paths say nothing the entries do not say.                   *)
SetsShowEntries(states) ==
  \A s \in states :
    LET Having(flags) == {s.entries[i].path : i \in {j \in DOMAIN s.entries :
                                                       s.entries[j].status \cap flags # {}}}
    IN /\ s.staged = Having(StagedFlag) /\ s.unstaged = Having(UnstagedFlag)
       /\ s.untracked = Having({"workdir_new"}) /\ s.ignored = Having({"ignored"})
       /\ s.conflicted = Having({"conflicted"})

(* Each path the index flags is shown with these flags, also one that is    *)
(* unchanged and therefore in no status, and no other path is.             *)
FlagsAreShown(statuses, index, state) ==
  \A p \in {index[i].path : i \in DOMAIN index} \cup {statuses[i].path : i \in DOMAIN statuses} :
    UNION {state.entries[i].status \cap IndexFlag :
             i \in {j \in DOMAIN state.entries : state.entries[j].path = p}}
      = UNION {index[i].flags : i \in {j \in DOMAIN index : index[j].path = p}}

(* A summary accounts for every line added and removed, so that different  *)
(* counts have different summaries, and no count falls below zero.         *)
SummaryTellsCounts(counts) ==
  \A added, removed \in counts :
    LET summary == Summarize(added, removed) IN
    /\ summary \in [added : Nat, changed : Nat, removed : Nat]
    /\ summary.added + summary.changed = added
    /\ summary.removed + summary.changed = removed
    /\ summary.added = 0 \/ summary.removed = 0

=============================================================================
