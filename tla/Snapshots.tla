------------------------------ MODULE Snapshots ------------------------------
(***************************************************************************)
(* Repository snapshots, deltas and patches: the pure data layer of        *)
(* gitseer (repository.rs, repository/model.rs, and the delta of           *)
(* repository/paths.rs).                                                   *)
(*                                                                         *)
(* A snapshot is a function from fields to values.  A refresh domain of    *)
(* the code owns one field, except "Paths", whose PathState is told apart  *)
(* into three: the entries with the path sets derived from them, the       *)
(* ignored paths (read only on request) and the conflict-stage metadata    *)
(* (carried by a snapshot, but compared by no delta).  `head` and          *)
(* `head_commit` share the one field "Head": one flag reports both and one *)
(* domain reads both.                                                      *)
(***************************************************************************)
EXTENDS Plans

CONSTANTS
  Value,          \* the values a field can have
  NoIgnored,      \* the empty list of ignored paths
  NoSnapshot      \* latest_snapshot: None

PathField == {"entries", "ignored", "conflicts"}

FieldsOf(domain) == IF domain = "Paths" THEN PathField ELSE {domain}

Field == UNION {FieldsOf(domain) : domain \in RefreshDomain}

Snapshot == [Field -> Value]

ASSUME ValueAssumption == NoIgnored \in Value /\ NoSnapshot \notin Snapshot

-----------------------------------------------------------------------------
(* Reading the repository.  A read takes its sections one after the other  *)
(* while other processes write the repository, so a snapshot may mix       *)
(* sections of several moments: here a read can return any snapshot, but   *)
(* the ignored paths are empty unless the request asks for them.           *)

Readable(include_ignored) ==
  {s \in Snapshot : include_ignored \/ s["ignored"] = NoIgnored}

(* What refresh_repository_with_plan can return under default options: a   *)
(* full read when there is no previous snapshot, and otherwise the         *)
(* previous snapshot with the fields of the planned domains read again.    *)
Refreshes(previous, plan) ==
  IF previous = NoSnapshot \/ plan.kind = "Full"
  THEN Readable(FALSE)
  ELSE LET kept == Field \ UNION {FieldsOf(d) : d \in Refreshed(plan)}
       IN  {s \in Snapshot : /\ \A f \in kept : s[f] = previous[f]
                             /\ "ignored" \notin kept => s["ignored"] = NoIgnored}

-----------------------------------------------------------------------------
(* Deltas and patches.                                                     *)

(* path_delta compares every part of a PathState but `conflicts`.          *)
ComparedField == Field \ {"conflicts"}

(* Mutant of Delta: path_delta forgets the ignored paths.                  *)
DeltaWithoutIgnored(previous, current) ==
  {f \in ComparedField \ {"ignored"} : previous[f] # current[f]}

(* snapshot_delta: the compared fields that differ.                        *)
Delta(previous, current) == {f \in ComparedField : previous[f] # current[f]}

HasChanges(delta) == delta # {}

(* Mutant of PatchFields: from_delta forgets the head.                     *)
PatchFieldsWithoutHead(delta) ==
  (delta \ {"Head"}) \cup IF delta \cap PathField # {} THEN PathField ELSE {}

(* SnapshotPatch::from_delta: each changed section in full, and the whole  *)
(* PathState as soon as any part of it changed.                            *)
PatchFields(delta) ==
  delta \cup IF delta \cap PathField # {} THEN PathField ELSE {}

Patch(current, delta) == [f \in PatchFields(delta) |-> current[f]]

(* What a client does with a patch: replace the sections it carries.       *)
Apply(snapshot, patch) ==
  [f \in Field |-> IF f \in DOMAIN patch THEN patch[f] ELSE snapshot[f]]

=============================================================================
