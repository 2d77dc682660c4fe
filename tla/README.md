# gitseer in TLA+

gitseer is a process that owns one Git repository, watches it, and keeps a client informed
over stdio: a JSON-RPC request per line in, responses and notifications per line out. This
directory holds TLA+ models of it, the TLC configurations that check them on small
instances, and TLAPS proofs of what matters most for instances of any size. Line numbers
refer to the repository's `src/` directory.

## The system

| Component | Source | State | Operations | What makes it correct |
|---|---|---|---|---|
| State stream | `protocol.rs` | `ProcessState`: subscribed, latest snapshot, latest version | subscribe, unsubscribe, refresh, watched update, goodbye | a client that applies the messages holds what was published; versions only grow; nothing but an id-less refresh is kept from it |
| Snapshot data | `repository.rs`, `repository/model.rs` | none | read, domain-wise refresh, delta, patch, plan combination | a patch restores every compared section; a combined plan reads what its parts read |
| Watcher queue | `watch.rs` | bounded channel, overflow flag | `enqueue_event`, `next_event`, `debounce_plan`, `drain_pending_plan` | no event is forgotten; a storm of events does not starve stdin |
| Watch set | `watch.rs`, `watch/roots.rs` | `watched_roots`, the kernel's watches | register, add for a new directory, prune, reconcile | every relevant directory that exists is watched, or its events were |
| Classification | `watch/classify.rs` | none | event to `RefreshPlan` | a plan names every section whose reader depends on what changed |
| Serve loop | `main.rs` | watcher, pending watcher, polling flag, poll tick | select over stdin, events, watcher start, tick | it refreshes a subscribed client whatever mode it is in; ends with a goodbye |
| Path state | `repository/paths.rs` | none | `path_state`, `path_delta` | the delta of two path states misses no difference |
| Readers | `repository/{identity,refs,operations,submodules,worktrees}.rs` | none | one libgit2 read per section | each section describes the repository at the time of its read |
| Configuration, capabilities, command line | `lib.rs`, `main.rs` | none | validate, print | |

How they interact. The notify thread calls back into `enqueue_event`, which puts events into
a channel of 4096 or, when that is full, sets a flag. The serve loop selects between a line of
stdin and `next_event`. A line is handled at once and may read the whole repository. An event
updates the watches (possibly on a blocking task, which is where the select may drop the
branch), is classified into a plan, debounced for 50 ms, combined with the plans of up to 256
queued events, and leads to a refresh of the planned sections; the difference to the latest
snapshot goes to stdout as a delta with the changed sections. Everything else the client knows
comes from full snapshots.

What is hard here: the repository changes while it is read; the callback runs in parallel to
the loop and takes two steps to report an overflow; the select cancels `next_event` in the
middle; a delta is relative to a baseline that requests, silent refreshes and updates without
changes also replace; and the process only knows what some event told it. `PROJECT.json` lists
each of these hazards at its line with the properties that are about it.

## Modules

**Plans** (constants: the refresh domains). `RefreshPlan`, `Combine`, `ShouldRefresh`
as in `repository/model.rs`, and the order in which sections are read.

**Snapshots** extends Plans. A snapshot is a function from fields to values; a domain of the
code is a field, except that a `PathState` is three (entries with the sets derived from them,
ignored paths, conflict stages), because they are read and compared differently. `Readable`
is what a full read may return: anything, since the repository moves between two sections,
with empty ignored paths unless asked for. `Refreshes`, `Delta`, `Patch` and `Apply` are
`refresh_repository_with_plan`, `snapshot_delta`, `SnapshotPatch::from_delta` and what the
tests use as a client (`apply_patch_to_snapshot`).

**Stream** extends Snapshots: `ProcessState`, stdout as a FIFO, and a client.

| Action | Code |
|---|---|
| `Refresh` | `gitseer/refresh`, protocol.rs:238-252, with and without an id, with and without ignored paths |
| `Subscribe`, `Unsubscribe` | protocol.rs:253-272; the read may fail |
| `WatchedRefresh` / `Update` | main.rs:97-122 and 194-214; `snapshot_update_messages` with `record_update` |
| `Fail`, `Goodbye` | an error that ends the loop; end of stdin or of the events |
| `Receive` | the client: replaces its copy by a snapshot, extends it by a delta that starts at its version, and otherwise notes a gap |

A message is written in the step that records it, when there is room in the pipe: `serve` awaits
`write_all` before it takes the next line or event. `published` and `silent` are history
variables. Requests that only answer change no state and are left out.

**StateStream** is the abstract specification: states are published under successive
versions, and the copy of the client is always one of them and moves forward. Stream implements
it with a state being the compared part of a snapshot.

**Watch** extends Plans: four actors from a change to the snapshot that shows it.

| Action | Code |
|---|---|
| `Change` | another process writes; the kernel's buffer drops events when full and then reports a rescan |
| `Enqueue`, `StoreOverflow` | `enqueue_event`, watch.rs:115-123: the failed `try_send` and the store are two steps |
| `TakeOverflow`, `Park`, `Receive`, `FinishUpdate` | `next_event`, watch.rs:82-93: the flag, the wait, the event, and the task it may await |
| `Debounced`, `Drain`, `DrainedAll`, `Check` | `debounce_plan` and `drain_pending_plan`, watch.rs:99-102, 258-279 |
| `ReadDomain`, `FinishRead`, `ReadFails` | the refresh, one section at a time, repository.rs:41-52 and 133-174 |
| `SendLine`, `HandleLine` | stdin, and the branch of the select that drops the other, main.rs:89-97 |

Instead of values it keeps, for each section, whether it may differ from the repository:
`stale` for the latest snapshot, `building` for the one under construction. Reading the
upstream does not make it fresh when the head it was read for is not. `missed` is a history
variable: stale sections whose event was discarded, while unsubscribed or by the select.
Which plan an event gets is the constant `PlanOf`, assumed to cover what the event touched
(`ClassifierAssumption`).

**Serve**: the modes of `serve` (main.rs:75-192): idle, a watcher being started on a blocking
task, polling after a failed start, an active watcher. `ReadingLine` and `OtherLine` are requests,
with the code after them that may start a watcher (`EndLine`); `Activate`, `FallBack`, `Tick` and
`WatchEvent` are the other branches of the selects; `StartWatcher` is the task, whose watches see
nothing before they are registered. Staleness is one bit. A full read clears it; a read for events
covers only the sections they name, so it leaves the snapshot stale when events wait behind it
or an earlier one was discarded. Events stay with the watcher until they are taken: what can go wrong
with them on the way is the subject of Watch.

**Classify** extends Plans: the table from the path of an event to its plan, next to what the readers
in `repository/*.rs` derive their sections from. Other processes change control files, references, ignore
rules, submodules and worktree files; each change makes sections stale and is reported by one event, a
lock file and its target together where git renames one over the other. `Handle` classifies the next event
*later*, by the branch that is current, the rules and the submodules of that moment, as the code does.

| Definition | Code |
|---|---|
| `PlanForControlName`, `LockKnown` | `refresh_plan_for_git_path` and `lock_target_for_git_path`, classify.rs:147-288, 338-364; a name that ends in a star stands for a prefix |
| `PlanForPath`, `PlanForEvent`, `CombineAll` | `refresh_plan_for_path`, `refresh_plan_for_event`, classify.rs:16-45, 90-145 |
| `MayChangeIgnoreRules`, `Reconciles` | `event_may_change_ignore_rules`, `update_watches_for_event` |
| `Reads` (`IdentityReads`, ...) | which control files each reader opens, itself or through libgit2, from repository/*.rs; a reference is read from its own file or from packed-refs |
| `MoveHead`, `ChangeBranch`, `ChangePacked`, `ChangeControl`, `ChangeRules`, `ChangeSubmodules`, `ChangeOther`, `ChangeFile`, `LoseEvents` | git and other writers; what the kernel reports |
| `OpenFile`, `Notify` | somebody reads a file; the callback keeps such events from the loop, watch.rs:53-58 |
| `Handle` | the next event: its plan and refresh, and the listing it may ask for, which may fail without a retry (`reconcile_watch_targets`, watch.rs:147-168) |

Where the table does not name a section that a reader derives from the changed file, the change
counts the section as `unseen` (history), so that the property is about everything else. These
holes, by the section that is not named:

| Section | Not named by the rows of |
|---|---|
| Submodules | HEAD, the branches, packed-refs, the index, config, config.worktree (the run `classify_submodules`); a `.gitignore`, though one inside a submodule is read for its status (classify.rs:116 comes before 128), and the configured excludes file |
| Identity | HEAD, branches, remote-tracking branches, tags, stash, bisect references and packed-refs, all of which decide on `is_empty` (identity.rs:28-36); config and config.worktree |
| Paths | packed-refs; a branch, when the current one is deleted and HEAD is unborn by the time of the classification; a tracked file that matches an ignore rule |
| Operation, Stashes | packed-refs |
| Upstream, Remotes, Branches | config.worktree |
| all but Identity, Upstream, Branches, Worktrees | commondir and gitdir, which say where the repository is and so concern every reader |

The last row is in `RowCovers` only: these two files are not among those that change (`ChangingAssumption`), because
`git worktree add` writes them, and a repository that moves later is not the one the process was started for.

**WatchSet**: a tree of directories, the kernel's watches in it, and `watched_roots`.

| Action | Code |
|---|---|
| `MakeDir`, `RemoveDir`, `ChangeRules`, `ReplaceExcludes` | other processes; the kernel reports what happens in a watched directory, perhaps as a rescan, and forgets the watch with the directory |
| `StartListing`, `StartRegister`, `StartFails` | `RepositoryWatcher::new`, watch.rs:43-76: list first, then watch one target after the other; one that cannot be watched ends the start |
| `TakeOverflow`, `Take` | `next_event` or the drain with `update_watches_for_event`, watch.rs:82-97, 126-195 |
| `List`, `Listed` | the blocking task of `add_worktree_watch_if_needed`, watch.rs:194-205 |
| `Reconcile`, `ReconcileFails`, `Replace` | `reconcile_watch_targets`, `replace_watch_targets`, watch.rs:147-168, 208-224 |
| `Register` | `watch_root`, watch.rs:226-233: passed over when in `watched_roots` or refused by the kernel |
| `Cancel` | the select drops `next_event` during an update, main.rs:89-97 |

`ListedFrom` is `worktree_watch_dirs_from` (roots.rs:74-115): it omits what is ignored and does not enter
nested repositories. `lost` and `rulesLost` are history variables that name the cases in which nothing will
bring a watch about: a creation dropped by a full queue (the overflow leads to a full read and to no
listing), a directory made below one that is listed and not yet watched, an entry of
`watched_roots` whose watch is gone, a watch the kernel refuses, an update cancelled or a
reconciliation that failed. Every update of them is next to the step that causes it.

**PathStates** has no variables: `path_state` and `path_delta` (repository/paths.rs) as operators on what
libgit2 lists. `MCStream` evaluates over all states of two paths that the delta misses no difference but one
of the conflict stages (`PathDeltaIsComplete`), which is how Snapshots takes a PathState apart; that the sets
say what the entries say; that each flag of the index is shown; and that the summary of changed lines accounts for
each line; and that the entries are in the order of their paths. The first holds for states without two entries of one path. libgit2 lists a staged rename
under its old name, so that an untracked file of that name makes a second entry, and
`path_entry_map` compares only one of them.

`MCStream`, `MCWatch`, `MCClassify` and `MCWatchSet` are the instances for TLC. Serve needs none.
The modules that end in `Proofs` hold the proofs. Operators marked "Mutant of" are broken variants of
the definition that follows them; each makes one property fail.

How the modules fit together. Watch takes for granted that a change reaches the backend and that
its plan covers it: WatchSet says when the first is so, Classify when the second is. Serve keeps an
event with the watcher until it is taken, which is what Watch promises, and Stream takes any
snapshot a read may return. They are not composed into one state space: their product is out of reach,
and each meets the others in one interface, the event, the plan, or the snapshot.

## What is checked

| Run | Shows |
|---|---|
| `MCStream.cfg` | types; `MirrorIsPublished`: the copy is the published snapshot in every compared field; `LagIsSilent`: what a client misses was recorded by id-less refreshes; `CopyIsLatest`: one that has read everything, and that no silent version has overtaken, holds the latest snapshot although updates without changes replace it; `DeltasAreExact`: a delta carries the sections that differ, all and only these; `ClientNeverGoesBack`; `AbstractSpec`: Stream implements StateStream |
| `MCStreamEncoded.cfg` | violation of `EveryChangeIsEncoded`: a change of the conflict stages alone is adopted as the baseline and never sent (`path_delta` does not compare `conflicts`), against "encodes every observed change", README.md:70-72 |
| `MCWatch.cfg` | types; `NothingForgotten`: each stale section is covered by a queued event, an overflow mark or the refresh in hand, or was discarded; `ReadsAreCovered`: the same for the snapshot being read; `ReadRepairs`: a refresh repairs each section of its plan, also one whose event was discarded, unless it changes again and has an event queued; `RefreshesHelp`: no step but a change of the repository makes a section stale |
| `MCWatchFair.cfg` | `Converges`: when the repository rests, the snapshot catches up, except for what was discarded or stranded; `LineIsServed`: events never starve stdin; `TurnsEnd`: once the loop has left its select each of its steps brings the next select nearer and no arriving event moves it away; `WorkRunsOut`: no refresh, drain or overflow makes work for itself |
| `MCWatchCancel.cfg` | violation of `NothingMissed`: a line that arrives while `next_event` awaits a watch update makes the select drop an event already taken |
| `MCWatchOverflow.cfg` | violation of `OverflowRecovers`: an overflow stored after the loop emptied the queue and parked wakes nobody |
| `Serve.cfg` | types, and one watcher at most; `StaleIsOwed`: in every mode a subscriber's stale snapshot is owed a read; `CatchesUp`: it becomes up to date once the repository rests |
| `MCClassify.cfg` | types; `EveryChangeIsOwed`: a stale section is named by the plan of a waiting event, although the plan is made later than the change; `UpstreamFitsHead`: the snapshot's upstream is that of its head; `RulesAreFollowed`: changed ignore rules lead to a new listing, unless an error lost the event or the listing failed |
| `MCClassifySubmodules.cfg` | violation of `SubmodulesFollow`: the rows of HEAD, branches, packed-refs and the index leave the submodules section as it was, against README.md:81-85 |
| `MCWatchSet.cfg` | types; `Covered`: a relevant directory is watched, about to be, or one of the named losses; `IgnoredAreOmitted`; `NoLeakedWatch`: the kernel watches nothing that is not in `watched_roots`; `Settles`: once the tree rests the watch set does, complete but for the losses; `KeepsRelevant`: the process unwatches a relevant directory only where the rules have changed since the listing or a start fails; `WorkRunsOut`: every step of the process, failures and cancellations included, leaves less to do |
| `MCWatchSetRecreated.cfg` | violation of `WatchedRootsAreWatched`: a directory removed and made again before its events are taken keeps its entry and has no watch |
| `ServeBaseline.cfg` | violation of `SubscribeIsBaseline`: with an active watcher, a subscription whose read fails is confirmed and gets no snapshot, against README.md:67-68 |

Bounds. The stream has two domains (one with and one without the three-part `PathState`), two
values, three versions and two messages in flight: enough for a baseline, a delta on it, a
silent refresh between them, a gap and its repair; the proofs below remove these bounds. The event path has
the three domains with a read dependency, a head movement, a fetch, a worktree change and a
rescan, a kernel buffer of one event and its mark, a channel of two (so that it can be full
while the loop holds one more) and a drain budget of one (so that a turn can leave events
behind). Changes are unbounded: the state is finite because staleness is a set. For liveness
the events are fewer, one of them an ignored path whose plan refreshes nothing, for only such
turns end without a read; requests are those that cancel and the one that ends the process, as
a client that subscribes again and again would repair what should be repaired by itself.
Serve has no constants but the count of waiting events, which stops at two (`Several`): one that is
taken, and the rest.
Classification has one branch that exists, is current, both or neither, one file that is tracked, may be
ignored, and is inside the submodule while that is registered, and two
waiting events, so that what a plan asks can change between an event and its classification. Of the control files
one for each kind of row changes; config.worktree, whose row differs from that of config in what it hides, is left
to the theorem `RowCovers`, which goes through all of them. The watch
set has a directory in a directory in the root, rules that match nothing or the outer one with the inner, and a queue of two:
enough for a creation below a directory being listed, removal and recreation, and a dropped event.
`MayCancel` chooses whether an update may run below `next_event`, where a line cancels it, or in the drain.
Deadlock is not checked because the process stops at the end of stdin or on a failed refresh.

Fairness. `WF(Backend)` and `WF(Loop)`: threads and tasks are scheduled, a `spawn_blocking`
task ends, and the loop does not wait for anything else outside stdin. `SF(HandleLine)`: the
loop returns to its select again and again, which is why weak fairness is not enough, and
`tokio::select!` polls its branches in random order. There is none on `Change`, `SendLine` and
`ReadFails`. That the drain budget matters is not assumed: without it `LineIsServed` fails.
In WatchSet, `WF` on the process as a whole: the loop runs and blocking tasks end. When to start
a watcher is the client's choice, and failures and cancellations are not fair; `Settles` is about behaviours
in which they, and the changes of the tree, stop.
In Serve, `WF` on the blocking task and on the end of a read, and `SF` on the branches that the
client cannot disable but can precede: the outcome of the task, the tick and the event.

## What is proved

The proofs hold for all constants that satisfy the named assumptions: the domains include `Head`
and `Paths` (`DomainAssumption`), the empty list is a value and `None` is no snapshot
(`ValueAssumption`), capacities and budgets are positive, events have plans (`EventAssumption`) that
cover what they touch, and the rescan's plan is a full one (`ClassifierAssumption`). There are finitely
many directories (`FiniteAssumption`), as in any file system; only the measure of WatchSet needs it.

- **PlansProofs.** `CombineRefreshes`: coalescing plans neither loses nor adds a section.
  `CombineIsSemilattice`: nor does the order of events, their repetition, or where the drain cuts a turn matter.
- **StreamProofs.** Every property of the run `stream`, the refinement included. A step of the
  process has one of six effects on the stream (`Effects`), and the invariants are shown for
  these. `MirrorIsPublished` is not inductive: it needs that each message in the pipe is true of
  the log, a delta leading from one published snapshot to the next (`TruthfulPipe`), and that
  the baseline agrees with the version last published although updates without changes replace it
  (`LatestIsPublished`). The step of interest is `PatchRestores`: the copy need not equal the old
  snapshot, agreement on the compared fields is enough. `LagIsSilent` needs the versions in the pipe to
  increase, and every later version to be silent or in the pipe, not only after the copy but
  after each message (`AllAccounted`), because a snapshot that ends a gap starts afresh behind
  it. `CopyIsLatest` joins the two: with an empty pipe and nothing silent the copy is at the latest version,
  and the snapshot published under it agrees with the baseline. `DeltasAreExact` is about messages that wait
  while the process records more (`ExactPipe`): the versions of a delta are old by then, and the log keeps them.
  The refinement follows: recording is `Publish`, a receipt that moves the version is `Observe`.
  `RefreshRetains` is about a refresh by itself: what its plan does not name stays and is in no delta.
- **WatchProofs.** `TypeCorrect`, `NothingForgottenCorrect`, `ReadsAreCoveredCorrect` from an
  invariant that adds to the two properties that a full kernel buffer ends in the rescan mark and that a set
  of stale sections that contains the head contains the upstream; without the latter, reading the upstream for an
  old head would be owed nothing. `ReadRepairsCorrect` has for a full read no exemption left: what is stale after
  it has an event queued. `RefreshesHelpCorrect` needs that a snapshot under construction differs from the
  repository only where the latest does, once a section is read (`BuildsOnStale`).
  For liveness the proofs go as far as safety does. `Distance` counts the steps to the next select and `Work` those
  until nothing is left to do; `TurnsEndCorrect` bounds the first by `TurnLength` and `WorkRunsOutCorrect` shows
  that every step of the loop and of the callback lowers the second. `RestIsFresh` says what is reached: with no
  step left the loop waits without events, and the snapshot differs only by what was discarded or stranded.
- **ServeProofs.** `TypeCorrect` and `StaleIsOwedCorrect`. The invariant adds what holds while somebody
  reads: a change under the reader is held as an event, what a read for events leaves is held as one
  or was discarded, and only a line may leave a subscriber without a mode, until it ends.
- **ClassifyProofs.** Every property of the run `classify`, for any branches, files and submodules.
  `RowCovers` compares the table with the readers, row by row and for all names, packed-refs and the layout files
  included: what a row does not name is in `Hidden`, and so in the table of holes above. `ClassifierKeepsPair` shows of every event
  what Watch assumes of its plans: that they are plans and that one with Head has Upstream.
  `EveryChangeIsOwed` is kept by a step because the plans of events that wait only grow with the steps of others,
  except where a branch stops being current or a path becomes ignored, and then the event of that very
  change names what they no longer do, or the step counts the section as unseen; so the proof is about the union of the plans, never about one.
  The invariant is the conjunction of the properties with one more fact, that a stale head is never unseen, which
  pairs it with the upstream.
- **WatchSetProofs.** The safety properties of the run `watch_set`, for any tree, rules and queue.
  `Covered` alone is not inductive: an event for a directory above is worth something only while that directory is
  neither watched nor listed, since a watched one leads to no listing when its event is taken. The
  invariant (`IInv`) says so (`AccountedFor`), and adds what the process has listed in each of its locations
  (`ListingInv`) and that a listing fits the rules unless a change of these is awaited
  (`ListedFitsRules`), without which a reconciliation could unwatch a relevant directory. One lemma for each action.
  `KeepsRelevantCorrect` follows from the last of these; it also needs that a reconciliation retains the root and
  the excludes file. `WorkRunsOutCorrect` and `RestIsComplete` are the safety core of `Settles`: the process
  works off `Work`, and when none is left each relevant directory is watched but for the losses.
- **PathStatesProofs.** `DeltaIsExact`: for any number of paths, the delta of two path states is empty exactly
  when they are equal but for their conflict stages, provided that the entries are in order and no path has two.
  Two lists with the same map are equal, because the first place in which they differ would hold an entry that comes
  later in both (`SameMapSamePlaces`). `SummariesAreExact`: the arithmetic of changed lines for all counts.

Assumptions on the constants of Classify and WatchSet: all domains are there (`AllDomainsAssumption`); what stands for a
detached HEAD is no branch (`FileAssumption`); the control files that change have names of the table
(`ChangingAssumption`); `Parent` and `Above` describe a tree whose root no rule matches (`TreeAssumption`).

Only model-checked: the liveness properties themselves (`Converges`, `LineIsServed`, `CatchesUp`, `Settles`), which
are out of the proof system's reach. For the first, the second and the last the proofs give what is left when
fairness is taken away, a measure that every step lowers and what holds when it is used up; that a step is
taken, and that `tokio::select!` takes a line among events, is for TLC. `CatchesUp` has no such
measure, since the tick of a polling process never stops. Further, that `path_state` lists its entries in
order, which `DeltaIsExact` assumes, and the other evaluations of PathStates: they are about folds over lists, which
are defined by recursion. And the six violations.

## What is not modelled

- The values the libgit2 readers build for refs, operations, stashes, worktrees and submodules: the code
  copies fields, and no property tells them apart. Which files they depend on is in Classify.
- Configuration, capabilities and the command line (`lib.rs`, `main.rs`): constant data, one
  validation, and commands that print one document and exit. They have no state.
- The JSON encoding, beyond which fields a patch carries.
- Failures of stdout: the process ends with them and nobody reads on. The channel is never closed while the
  loop runs, since the watcher that owns its sender lives as long as the loop does, so "watcher stopped"
  is the same step as the end of stdin.
- In WatchSet: the recursive watches on `git_dir` and `common_dir`, which stay in place; an excludes file that does
  not exist, which roots.rs:50 leaves out of the targets: it is always there, though it may be replaced; renames of
  watched directories, for which the watch of the kernel moves along under its old name; other platforms than Linux,
  where a directory is watched by itself and its watch goes with it.
- In Classify: files outside the watched directories, like the configuration of the user and of the
  system and the files these include, which readers use and no event reports; `.git`, commondir or gitdir rewritten to
  lead to another repository; and the cancellation of an event's update, which is in Watch and WatchSet. Which
  events the kernel reports for a read is outside of this code, so that a refresh causes no further
  refresh is not claimed: the code adds a filter on the kind (`is_mutating_event`), which is modelled.
- In Classify: the times at which a worktree event and a rule change reach the kernel's queue
  are those of the changes; how events are lost before they reach the process is in Watch.
- A repository that disappears. A watched refresh that fails ends the process (an action of Stream and
  Watch); nothing promises that it survives.
