------------------------------ MODULE WatchSet ------------------------------
(***************************************************************************)
(* The set of directories gitseer watches (watch.rs, watch/roots.rs).      *)
(*                                                                         *)
(* Other processes create, remove and ignore directories.  The kernel      *)
(* reports what happens in a directory only while that directory is        *)
(* watched, and forgets the watch with the directory.  The process keeps   *)
(* its own list, watched_roots, lists directories on a blocking task,      *)
(* registers them afterwards, and learns of new ones from events alone.    *)
(*                                                                         *)
(* Worktree directories form a tree.  One file besides, the configured     *)
(* excludes file, is watched by itself.                                    *)
(***************************************************************************)
EXTENDS Naturals, Sequences, FiniteSets

CONSTANTS
  Dir,         \* the places of worktree directories
  Root,        \* the worktree itself
  Parent,      \* the directory a directory is in
  Above,       \* all directories a directory is in
  NestedRepo,  \* directories with a .git of their own
  Excludes,    \* the configured excludes file
  Rule,        \* what the ignore rules may match: a set of sets of directories
  MaxQueue,    \* events the channel holds
  MayCancel    \* whether a line may cancel an update: a subset of BOOLEAN

ASSUME TreeAssumption ==
  /\ Root \in Dir
  /\ Parent \in [Dir -> Dir]
  /\ Above \in [Dir -> SUBSET Dir]
  /\ Above[Root] = {}
  /\ \A d \in Dir \ {Root} : Above[d] = {Parent[d]} \cup Above[Parent[d]] /\ Root \in Above[d]
  /\ \A d \in Dir : d \notin Above[d] /\ \A e \in Above[d] : Above[e] \subseteq Above[d]
  /\ NestedRepo \subseteq Dir \ {Root}
  /\ Rule \subseteq SUBSET (Dir \ {Root})
  /\ Excludes \notin Dir

ASSUME FiniteAssumption == IsFiniteSet(Dir)

ASSUME BoundAssumption == MaxQueue \in Nat \ {0} /\ MayCancel \subseteq BOOLEAN

Target == Dir \cup {Excludes}

AtOrAbove(d) == Above[d] \cup {d}

Below(d) == {e \in Dir : d \in AtOrAbove(e)}

Event ==
  [kind : {"create", "remove"}, dir : Dir] \cup [kind : {"rules", "rescan"}, dir : {Root}]

Created(d) == [kind |-> "create", dir |-> d]
Removed(d) == [kind |-> "remove", dir |-> d]
Rules      == [kind |-> "rules", dir |-> Root]
Rescan     == [kind |-> "rescan", dir |-> Root]

VARIABLES
  exists,         \* the directories there are
  ignored,        \* the directories the ignore rules match
  kernel,         \* targets the kernel watches
  watched_roots,  \* targets the process takes for watched
  queue,          \* events on their way to the loop
  overflowed,     \* the queue was full
  loop,           \* where the process is
  origin,         \* the directory the listing starts from
  cancellable,    \* the update runs below next_event, not in the drain
  pending,        \* targets listed and not yet registered
  lost,           \* history: targets whose registration nothing will bring about
  rulesLost       \* history: a change of the rules nothing will tell

treeVars == <<exists, ignored>>
taskVars == <<loop, origin, cancellable, pending>>
vars == <<treeVars, kernel, watched_roots, queue, overflowed, taskVars, lost, rulesLost>>

Location ==
  {"unstarted", "starting", "idle", "list", "listed", "reconcile", "replace", "register"}

TypeOK ==
  /\ exists \subseteq Dir /\ Root \in exists
  /\ \A d \in exists : Above[d] \subseteq exists
  /\ ignored \subseteq Dir \ {Root}
  /\ kernel \subseteq exists \cup {Excludes}
  /\ watched_roots \subseteq Target
  /\ queue \in Seq(Event) /\ Len(queue) <= MaxQueue
  /\ overflowed \in BOOLEAN
  /\ loop \in Location
  /\ origin \in Dir
  /\ cancellable \in BOOLEAN
  /\ pending \subseteq Target
  /\ lost \subseteq Target
  /\ rulesLost \in BOOLEAN

-----------------------------------------------------------------------------
(* Listings.                                                               *)

(* git_ignored: a rule that matches a directory matches all below it.      *)
IsIgnored(d) == \E e \in AtOrAbove(d) : e \in ignored

(* Mutant of ListedFrom: the directories inside are not walked.            *)
ListedFromAlone(dir) == IF dir # Root /\ IsIgnored(dir) THEN {} ELSE {dir}

(* worktree_watch_dirs_from: the walk omits ignored directories and does   *)
(* not enter nested repositories.                                          *)
ListedFrom(dir) ==
  IF dir # Root /\ IsIgnored(dir) THEN {}
  ELSE {dir} \cup {d \in exists \cap Below(dir) :
                       /\ ~IsIgnored(d)
                       /\ \A e \in Above[d] \ Above[dir] : e \notin NestedRepo}

(* watch_targets_for_snapshot.  Of its targets only those that exist are   *)
(* kept; here an excludes file is configured and always exists.            *)
Targets == ListedFrom(Root) \cup {Excludes}

-----------------------------------------------------------------------------
(* Other processes, the kernel and the callback.                           *)

(* Mutant of Enqueue: an unbounded channel.                                *)
EnqueueUnbounded(event) ==
  queue' = Append(queue, event) /\ UNCHANGED overflowed

(* The callback enqueues an event, or drops it and marks the overflow.     *)
Enqueue(event) ==
  IF Len(queue) < MaxQueue
  THEN queue' = Append(queue, event) /\ UNCHANGED overflowed
  ELSE overflowed' = TRUE /\ UNCHANGED queue

Dropped == Len(queue) >= MaxQueue

(* The kernel reports an event or, with its own buffer full, a rescan.     *)
Report(event) == Enqueue(event) \/ Enqueue(Rescan)

Silence == UNCHANGED <<queue, overflowed>>

(* A directory appears.  Below a directory that is listed and not yet      *)
(* watched it is in no list and no event tells of it.                      *)
MakeDir(d) ==
  /\ d \notin exists /\ Parent[d] \in exists
  /\ exists' = exists \cup {d}
  /\ IF Parent[d] \in kernel THEN Report(Created(d)) ELSE Silence
  /\ lost' = IF IF Parent[d] \in kernel THEN Dropped ELSE Parent[d] \in pending
             THEN lost \cup {d} ELSE lost
  /\ UNCHANGED <<ignored, kernel, watched_roots, taskVars, rulesLost>>

(* A directory goes with all in it, and the kernel's watches with them.    *)
RemoveDir(d) ==
  /\ d \in exists \ {Root}
  /\ exists' = exists \ Below(d)
  /\ kernel' = kernel \ Below(d)
  /\ lost' = lost \ Below(d)
  /\ IF {d, Parent[d]} \cap kernel # {} THEN Report(Removed(d)) ELSE Silence
  /\ UNCHANGED <<ignored, watched_roots, taskVars, rulesLost>>

(* The root's .gitignore, or a rule file of git, is written.               *)
ChangeRules(rules) ==
  /\ rules # ignored
  /\ ignored' = rules
  /\ IF Root \in kernel THEN Report(Rules) ELSE Silence
  /\ rulesLost' = IF IF Root \in kernel THEN Dropped ELSE loop = "starting"
                  THEN TRUE ELSE rulesLost
  /\ UNCHANGED <<exists, kernel, watched_roots, taskVars, lost>>

(* The excludes file is replaced by another of its name: the watch was on  *)
(* the old file.                                                           *)
ReplaceExcludes(rules) ==
  /\ ignored' = rules
  /\ kernel' = kernel \ {Excludes}
  /\ IF Excludes \in kernel THEN Report(Rules) ELSE Silence
  /\ rulesLost' = IF /\ rules # ignored
                     /\ IF Excludes \in kernel THEN Dropped ELSE loop # "unstarted"
                  THEN TRUE ELSE rulesLost
  /\ lost' = IF Excludes \in kernel /\ ~Dropped THEN lost ELSE lost \cup {Excludes}
  /\ UNCHANGED <<exists, watched_roots, taskVars>>

-----------------------------------------------------------------------------
(* RepositoryWatcher::new: list, then register one after the other; the    *)
(* watcher is dropped when one of them cannot be watched.                  *)

StartListing ==
  /\ loop = "unstarted"
  /\ loop' = "starting"
  /\ pending' = Targets
  /\ lost' = {} /\ rulesLost' = FALSE
  /\ UNCHANGED <<treeVars, kernel, watched_roots, queue, overflowed, origin, cancellable>>

(* Listings put a directory before those below it.                         *)
IsNext(t) == t \in pending /\ (t \in Dir => Above[t] \cap pending = {})

StartRegister(t) ==
  /\ loop = "starting"
  /\ IsNext(t) /\ t \in exists \cup {Excludes}
  /\ kernel' = kernel \cup {t}
  /\ watched_roots' = watched_roots \cup {t}
  /\ pending' = pending \ {t}
  /\ loop' = IF pending' = {} THEN "idle" ELSE "starting"
  /\ lost' = lost \ {t}
  /\ UNCHANGED <<treeVars, queue, overflowed, origin, cancellable, rulesLost>>

(* The first target left is gone, or the kernel refuses to watch it.  The  *)
(* process polls then, until a line has it start again.                    *)
StartFails(t) ==
  /\ loop = "starting"
  /\ IsNext(t)
  /\ loop' = "unstarted"
  /\ kernel' = {} /\ watched_roots' = {} /\ pending' = {}
  /\ queue' = <<>> /\ overflowed' = FALSE
  /\ lost' = {} /\ rulesLost' = FALSE
  /\ UNCHANGED <<treeVars, origin, cancellable>>

-----------------------------------------------------------------------------
(* update_watches_for_event.                                               *)

(* From here on the call awaits nothing.                                   *)
AwaitsNoMore == origin' = Root /\ cancellable' = FALSE

Finish == loop' = "idle" /\ pending' = {} /\ AwaitsNoMore

(* Mutant of TakeOverflow: the flag is read and not swapped.               *)
TakeOverflowRead ==
  /\ loop = "idle" /\ overflowed
  /\ UNCHANGED vars

(* An overflow is an error event: it updates no watches.                   *)
TakeOverflow ==
  /\ loop = "idle" /\ overflowed
  /\ overflowed' = FALSE
  /\ UNCHANGED <<treeVars, kernel, watched_roots, queue, taskVars, lost, rulesLost>>

(* prune_stale_worktree_watch_roots.                                       *)
Pruned == watched_roots \cap (exists \cup {Excludes})

(* next_event (unless an overflow comes first) or the drain takes an       *)
(* event.  Only a directory that is there and new leads to a listing.      *)
Take(cancel) ==
  /\ loop = "idle" /\ queue # <<>>
  /\ cancel => ~overflowed
  /\ queue' = Tail(queue)
  /\ LET event == Head(queue) IN
     \/ /\ event.kind \in {"rules", "rescan"}
        /\ loop' = "reconcile" /\ origin' = Root /\ cancellable' = cancel
        /\ UNCHANGED <<watched_roots, lost>>
     \/ /\ event.kind \in {"create", "remove"}
        /\ event.kind = "create" => event.dir \notin exists
        /\ UNCHANGED <<loop, origin, cancellable, watched_roots, lost>>
     \/ /\ event.kind = "create" /\ event.dir \in exists
        /\ watched_roots' = Pruned
        /\ IF event.dir \in Pruned
           THEN /\ lost' = lost \cup ({event.dir} \ kernel)
                /\ UNCHANGED <<loop, origin, cancellable>>
           ELSE /\ loop' = "list" /\ origin' = event.dir /\ cancellable' = cancel
                /\ UNCHANGED lost
  /\ UNCHANGED <<treeVars, kernel, overflowed, pending, rulesLost>>

(* The blocking task of add_worktree_watch_if_needed.                      *)
List ==
  /\ loop = "list"
  /\ pending' = ListedFrom(origin)
  /\ loop' = "listed"
  /\ UNCHANGED <<treeVars, kernel, watched_roots, queue, overflowed, origin, cancellable,
                 lost, rulesLost>>

Listed ==
  /\ loop = "listed"
  /\ IF pending = {} THEN Finish
     ELSE loop' = "register" /\ AwaitsNoMore /\ UNCHANGED pending
  /\ UNCHANGED <<treeVars, kernel, watched_roots, queue, overflowed, lost, rulesLost>>

(* The blocking task of reconcile_watch_targets reads a snapshot and lists *)
(* the targets; when it fails the event is forgotten.                      *)
Reconcile ==
  /\ loop = "reconcile"
  /\ pending' = Targets
  /\ loop' = "replace"
  /\ rulesLost' = FALSE
  /\ UNCHANGED <<treeVars, kernel, watched_roots, queue, overflowed, origin, cancellable, lost>>

ReconcileFails ==
  /\ loop = "reconcile"
  /\ Finish
  /\ lost' = lost \cup (Targets \ kernel)
  /\ rulesLost' = TRUE
  /\ UNCHANGED <<treeVars, kernel, watched_roots, queue, overflowed>>

(* Mutant of Replace: targets are added and none removed.                 *)
ReplaceOnlyAdds ==
  /\ loop = "replace"
  /\ loop' = "register" /\ AwaitsNoMore
  /\ UNCHANGED <<treeVars, kernel, watched_roots, queue, overflowed, pending,
                 lost, rulesLost>>

(* Mutant of Replace: the list forgets a target the watcher keeps.         *)
ReplaceForgets ==
  /\ loop = "replace"
  /\ UNCHANGED kernel
  /\ watched_roots' = watched_roots \cap pending
  /\ loop' = "register" /\ AwaitsNoMore
  /\ UNCHANGED <<treeVars, queue, overflowed, pending, lost, rulesLost>>

(* Mutant of Replace: every watch is dropped, to be made anew.             *)
ReplaceAll ==
  /\ loop = "replace"
  /\ kernel' = {} /\ watched_roots' = {}
  /\ loop' = "register" /\ AwaitsNoMore
  /\ UNCHANGED <<treeVars, queue, overflowed, pending, lost, rulesLost>>

(* replace_watch_targets up to its calls of watch_root.                    *)
Replace ==
  /\ loop = "replace"
  /\ kernel' = kernel \ (watched_roots \ pending)
  /\ watched_roots' = watched_roots \cap pending
  /\ loop' = "register" /\ AwaitsNoMore
  /\ UNCHANGED <<treeVars, queue, overflowed, pending, lost, rulesLost>>

(* Mutant of Register: a target that cannot be watched is tried again.     *)
RegisterRetries(t) ==
  /\ loop = "register"
  /\ IsNext(t)
  /\ \/ /\ t \in watched_roots \cup exists \cup {Excludes}
        /\ pending' = pending \ {t}
        /\ loop' = IF pending' = {} THEN "idle" ELSE "register"
        /\ kernel' = IF t \in watched_roots THEN kernel ELSE kernel \cup {t}
        /\ watched_roots' = watched_roots \cup {t}
        /\ lost' = lost \cup (({t} \cap (exists \cup {Excludes})) \ kernel')
     \/ /\ t \notin watched_roots
        /\ lost' = lost \cup ({t} \cap (exists \cup {Excludes}))
        /\ UNCHANGED <<kernel, watched_roots, pending, loop>>
  /\ UNCHANGED <<treeVars, queue, overflowed, origin, cancellable, rulesLost>>

(* watch_root: a target in watched_roots is taken for watched; one that    *)
(* cannot be watched is passed over.                                       *)
Register(t) ==
  /\ loop = "register"
  /\ IsNext(t)
  /\ pending' = pending \ {t}
  /\ loop' = IF pending' = {} THEN "idle" ELSE "register"
  /\ \/ /\ t \in watched_roots
        /\ lost' = lost \cup (({t} \cap (exists \cup {Excludes})) \ kernel)
        /\ UNCHANGED <<kernel, watched_roots>>
     \/ /\ t \notin watched_roots /\ t \in exists \cup {Excludes}
        /\ kernel' = kernel \cup {t}
        /\ watched_roots' = watched_roots \cup {t}
        /\ lost' = lost \ {t}
     \/ /\ t \notin watched_roots
        /\ lost' = lost \cup ({t} \cap (exists \cup {Excludes}))
        /\ UNCHANGED <<kernel, watched_roots>>
  /\ UNCHANGED <<treeVars, queue, overflowed, origin, cancellable, rulesLost>>

(* A line on stdin: the select drops next_event while it awaits a task.    *)
Cancel ==
  /\ cancellable
  /\ loop \in {"list", "listed", "reconcile", "replace"}
  /\ Finish
  /\ lost' = lost \cup IF loop \in {"list", "listed"} THEN {origin} \cap exists
                       ELSE Targets \ kernel
  /\ rulesLost' = (rulesLost \/ loop \in {"reconcile", "replace"})
  /\ UNCHANGED <<treeVars, kernel, watched_roots, queue, overflowed>>

-----------------------------------------------------------------------------
Init ==
  /\ exists \in {S \in SUBSET Dir : Root \in S /\ \A d \in S : Above[d] \subseteq S}
  /\ ignored = {}
  /\ kernel = {} /\ watched_roots = {}
  /\ queue = <<>> /\ overflowed = FALSE
  /\ loop = "unstarted" /\ origin = Root /\ cancellable = FALSE /\ pending = {}
  /\ lost = {} /\ rulesLost = FALSE

Others ==
  \/ \E d \in Dir : MakeDir(d) \/ RemoveDir(d)
  \/ \E rules \in Rule : ChangeRules(rules) \/ ReplaceExcludes(rules)

Process ==
  \/ \E t \in Target : StartRegister(t) \/ (t \notin exists \cup {Excludes} /\ StartFails(t))
  \/ TakeOverflow \/ \E cancel \in MayCancel : Take(cancel)
  \/ List \/ Listed \/ Reconcile \/ Replace
  \/ \E t \in Target : Register(t)

Failures == (\E t \in Target : StartFails(t)) \/ ReconcileFails \/ Cancel

Next == Others \/ StartListing \/ Process \/ Failures

Spec == Init /\ [][Next]_vars

(* The loop runs and blocking tasks end; when to start is up to the client. *)
Fairness == WF_vars(Process)

FairSpec == Spec /\ Fairness

-----------------------------------------------------------------------------
(* Properties.                                                             *)

(* The relevant directory tree: neither ignored nor inside another          *)
(* repository.                                                             *)
Relevant == {d \in exists : ~IsIgnored(d) /\ Above[d] \cap NestedRepo = {}}

Awaits(event) == \E i \in DOMAIN queue : queue[i] = event

(* Everything is going to be listed anew.                                  *)
RelistingDue == Awaits(Rules) \/ Awaits(Rescan) \/ loop \in {"unstarted", "reconcile"}

(* A directory is going to be registered: it is listed, or an event for it *)
(* or for one above it leads to a listing that has yet to be made.         *)
Due(d) ==
  \/ RelistingDue
  \/ d \in pending
  \/ \E e \in AtOrAbove(d) : Awaits(Created(e)) \/ (loop = "list" /\ origin = e)

GivenUp(d) == AtOrAbove(d) \cap lost # {}

(* README, Refresh Contract: "watches over the relevant directory tree,    *)
(* including watches added for newly created directories".  A relevant     *)
(* directory that is not watched is going to be, unless its creation was   *)
(* lost: in a full queue, in a cancelled update, between the listing of    *)
(* its parent and the watch on it, or to a stale entry of watched_roots.   *)
Covered ==
  \A d \in Relevant : d \in kernel \/ Due(d) \/ GivenUp(d) \/ rulesLost

(* "Ignored directories are omitted from that watch set": a watch on one   *)
(* is about to be removed, unless the change of the rules was lost.        *)
IgnoredAreOmitted ==
  \A d \in kernel \ {Excludes} :
    IsIgnored(d) => RelistingDue \/ loop = "replace" \/ rulesLost

(* No watch is leaked: the process can remove every watch there is.        *)
NoLeakedWatch == kernel \subseteq watched_roots

(* replace_watch_targets removes the watches on directories                 *)
(* that a new listing leaves out.  The process never stops watching the     *)
(* excludes file or a relevant directory, unless the rules have changed     *)
(* since that listing, which is told by an event or was lost.  (A start     *)
(* that fails drops the watcher with all its watches.)                      *)
RelistingAwaited == Awaits(Rules) \/ Awaits(Rescan)

KeepsWatches ==
  \/ \A t \in kernel \ kernel' :
       t \in Relevant \cup {Excludes} => loop = "starting" \/ RelistingAwaited \/ rulesLost
  \/ Others

KeepsRelevant == [][KeepsWatches]_vars

(* What the process has left to do.  Listing and registering cause no       *)
(* events, so that every step it takes of its own, failures and             *)
(* cancellations included, leaves less: a watch set that changes for ever   *)
(* is changed by others.                                                    *)
Stage ==
  CASE loop \in {"starting", "register"}  -> Cardinality(pending)
    [] loop \in {"listed", "replace"}     -> Cardinality(pending) + 1
    [] loop \in {"list", "reconcile"}     -> Cardinality(Target) + 2
    [] OTHER                              -> 0

Work ==
  (Cardinality(Target) + 3) * Len(queue) + (IF overflowed THEN 1 ELSE 0) + Stage

WorkGoesDown == treeVars' # treeVars \/ Work' < Work \/ StartListing \/ Others

WorkRunsOut == [][WorkGoesDown]_vars

(* When the tree rests and nothing fails, the watch set comes to rest as   *)
(* well, complete but for what was lost.                                   *)
AtRest == loop = "idle" /\ queue = <<>> /\ ~overflowed

Quiet == UNCHANGED treeVars /\ ~Others /\ ~Failures

Settles ==
  <>[][Quiet]_vars =>
    <>[](\/ loop = "unstarted"
         \/ AtRest /\ \A d \in Relevant \ kernel : GivenUp(d) \/ rulesLost)

(* README, Refresh Contract: watches are "added for newly created          *)
(* directories"; a test has a directory rewatched that was removed and made *)
(* again.  At rest, a relevant directory that counts as watched is watched. *)
WatchedRootsAreWatched ==
  AtRest => watched_roots \cap Relevant \subseteq kernel

=============================================================================
