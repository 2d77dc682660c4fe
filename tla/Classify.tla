------------------------------ MODULE Classify ------------------------------
(***************************************************************************)
(* Event classification (watch/classify.rs): from the paths of a watcher   *)
(* event to the sections that are read again, next to what the readers in  *)
(* repository/*.rs derive those sections from.                             *)
(*                                                                         *)
(* Other processes change control files and worktree paths; each change    *)
(* may alter the sections whose readers use the file, and is reported by   *)
(* one event.  The process classifies the event later, and to do so it     *)
(* looks at the repository of that moment: which branch HEAD names, what   *)
(* the ignore rules match, which submodules there are.                     *)
(***************************************************************************)
EXTENDS Plans, Sequences

CONSTANTS
  Branch,      \* local branches
  Detached,    \* what HEAD names when it names no branch
  File,        \* worktree files that are not control files
  Tracked,     \* those of them in the index
  Nested,      \* those of them below the path of a submodule
  NoOwner,     \* the owner of a path that needs none
  Changing,    \* the names of the control files that change
  MaxPending   \* events that may wait to be classified

ASSUME AllDomainsAssumption == RefreshDomain = DOMAIN Position

ASSUME FileAssumption ==
  /\ Tracked \subseteq File /\ Nested \subseteq File
  /\ Detached \notin Branch
  /\ NoOwner \notin Branch
  /\ MaxPending \in Nat \ {0}

-----------------------------------------------------------------------------
(* Names of control paths, relative to git_dir or common_dir.  A name that *)
(* ends in a star stands for everything below a directory.                 *)

OperationNames ==
  {"MERGE_HEAD", "REBASE_HEAD", "CHERRY_PICK_HEAD", "REVERT_HEAD",
   "BISECT_LOG", "BISECT_ANCESTORS_OK", "BISECT_EXPECTED_REV", "BISECT_HEAD",
   "BISECT_NAMES", "BISECT_START", "BISECT_TERMS", "MERGE_MODE", "MERGE_MSG",
   "rebase-merge", "rebase-apply", "sequencer", "sequencer/*",
   "rebase-merge/*", "rebase-apply/*", "refs/bisect/*"}

IndexNames    == {"index", "index.*"}
PathNames     == IndexNames \cup {"info/exclude", "info/sparse-checkout", "config.worktree"}
ModuleNames   == {"modules", "modules/*"}
QuietNames    == {"objects/*", "rr-cache/*", "COMMIT_EDITMSG", "AUTO_MERGE",
                  "MERGE_RR", "logs/*"}
HeadNames     == {"HEAD", "ORIG_HEAD"}
RemoteNames   == {"refs/remotes", "refs/remotes/*", "FETCH_HEAD"}
TagNames      == {"refs/tags", "refs/tags/*"}
PackedNames   == {"packed-refs", "packed-refs.new"}
StashNames    == {"logs/refs/stash", "refs/stash"}
LayoutNames   == {"commondir", "gitdir"}
WorktreeNames == {"worktrees", "worktrees/*"} \cup LayoutNames

(* "refs/heads/*" has a branch for its owner; "refs/*" is any other        *)
(* reference and "other" any other control path the code does not name.    *)
ControlName ==
  OperationNames \cup PathNames \cup ModuleNames \cup QuietNames
    \cup HeadNames \cup RemoteNames \cup TagNames \cup PackedNames
    \cup StashNames \cup WorktreeNames
    \cup {"shallow", "refs/heads", "refs/bisect", "refs/heads/*", "refs/*", "config", "other"}

(* The packed references and the two below have actions of their own.  The *)
(* layout files of a linked worktree say where its repository and its      *)
(* working tree are; they are written when it is added, and a later move   *)
(* leaves no repository at the path the process was started with.          *)
ASSUME ChangingAssumption == Changing \subseteq ControlName \ LayoutNames

(* Paths of the worktree, of the configured excludes file, and outside.    *)
WorktreeName == {".gitignore", ".git", ".gitmodules", "*/.git/*", "file"}

Path ==
  [place : {"control"}, name : ControlName \ {"refs/heads/*"}, owner : {NoOwner}, lock : BOOLEAN]
    \cup [place : {"control"}, name : {"refs/heads/*"}, owner : Branch, lock : BOOLEAN]
    \cup [place : {"worktree"}, name : WorktreeName \ {"file"}, owner : {NoOwner}, lock : {FALSE}]
    \cup [place : {"worktree"}, name : {"file"}, owner : File, lock : {FALSE}]
    \cup [place : {"excludes", "outside"}, name : {"file"}, owner : {NoOwner}, lock : {FALSE}]

Control(name)  == [place |-> "control", name |-> name, owner |-> NoOwner, lock |-> FALSE]
BranchRef(b)   == [place |-> "control", name |-> "refs/heads/*", owner |-> b, lock |-> FALSE]
Worktree(name) == [place |-> "worktree", name |-> name, owner |-> NoOwner, lock |-> FALSE]
FileOf(f)      == [place |-> "worktree", name |-> "file", owner |-> f, lock |-> FALSE]
Elsewhere(place) == [place |-> place, name |-> "file", owner |-> NoOwner, lock |-> FALSE]

(* The lock file git writes first and renames over the path.               *)
LockOf(path) ==
  [place |-> path.place, name |-> path.name, owner |-> path.owner, lock |-> TRUE]

Event == [kind : {"mutation", "access", "rescan", "error"}, paths : SUBSET Path]

Mutation(paths) == [kind |-> "mutation", paths |-> paths]

-----------------------------------------------------------------------------
(* What the readers of the sections use, by the name of the control file.  *)
(* A reference is loose, below refs, or packed.  Objects are named by their*)
(* content: what changes is the reference that leads to them.  "other" is  *)
(* read as info/attributes and as the lock of the linked worktree itself.  *)

(* The unborn test of is_empty lists every reference.                      *)
IdentityReads ==
  {"HEAD", "refs/heads/*", "refs/remotes/*", "refs/tags/*", "refs/stash", "refs/bisect/*",
   "refs/*", "packed-refs", "shallow", "config", "config.worktree"}

HeadReads == {"HEAD", "refs/heads/*", "packed-refs", "shallow"}

(* An upstream is a local or a remote-tracking branch.                     *)
UpstreamReads == HeadReads \cup {"refs/remotes/*", "config", "config.worktree"}

(* The status of a path compares the tree of HEAD, the index and the file, *)
(* under the ignore rules, the attributes and the configuration.           *)
PathsReads ==
  {"HEAD", "refs/heads/*", "packed-refs", "info/exclude", "config", "config.worktree",
   "modules/*", "other"}
    \cup IndexNames

(* During a bisection every reference is listed; git packs none of those   *)
(* below refs/bisect, but the reader takes packed ones as well.            *)
OperationReads ==
  (OperationNames \cup {"packed-refs"})
    \ {"BISECT_ANCESTORS_OK", "BISECT_EXPECTED_REV", "BISECT_HEAD",
       "BISECT_NAMES", "BISECT_TERMS"}

(* The default branch of a remote is a symbolic reference, never packed.   *)
RemotesReads == {"config", "config.worktree", "refs/remotes/*"}

BranchesReads == UpstreamReads

TagsReads == {"refs/tags/*", "packed-refs"}

StashesReads == {"refs/stash", "logs/refs/stash", "packed-refs"}

WorktreesReads == {"worktrees", "worktrees/*", "other"}

(* A submodule is summarised by its commit in the tree of HEAD, in the     *)
(* index and in its own repository; a bare repository has none.            *)
SubmodulesReads ==
  {"HEAD", "refs/heads/*", "packed-refs", "config", "config.worktree", "modules/*"}
    \cup IndexNames

Reads ==
  [Identity |-> IdentityReads, Head |-> HeadReads, Upstream |-> UpstreamReads,
   Paths |-> PathsReads, Operation |-> OperationReads, Remotes |-> RemotesReads,
   Branches |-> BranchesReads, Tags |-> TagsReads, Stashes |-> StashesReads,
   Worktrees |-> WorktreesReads, Submodules |-> SubmodulesReads]

(* The layout files decide which repository all readers read.              *)
Readers(name) == {d \in RefreshDomain : name \in LayoutNames \cup Reads[d]}

-----------------------------------------------------------------------------
VARIABLES
  head,        \* the branch HEAD names, or Detached
  born,        \* the branches that exist
  ignored,     \* the files the ignore rules match
  registered,  \* whether the submodule is registered
  events,      \* events that wait to be classified
  stale,       \* sections in which the snapshot may differ from the repository
  unseen,      \* history: stale sections no plan was going to name
  rulesStale,  \* the watch set may have been listed under other ignore rules
  rulesLost,   \* history: ... and what would list it again was lost or failed
  paired       \* the snapshot's upstream was read for its head

repositoryVars == <<head, born, ignored, registered>>
vars == <<repositoryVars, events, stale, unseen, rulesStale, rulesLost, paired>>

TypeOK ==
  /\ head \in Branch \cup {Detached}
  /\ born \subseteq Branch
  /\ ignored \subseteq File
  /\ registered \in BOOLEAN
  /\ events \in Seq(Event) /\ Len(events) <= MaxPending
  /\ \A i \in DOMAIN events : events[i].kind # "access"
  /\ stale \subseteq RefreshDomain
  /\ unseen \subseteq RefreshDomain
  /\ rulesStale \in BOOLEAN
  /\ rulesLost \in BOOLEAN
  /\ paired \in BOOLEAN

-----------------------------------------------------------------------------
(* The plan of a path, refresh_plan_for_path and what it calls.            *)

(* repo.head() fails for an unborn branch, which then is no current one.   *)
IsCurrentBranchRef(b) == head = b /\ b \in born

(* A lock file stands for its target where the table has a row for it.     *)
LockKnown(name) ==
  name \in HeadNames \cup IndexNames \cup OperationNames \cup TagNames
           \cup {"refs/heads", "refs/heads/*", "refs/remotes", "refs/remotes/*", "refs/bisect",
                 "refs/stash", "refs/*", "config", "config.worktree",
                 "info/sparse-checkout", "worktrees/*"}

(* Mutant of BranchDomains: what is counted against a branch is not read.  *)
BranchDomainsUncounted == {"Head", "Branches"}

(* The sections of a branch and what is counted against it.                *)
BranchDomains == {"Head", "Upstream", "Branches"}

PlanForControlName(name, owner) ==
  IF name \in PathNames THEN DomainsPlan({"Paths"})
  ELSE IF name \in ModuleNames THEN DomainsPlan({"Paths", "Submodules"})
  ELSE IF name \in QuietNames THEN NonePlan
  ELSE IF name \in HeadNames THEN DomainsPlan(BranchDomains \cup {"Paths"})
  ELSE IF name = "shallow" THEN DomainsPlan(BranchDomains \cup {"Identity"})
  ELSE IF name = "refs/heads" THEN DomainsPlan(BranchDomains)
  ELSE IF name = "refs/heads/*"
       THEN DomainsPlan(BranchDomains \cup IF IsCurrentBranchRef(owner) THEN {"Paths"} ELSE {})
  ELSE IF name \in RemoteNames THEN DomainsPlan({"Upstream", "Branches", "Remotes"})
  ELSE IF name \in TagNames THEN DomainsPlan({"Tags"})
  ELSE IF name \in PackedNames THEN DomainsPlan(BranchDomains \cup {"Tags"})
  ELSE IF name = "config" THEN DomainsPlan({"Remotes", "Upstream", "Branches", "Paths"})
  ELSE IF name \in StashNames THEN DomainsPlan(BranchDomains \cup {"Paths", "Stashes"})
  ELSE IF name \in WorktreeNames
       THEN DomainsPlan({"Identity", "Upstream", "Branches", "Worktrees"})
  ELSE IF name \in OperationNames \cup {"refs/bisect"}
       THEN DomainsPlan(BranchDomains \cup {"Operation", "Paths"})
  ELSE FullPlan

PlanForControl(path) ==
  IF path.lock /\ ~LockKnown(path.name) THEN NonePlan
  ELSE PlanForControlName(path.name, path.owner)

IsInsideSubmodule(f) == registered /\ f \in Nested

(* Mutant of PlanForPath: the superproject's ignore rules come first.      *)
PlanForPathIgnoredFirst(path) ==
  IF path.place = "control" THEN PlanForControl(path)
  ELSE IF path.place = "excludes" THEN DomainsPlan({"Paths"})
  ELSE IF path.place = "outside" THEN FullPlan
  ELSE IF path.name = ".gitignore" THEN DomainsPlan({"Paths"})
  ELSE IF path.name = ".git" THEN DomainsPlan({"Identity", "Worktrees"})
  ELSE IF path.owner \in ignored THEN NonePlan
  ELSE IF path.name \in {".gitmodules", "*/.git/*"} \/ IsInsideSubmodule(path.owner)
       THEN DomainsPlan({"Paths", "Submodules"})
  ELSE DomainsPlan({"Paths"})

PlanForPath(path) ==
  IF path.place = "control" THEN PlanForControl(path)
  ELSE IF path.place = "excludes" THEN DomainsPlan({"Paths"})
  ELSE IF path.place = "outside" THEN FullPlan
  ELSE IF path.name = ".gitignore" THEN DomainsPlan({"Paths"})
  ELSE IF path.name = ".git" THEN DomainsPlan({"Identity", "Worktrees"})
  ELSE IF path.name \in {".gitmodules", "*/.git/*"} \/ IsInsideSubmodule(path.owner)
       THEN DomainsPlan({"Paths", "Submodules"})
  ELSE IF path.owner \in ignored THEN NonePlan
  ELSE DomainsPlan({"Paths"})

(* What the loop over the paths of an event combines their plans to.       *)
CombineAll(plans) ==
  IF FullPlan \in plans THEN FullPlan ELSE DomainsPlan(UNION {p.domains : p \in plans})

(* Mutant of ShouldRefreshForEvent: reads are reported as well.            *)
ShouldRefreshForAny(event) == event.kind \in {"access", "mutation", "rescan", "error"}

ShouldRefreshForEvent(event) == event.kind # "access"

PlanForEvent(event) ==
  IF event.kind \in {"rescan", "error"} THEN FullPlan
  ELSE IF event.kind = "access" THEN NonePlan
  ELSE IF event.paths = {} THEN FullPlan
  ELSE CombineAll({PlanForPath(path) : path \in event.paths})

(* Mutant of MayChangeIgnoreRules: rules are thought of as files of git.   *)
MayChangeRulesInGitDir(event) ==
  \E path \in event.paths :
    /\ path.place = "control" /\ ~path.lock
    /\ path.name \in {"info/exclude", "config", "config.worktree"}

(* event_may_change_ignore_rules.                                          *)
MayChangeIgnoreRules(event) ==
  \E path \in event.paths :
    \/ path.place = "excludes"
    \/ /\ path.place = "control" /\ ~path.lock
       /\ path.name \in {"info/exclude", "config", "config.worktree"}
    \/ path.place = "worktree" /\ path.name = ".gitignore"

(* update_watches_for_event lists the watch targets anew: never after an   *)
(* error, always after a rescan.                                           *)
Reconciles(event) ==
  \/ event.kind = "rescan"
  \/ event.kind = "mutation" /\ MayChangeIgnoreRules(event)

-----------------------------------------------------------------------------
(* Other processes.                                                        *)

(* The callback: reads are not reported to the loop.                       *)
Notify(waiting, event) ==
  IF ShouldRefreshForEvent(event) THEN Append(waiting, event) ELSE waiting

(* A change alters sections, of which some will go unseen, and is reported *)
(* as the rename of a lock file over its target or as a write.             *)
Alter(sections, hidden, paths) ==
  /\ Len(events) < MaxPending
  /\ stale' = stale \cup sections
  /\ unseen' = unseen \cup (sections \cap hidden)
  /\ events' = Notify(events, Mutation(paths))
  /\ UNCHANGED <<rulesLost, paired>>

Replace(path) == {LockOf(path), path}

(* Whether is_empty may hold: HEAD names a branch and no branch exists.    *)
MayBeEmpty(h, branches) == h \in Branch /\ branches = {}

IdentityIf(changed) == IF changed THEN {} ELSE {"Identity"}

(* HEAD is attached to another branch, even one to be born, or detached.   *)
MoveHead(h, registeredNow) ==
  /\ h # head
  /\ head' = h /\ registered' = registeredNow
  /\ Alter(Readers("HEAD") \ IdentityIf(MayBeEmpty(h, born) # MayBeEmpty(head, born)),
           {"Identity", "Submodules"}, Replace(Control("HEAD")))
  /\ UNCHANGED <<born, ignored, rulesStale>>

(* A branch is created, moved or deleted (update-ref -d deletes even the   *)
(* current one).  Only the current branch decides on the tree of HEAD, and *)
(* with it on the submodules.                                              *)
ChangeBranch(b, branches, registeredNow) ==
  /\ branches \in {born \cup {b}, born \ {b}} /\ b \in born \cup branches
  /\ registeredNow # registered => b = head
  /\ born' = branches /\ registered' = registeredNow
  /\ Alter(Readers("refs/heads/*")
             \ (IdentityIf(MayBeEmpty(head, branches) # MayBeEmpty(head, born))
                  \cup IF b = head THEN {} ELSE {"Head", "Paths", "Submodules"}),
           {"Identity", "Submodules"} \cup IF b \in branches THEN {} ELSE {"Paths"},
           Replace(BranchRef(b)))
  /\ UNCHANGED <<head, ignored, rulesStale>>

(* The sections of a control file that its row does not name.              *)
Hidden(name) ==
  {d \in RefreshDomain :
     \/ /\ d = "Identity"
        /\ name \in {"config", "config.worktree", "packed-refs", "refs/remotes/*",
                     "refs/tags/*", "refs/stash", "refs/bisect/*"}
     \/ d \in {"Upstream", "Remotes", "Branches"} /\ name = "config.worktree"
     \/ d \in {"Paths", "Operation", "Stashes"} /\ name = "packed-refs"
     \/ /\ d = "Submodules"
        /\ name \in IndexNames \cup {"config", "config.worktree", "packed-refs"}
     \/ /\ d \notin {"Identity", "Upstream", "Branches", "Worktrees"}
        /\ name \in LayoutNames}

(* The packed references are rewritten: any branch may appear or go.       *)
ChangePacked(branches, registeredNow) ==
  /\ registeredNow # registered => head \in Branch
  /\ born' = branches /\ registered' = registeredNow
  /\ Alter(Readers("packed-refs")
             \ (IdentityIf(MayBeEmpty(head, branches) \/ MayBeEmpty(head, born))
                  \cup IF head \in Branch THEN {} ELSE {"Head", "Paths", "Submodules"}),
           Hidden("packed-refs"), Replace(Control("packed-refs")))
  /\ UNCHANGED <<head, ignored, rulesStale>>

(* Any other control file.  Three of them hold ignore rules or say where   *)
(* they are; with the index they decide on submodules as well.             *)
ChangeControl(name, ignoredNow, registeredNow) ==
  /\ name \notin {"HEAD", "refs/heads/*", "packed-refs"}
  /\ ignoredNow # ignored => name \in {"info/exclude", "config", "config.worktree"}
  /\ registeredNow # registered => name \in {"index", "config", "config.worktree"}
  /\ ignored' = ignoredNow /\ registered' = registeredNow
  /\ rulesStale' = (rulesStale \/ ignoredNow # ignored)
  /\ Alter(Readers(name)
             \ IF name \in {"refs/remotes/*", "refs/tags/*", "refs/stash",
                            "refs/bisect/*", "refs/*"}
               THEN IdentityIf(MayBeEmpty(head, born)) ELSE {},
           Hidden(name), Replace(Control(name)))
  /\ UNCHANGED <<head, born>>

(* A .gitignore, which may be one of a submodule, or the configured        *)
(* excludes file, which may be that of all repositories of the user.       *)
ChangeRules(path, ignoredNow) ==
  /\ ignored' = ignoredNow
  /\ rulesStale' = (rulesStale \/ ignoredNow # ignored)
  /\ Alter({"Paths"} \cup IF registered THEN {"Submodules"} ELSE {}, {"Submodules"}, {path})
  /\ UNCHANGED <<head, born, registered>>

ChangeSubmodules(path, registeredNow) ==
  /\ registered' = registeredNow
  /\ Alter({"Paths", "Submodules"}, {}, {path})
  /\ UNCHANGED <<head, born, ignored, rulesStale>>

(* The .git file of a linked worktree, or a path nothing depends on.       *)
ChangeOther(path) ==
  /\ Alter(IF path.name = ".git" THEN {"Identity"} ELSE {}, {}, {path})
  /\ UNCHANGED <<repositoryVars, rulesStale>>

(* A worktree file.  An ignored file shows in no section, unless it is     *)
(* tracked: the rules then match it, but git does not apply them.          *)
ChangeFile(f) ==
  /\ Alter(IF IsInsideSubmodule(f) THEN {"Paths", "Submodules"}
           ELSE IF f \in ignored \ Tracked THEN {} ELSE {"Paths"},
           IF f \in ignored /\ ~IsInsideSubmodule(f) THEN {"Paths"} ELSE {},
           {FileOf(f)})
  /\ UNCHANGED <<repositoryVars, rulesStale>>

(* Events are lost between kernel and loop: anything may have changed.     *)
LoseEvents(kind, h, branches, ignoredNow, registeredNow) ==
  /\ kind \in {"rescan", "error"}
  /\ Len(events) < MaxPending
  /\ events' = Notify(events, [kind |-> kind, paths |-> {}])
  /\ head' = h /\ born' = branches
  /\ ignored' = ignoredNow /\ registered' = registeredNow
  /\ rulesStale' = (rulesStale \/ ignoredNow # ignored)
  /\ rulesLost' = (rulesLost \/ (kind = "error" /\ ignoredNow # ignored))
  /\ stale' = RefreshDomain
  /\ UNCHANGED <<unseen, paired>>

(* A file is opened or read, by this process or by another.                *)
OpenFile(path) ==
  /\ Len(events) < MaxPending
  /\ events' = Notify(events, [kind |-> "access", paths |-> {path}])
  /\ UNCHANGED <<repositoryVars, stale, unseen, rulesStale, rulesLost, paired>>

-----------------------------------------------------------------------------
(* The loop classifies the next event and refreshes by its plan.  When it  *)
(* lists the watch targets first (done), that may fail, for good: nothing  *)
(* tries again.                                                            *)
Handle(done) ==
  /\ events # <<>>
  /\ done => Reconciles(Head(events))
  /\ LET plan == PlanForEvent(Head(events))
         read == Refreshed(plan)
     IN
     /\ stale' = stale \ (read \ IF "Head" \in stale \ read THEN {"Upstream"} ELSE {})
     /\ unseen' = unseen \cap stale'
     /\ paired' = IF "Upstream" \in read THEN TRUE
                  ELSE paired /\ ~("Head" \in read \cap stale)
  /\ events' = Tail(events)
  /\ rulesStale' = (rulesStale /\ ~done)
  /\ rulesLost' = (rulesStale' /\ (rulesLost \/ Reconciles(Head(events))))
  /\ UNCHANGED repositoryVars

-----------------------------------------------------------------------------
(* The loop has a fresh snapshot, even of a repository without commits.    *)
Init ==
  /\ born \in SUBSET Branch
  /\ head \in Branch
  /\ ignored = {} /\ registered = FALSE
  /\ events = <<>>
  /\ stale = {} /\ unseen = {}
  /\ rulesStale = FALSE /\ rulesLost = FALSE
  /\ paired = TRUE

ChangeRefs ==
  \E registeredNow \in BOOLEAN :
    \/ \E h \in Branch \cup {Detached} : MoveHead(h, registeredNow)
    \/ \E b \in Branch, branches \in SUBSET Branch : ChangeBranch(b, branches, registeredNow)
    \/ \E branches \in SUBSET Branch : ChangePacked(branches, registeredNow)

ChangeControlFiles ==
  \E name \in Changing, rules \in SUBSET File, registeredNow \in BOOLEAN :
    ChangeControl(name, rules, registeredNow)

ChangeWorktree ==
  \/ \E path \in {Worktree(".gitignore"), Elsewhere("excludes")}, rules \in SUBSET File :
       ChangeRules(path, rules)
  \/ \E path \in {Worktree(".gitmodules"), Worktree("*/.git/*")}, registeredNow \in BOOLEAN :
       ChangeSubmodules(path, registeredNow)
  \/ \E path \in {Worktree(".git"), Elsewhere("outside")} : ChangeOther(path)
  \/ \E f \in File : ChangeFile(f)

LoseAnyEvents ==
  \E kind \in {"rescan", "error"}, h \in Branch \cup {Detached}, branches \in SUBSET Branch,
     rules \in SUBSET File, registeredNow \in BOOLEAN :
    LoseEvents(kind, h, branches, rules, registeredNow)

Next ==
  \/ ChangeRefs \/ ChangeControlFiles \/ ChangeWorktree
  \/ LoseAnyEvents
  \/ OpenFile(Control("HEAD"))
  \/ \E done \in BOOLEAN : Handle(done)

Spec == Init /\ [][Next]_vars

-----------------------------------------------------------------------------
(* Properties.                                                             *)

(* A changed section is read again: some waiting event, classified as the  *)
(* repository is now, leads to a plan that names it, although the plan is  *)
(* made later than the change.  The exceptions are those of the actions.   *)
EveryChangeIsOwed ==
  stale \subseteq unseen \cup UNION {Refreshed(PlanForEvent(events[i])) : i \in DOMAIN events}

(* The upstream in a snapshot is that of the head in it, whichever         *)
(* sections were refreshed and however stale both are.                     *)
UpstreamFitsHead == paired

(* README, Refresh Contract: "Ignore-rule files remain watched inputs".    *)
(* The watch set is listed again after the rules have changed, unless the  *)
(* event was lost to an error or the listing it asked for failed.          *)
RulesAreFollowed ==
  rulesStale => rulesLost \/ \E i \in DOMAIN events : Reconciles(events[i])

(* README, Refresh Contract: "Unaffected libgit2-backed state sections are *)
(* retained from the previous snapshot."  If only these are, then the      *)
(* submodules are up to date when no event waits.                          *)
SubmodulesFollow == events = <<>> => "Submodules" \notin stale

=============================================================================
