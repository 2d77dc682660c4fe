--------------------------- MODULE ClassifyProofs ---------------------------
(***************************************************************************)
(* The classifier forgets no change beyond its known holes, keeps upstream *)
(* and head together and follows the ignore rules: for every set of        *)
(* branches, files and control files and every number of waiting events.   *)
(***************************************************************************)
EXTENDS Classify, PlansProofs

-----------------------------------------------------------------------------
(* Plans of paths and events.                                              *)

LEMMA AllDomains ==
  RefreshDomain = {"Identity", "Head", "Upstream", "Paths", "Operation", "Remotes",
                   "Branches", "Tags", "Stashes", "Worktrees", "Submodules"}
BY AllDomainsAssumption DEF Position

(* The plan that names a set of domains.                                   *)
LEMMA DomainsPlanFacts ==
  ASSUME NEW D \in SUBSET RefreshDomain
  PROVE  DomainsPlan(D) \in RefreshPlan /\ Refreshed(DomainsPlan(D)) = D
BY DEF DomainsPlan, RefreshPlan, Refreshed

LEMMA FixedPlanFacts ==
  /\ FullPlan \in RefreshPlan /\ Refreshed(FullPlan) = RefreshDomain
  /\ NonePlan \in RefreshPlan /\ Refreshed(NonePlan) = {}
BY DEF FullPlan, NonePlan, RefreshPlan, Refreshed

(* A plan is one of three kinds.                                           *)
LEMMA PlanShapes ==
  ASSUME NEW p \in RefreshPlan
  PROVE  \/ p = FullPlan
         \/ p = NonePlan
         \/ /\ p = [kind |-> "Domains", domains |-> p.domains]
            /\ p.domains \in (SUBSET RefreshDomain) \ {{}}
<1>1. CASE p \in [kind : {"None", "Full"}, domains : {{}}]
  BY <1>1 DEF FullPlan, NonePlan
<1>2. CASE p \in [kind : {"Domains"}, domains : (SUBSET RefreshDomain) \ {{}}]
  BY <1>2
<1> QED
  BY <1>1, <1>2 DEF RefreshPlan

(* Every row of the table is a plan, and one that names the head names the *)
(* upstream, which is read for it.                                         *)
LEMMA RowFacts ==
  ASSUME NEW name, NEW owner
  PROVE  LET plan == PlanForControlName(name, owner) IN
         /\ plan \in RefreshPlan
         /\ "Head" \in Refreshed(plan) => "Upstream" \in Refreshed(plan)
<1> DEFINE plan == PlanForControlName(name, owner)
           current == IF IsCurrentBranchRef(owner) THEN {"Paths"} ELSE {}
           Named == {{"Paths"}, {"Paths", "Submodules"}, BranchDomains \cup {"Paths"},
                     BranchDomains \cup {"Identity"}, BranchDomains, BranchDomains \cup current,
                     {"Upstream", "Branches", "Remotes"}, {"Tags"}, BranchDomains \cup {"Tags"},
                     {"Remotes", "Upstream", "Branches", "Paths"},
                     BranchDomains \cup {"Paths", "Stashes"},
                     {"Identity", "Upstream", "Branches", "Worktrees"},
                     BranchDomains \cup {"Operation", "Paths"}}
<1>1. \/ plan \in {FullPlan, NonePlan}
      \/ \E D \in Named : plan = DomainsPlan(D)
  BY DEF PlanForControlName
<1>2. \A D \in Named : D \subseteq RefreshDomain /\ ("Head" \in D => "Upstream" \in D)
  BY AllDomains DEF BranchDomains
<1> HIDE DEF plan, Named
<1>3. plan \in RefreshPlan /\ ("Head" \in Refreshed(plan) => "Upstream" \in Refreshed(plan))
  BY <1>1, <1>2, DomainsPlanFacts, FixedPlanFacts, AllDomains
<1> QED
  BY <1>3 DEF plan

LEMMA PathFacts ==
  ASSUME NEW path \in Path
  PROVE  LET plan == PlanForPath(path) IN
         /\ plan \in RefreshPlan
         /\ "Head" \in Refreshed(plan) => "Upstream" \in Refreshed(plan)
<1> DEFINE plan == PlanForPath(path)
           Named == {{"Paths"}, {"Identity", "Worktrees"}, {"Paths", "Submodules"}}
<1>1. \/ plan = PlanForControlName(path.name, path.owner)
      \/ plan \in {FullPlan, NonePlan}
      \/ \E D \in Named : plan = DomainsPlan(D)
  BY DEF PlanForPath, PlanForControl
<1>2. \A D \in Named : D \subseteq RefreshDomain /\ "Head" \notin D
  BY AllDomains
<1> HIDE DEF plan, Named
<1>3. plan \in RefreshPlan /\ ("Head" \in Refreshed(plan) => "Upstream" \in Refreshed(plan))
  BY <1>1, <1>2, DomainsPlanFacts, FixedPlanFacts, AllDomains, RowFacts
<1> QED
  BY <1>3 DEF plan

(* The loop over the paths reads what one of their plans reads.            *)
LEMMA CombineAllRefreshes ==
  ASSUME NEW plans \in SUBSET RefreshPlan
  PROVE  /\ CombineAll(plans) \in RefreshPlan
         /\ Refreshed(CombineAll(plans)) = UNION {Refreshed(p) : p \in plans}
<1>1. CASE FullPlan \in plans
  BY <1>1, FixedPlanFacts, RefreshedType DEF CombineAll
<1>2. CASE FullPlan \notin plans
  <2>1. \A p \in plans : Refreshed(p) = p.domains /\ p.domains \subseteq RefreshDomain
    <3> SUFFICES ASSUME NEW p \in plans
                 PROVE  Refreshed(p) = p.domains /\ p.domains \subseteq RefreshDomain
      OBVIOUS
    <3>1. p # FullPlan
      BY <1>2
    <3>2. CASE p = NonePlan
      BY <3>2 DEF NonePlan, Refreshed
    <3>3. CASE /\ p = [kind |-> "Domains", domains |-> p.domains]
               /\ p.domains \in (SUBSET RefreshDomain) \ {{}}
      <4>1. p.kind = "Domains"
        BY <3>3
      <4> QED
        BY <3>3, <4>1 DEF Refreshed
    <3> QED
      BY <3>1, <3>2, <3>3, PlanShapes
  <2>2. CombineAll(plans) = DomainsPlan(UNION {p.domains : p \in plans})
    BY <1>2 DEF CombineAll
  <2>3. UNION {p.domains : p \in plans} \in SUBSET RefreshDomain
    BY <2>1
  <2>4. UNION {p.domains : p \in plans} = UNION {Refreshed(p) : p \in plans}
    BY <2>1
  <2> QED
    BY <2>2, <2>3, <2>4, DomainsPlanFacts
<1> QED
  BY <1>1, <1>2

(* CombineAll is refresh_plan_for_event's fold of combine: it begins with  *)
(* no plan, and one more path combines its plan with what there is.        *)
THEOREM CombineAllIsTheLoop ==
  /\ CombineAll({}) = NonePlan
  /\ \A plans \in SUBSET RefreshPlan : \A p \in RefreshPlan :
       CombineAll(plans \cup {p}) = Combine(CombineAll(plans), p)
<1>1. CombineAll({}) = NonePlan
  <2>1. UNION {p.domains : p \in {}} = {}
    OBVIOUS
  <2> QED
    BY <2>1 DEF CombineAll, DomainsPlan, NonePlan
<1>2. ASSUME NEW plans \in SUBSET RefreshPlan, NEW p \in RefreshPlan
      PROVE  CombineAll(plans \cup {p}) = Combine(CombineAll(plans), p)
  <2>1. CASE FullPlan \in plans
    BY <2>1 DEF CombineAll, Combine, FullPlan
  <2>2. CASE FullPlan \notin plans /\ p = FullPlan
    BY <2>2 DEF CombineAll, Combine, FullPlan
  <2>3. CASE FullPlan \notin plans /\ p # FullPlan
    <3> DEFINE D == UNION {q.domains : q \in plans}
    <3>1. /\ CombineAll(plans) = DomainsPlan(D)
          /\ CombineAll(plans \cup {p}) = DomainsPlan(UNION {q.domains : q \in plans \cup {p}})
      BY <2>3 DEF CombineAll
    <3>2. UNION {q.domains : q \in plans \cup {p}} = D \cup p.domains
      OBVIOUS
    <3>3. \/ p.kind = "None" /\ p.domains = {} /\ p = NonePlan
          \/ /\ p.kind = "Domains" /\ p.domains # {}
             /\ p = [kind |-> "Domains", domains |-> p.domains]
      BY <2>3 DEF RefreshPlan, FullPlan, NonePlan
    <3> HIDE DEF D
    <3>4. Combine(DomainsPlan(D), p) = DomainsPlan(D \cup p.domains)
      BY <3>3 DEF Combine, DomainsPlan, NonePlan
    <3> QED
      BY <3>1, <3>2, <3>4
  <2> QED
    BY <2>1, <2>2, <2>3
<1> QED
  BY <1>1, <1>2

(* Classification is total and keeps upstream with head, for every event   *)
(* and whatever the repository looks like when the event is classified.    *)
THEOREM ClassifierKeepsPair ==
  ASSUME NEW event \in Event
  PROVE  LET plan == PlanForEvent(event) IN
         /\ plan \in RefreshPlan
         /\ "Head" \in Refreshed(plan) => "Upstream" \in Refreshed(plan)
<1> DEFINE plan == PlanForEvent(event)
           plans == {PlanForPath(path) : path \in event.paths}
<1>1. event.paths \subseteq Path
  BY DEF Event
<1>2. plans \in SUBSET RefreshPlan
  BY <1>1, PathFacts
<1>3. plan \in {FullPlan, NonePlan} \/ plan = CombineAll(plans)
  BY DEF PlanForEvent
<1>4. Refreshed(CombineAll(plans)) = UNION {Refreshed(p) : p \in plans}
      /\ CombineAll(plans) \in RefreshPlan
  BY <1>2, CombineAllRefreshes
<1>5. \A p \in plans : "Head" \in Refreshed(p) => "Upstream" \in Refreshed(p)
  BY <1>1, PathFacts
<1> HIDE DEF plan, plans
<1>6. plan \in RefreshPlan /\ ("Head" \in Refreshed(plan) => "Upstream" \in Refreshed(plan))
  BY <1>3, <1>4, <1>5, FixedPlanFacts, AllDomains
<1> QED
  BY <1>6 DEF plan

-----------------------------------------------------------------------------
(* The table against the readers.                                          *)

(* Which sections the references every action of its own changes alter.    *)
LEMMA RefReaders ==
  /\ Readers("HEAD") = {"Identity", "Head", "Upstream", "Paths", "Branches", "Submodules"}
  /\ Readers("refs/heads/*") =
       {"Identity", "Head", "Upstream", "Paths", "Branches", "Submodules"}
  /\ Readers("packed-refs") =
       {"Identity", "Head", "Upstream", "Paths", "Operation", "Branches", "Tags", "Stashes",
        "Submodules"}
<1>1. ASSUME NEW name \in {"HEAD", "refs/heads/*", "packed-refs"}
      PROVE  /\ {"Identity", "Head", "Upstream", "Paths", "Branches", "Submodules"}
                   \subseteq Readers(name)
             /\ "Remotes" \notin Readers(name) /\ "Worktrees" \notin Readers(name)
             /\ \A d \in {"Operation", "Tags", "Stashes"} :
                  d \in Readers(name) <=> name = "packed-refs"
  <2>1. /\ name \in IdentityReads /\ name \in HeadReads /\ name \in UpstreamReads
        /\ name \in PathsReads /\ name \in BranchesReads /\ name \in SubmodulesReads
    BY DEF IdentityReads, HeadReads, UpstreamReads, PathsReads, BranchesReads, SubmodulesReads
  <2>2. name \notin RemotesReads /\ name \notin WorktreesReads /\ name \notin LayoutNames
    BY DEF RemotesReads, WorktreesReads, LayoutNames
  <2>3. /\ name \in OperationReads <=> name = "packed-refs"
        /\ name \in TagsReads <=> name = "packed-refs"
        /\ name \in StashesReads <=> name = "packed-refs"
    BY DEF OperationReads, OperationNames, TagsReads, StashesReads
  <2> QED
    BY <2>1, <2>2, <2>3, AllDomains DEF Readers, Reads
<1>2. \A name : Readers(name) \subseteq RefreshDomain
  BY DEF Readers
<1> QED
  BY <1>1, <1>2, AllDomains

(* A control file that is no head and no branch, the packed references and *)
(* the layout files included: the row of the file names every section that *)
(* reads it, the hidden ones excepted.                                     *)
THEOREM RowCovers ==
  ASSUME NEW name \in ControlName \ {"HEAD", "refs/heads/*"}, NEW owner,
         NEW d \in Readers(name) \ Hidden(name)
  PROVE  d \in Refreshed(PlanForControlName(name, owner))
<1> USE DEF Readers, Reads, Hidden, PlanForControlName, BranchDomains, OperationNames,
            IndexNames, PathNames, ModuleNames, QuietNames, HeadNames, RemoteNames, TagNames,
            PackedNames, StashNames, WorktreeNames, LayoutNames
<1>1. \A D \in SUBSET RefreshDomain : Refreshed(DomainsPlan(D)) = D
  BY DomainsPlanFacts
<1>2. CASE d = "Identity"
  BY <1>1, <1>2, AllDomains, FixedPlanFacts DEF IdentityReads
<1>3. CASE d = "Head"
  BY <1>1, <1>3, AllDomains, FixedPlanFacts DEF HeadReads
<1>4. CASE d = "Upstream"
  BY <1>1, <1>4, AllDomains, FixedPlanFacts DEF HeadReads, UpstreamReads
<1>5. CASE d = "Paths"
  BY <1>1, <1>5, AllDomains, FixedPlanFacts DEF PathsReads
<1>6. CASE d = "Operation"
  BY <1>1, <1>6, AllDomains, FixedPlanFacts DEF OperationReads
<1>7. CASE d = "Remotes"
  BY <1>1, <1>7, AllDomains, FixedPlanFacts DEF RemotesReads
<1>8. CASE d = "Branches"
  BY <1>1, <1>8, AllDomains, FixedPlanFacts DEF HeadReads, UpstreamReads, BranchesReads
<1>9. CASE d = "Tags"
  BY <1>1, <1>9, AllDomains, FixedPlanFacts DEF TagsReads
<1>10. CASE d = "Stashes"
  BY <1>1, <1>10, AllDomains, FixedPlanFacts DEF StashesReads
<1>11. CASE d = "Worktrees"
  BY <1>1, <1>11, AllDomains, FixedPlanFacts DEF WorktreesReads
<1>12. CASE d = "Submodules"
  BY <1>1, <1>12, AllDomains, FixedPlanFacts DEF SubmodulesReads
<1> QED
  BY AllDomains, <1>2, <1>3, <1>4, <1>5, <1>6, <1>7, <1>8, <1>9, <1>10, <1>11, <1>12 DEF Readers

(* A named control path is planned by its row, lock files apart.           *)
LEMMA ControlRefreshes ==
  ASSUME NEW path \in Path, path.place = "control", ~path.lock
  PROVE  PlanForPath(path) = PlanForControlName(path.name, path.owner)
BY DEF PlanForPath, PlanForControl

(* An event that mentions a path reads what the plan of the path reads.    *)
LEMMA EventReads ==
  ASSUME NEW paths \in SUBSET Path, NEW path \in paths
  PROVE  /\ PlanForEvent(Mutation(paths)) = CombineAll({PlanForPath(p) : p \in paths})
         /\ Refreshed(PlanForEvent(Mutation(paths))) =
              UNION {Refreshed(PlanForPath(p)) : p \in paths}
         /\ Refreshed(PlanForPath(path)) \subseteq Refreshed(PlanForEvent(Mutation(paths)))
<1>1. PlanForEvent(Mutation(paths)) = CombineAll({PlanForPath(p) : p \in paths})
  BY DEF PlanForEvent, Mutation
<1>2. {PlanForPath(p) : p \in paths} \in SUBSET RefreshPlan
  BY PathFacts
<1>3. Refreshed(PlanForEvent(Mutation(paths))) =
        UNION {Refreshed(q) : q \in {PlanForPath(p) : p \in paths}}
  BY <1>1, <1>2, CombineAllRefreshes
<1> QED
  BY <1>1, <1>3

-----------------------------------------------------------------------------
(* Paths and events of the environment.                                    *)

LEMMA PathTypes ==
  /\ \A name \in ControlName \ {"refs/heads/*"} :
       Control(name) \in Path /\ LockOf(Control(name)) \in Path
  /\ \A b \in Branch : BranchRef(b) \in Path /\ LockOf(BranchRef(b)) \in Path
  /\ \A name \in WorktreeName \ {"file"} : Worktree(name) \in Path
  /\ \A f \in File : FileOf(f) \in Path
  /\ \A place \in {"excludes", "outside"} : Elsewhere(place) \in Path
<1> DEFINE OfControl == [place : {"control"}, name : ControlName \ {"refs/heads/*"},
                         owner : {NoOwner}, lock : BOOLEAN]
           OfBranch  == [place : {"control"}, name : {"refs/heads/*"}, owner : Branch,
                         lock : BOOLEAN]
           OfTree    == [place : {"worktree"}, name : WorktreeName \ {"file"},
                         owner : {NoOwner}, lock : {FALSE}]
           OfFile    == [place : {"worktree"}, name : {"file"}, owner : File, lock : {FALSE}]
           OfOther   == [place : {"excludes", "outside"}, name : {"file"},
                         owner : {NoOwner}, lock : {FALSE}]
<1>1. \A name \in ControlName \ {"refs/heads/*"} :
        Control(name) \in OfControl /\ LockOf(Control(name)) \in OfControl
  BY DEF Control, LockOf
<1>2. \A b \in Branch : BranchRef(b) \in OfBranch /\ LockOf(BranchRef(b)) \in OfBranch
  BY DEF BranchRef, LockOf
<1>3. \A name \in WorktreeName \ {"file"} : Worktree(name) \in OfTree
  BY DEF Worktree
<1>4. \A f \in File : FileOf(f) \in OfFile
  BY DEF FileOf
<1>5. \A place \in {"excludes", "outside"} : Elsewhere(place) \in OfOther
  BY DEF Elsewhere
<1>6. Path = OfControl \cup OfBranch \cup OfTree \cup OfFile \cup OfOther
  BY DEF Path
<1> HIDE DEF OfControl, OfBranch, OfTree, OfFile, OfOther
<1> QED
  BY <1>1, <1>2, <1>3, <1>4, <1>5, <1>6

(* A change is reported by an event of the right kind.                     *)
LEMMA MutationType ==
  ASSUME NEW paths \in SUBSET Path
  PROVE  /\ Mutation(paths) \in Event
         /\ ShouldRefreshForEvent(Mutation(paths))
         /\ Mutation(paths).kind = "mutation"
BY DEF Mutation, Event, ShouldRefreshForEvent

LEMMA LossType ==
  ASSUME NEW kind \in {"rescan", "error"}
  PROVE  LET event == [kind |-> kind, paths |-> {}] IN
         /\ event \in Event
         /\ ShouldRefreshForEvent(event)
         /\ event.kind # "access"
         /\ PlanForEvent(event) = FullPlan
BY DEF Event, ShouldRefreshForEvent, PlanForEvent

-----------------------------------------------------------------------------
(* Types.                                                                  *)

(* One more event at the end of the queue.                                 *)
LEMMA AppendFacts ==
  ASSUME TypeOK, Len(events) < MaxPending, NEW e \in Event, e.kind # "access",
         events' = Append(events, e)
  PROVE  /\ events' \in Seq(Event) /\ Len(events') <= MaxPending
         /\ \A i \in DOMAIN events' : events'[i].kind # "access"
         /\ \A i \in DOMAIN events : i \in DOMAIN events' /\ events'[i] = events[i]
         /\ \E i \in DOMAIN events' : events'[i] = e
<1>1. events \in Seq(Event) /\ \A i \in DOMAIN events : events[i].kind # "access"
  BY DEF TypeOK
<1>2. /\ events' \in Seq(Event)
      /\ Len(events') = Len(events) + 1
      /\ Len(events) \in Nat
      /\ DOMAIN events = 1..Len(events)
      /\ DOMAIN events' = 1..(Len(events) + 1)
      /\ events'[Len(events) + 1] = e
      /\ \A i \in 1..Len(events) : events'[i] = events[i]
  BY <1>1
<1>3. Len(events') <= MaxPending
  BY <1>2, FileAssumption
<1>4. \A i \in 1..(Len(events) + 1) : i \in 1..Len(events) \/ i = Len(events) + 1
  BY <1>2
<1>5. \A i \in DOMAIN events' : events'[i].kind # "access"
  BY <1>1, <1>2, <1>4
<1>6. Len(events) + 1 \in DOMAIN events'
  BY <1>2
<1> QED
  BY <1>2, <1>3, <1>5, <1>6

(* The first event leaves the queue.                                       *)
LEMMA TailFacts ==
  ASSUME TypeOK, events # <<>>, events' = Tail(events)
  PROVE  /\ Head(events) \in Event /\ Head(events).kind # "access"
         /\ events' \in Seq(Event) /\ Len(events') <= MaxPending
         /\ Len(events') < Len(events)
         /\ \A i \in DOMAIN events' : events'[i].kind # "access"
         /\ \A i \in DOMAIN events :
              events[i] = Head(events) \/ \E j \in DOMAIN events' : events'[j] = events[i]
<1>1. events \in Seq(Event) /\ \A i \in DOMAIN events : events[i].kind # "access"
  BY DEF TypeOK
<1>2. /\ Head(events) \in Event
      /\ Head(events) = events[1]
      /\ events' \in Seq(Event)
      /\ Len(events') = Len(events) - 1
      /\ Len(events) \in Nat \ {0}
      /\ DOMAIN events = 1..Len(events)
      /\ DOMAIN events' = 1..(Len(events) - 1)
      /\ \A i \in 1..(Len(events) - 1) : events'[i] = events[i + 1]
  BY <1>1
<1>3. Len(events') <= MaxPending /\ Len(events') < Len(events)
  BY <1>2, FileAssumption DEF TypeOK
<1>4. \A i \in DOMAIN events' : events'[i].kind # "access"
  BY <1>1, <1>2
<1>5. ASSUME NEW i \in DOMAIN events
      PROVE  events[i] = Head(events) \/ \E j \in DOMAIN events' : events'[j] = events[i]
  <2>1. CASE i = 1
    BY <1>2, <2>1
  <2>2. CASE i # 1
    <3>1. i - 1 \in DOMAIN events' /\ events'[i - 1] = events[i]
      BY <1>2, <2>2
    <3> QED
      BY <3>1
  <2> QED
    BY <2>1, <2>2
<1>6. Head(events).kind # "access"
  BY <1>1, <1>2
<1> QED
  BY <1>2, <1>3, <1>4, <1>5, <1>6

LEMMA AlterFacts ==
  ASSUME TypeOK, NEW sections \in SUBSET RefreshDomain, NEW hidden,
         NEW paths \in SUBSET Path, Alter(sections, hidden, paths)
  PROVE  /\ events' = Append(events, Mutation(paths))
         /\ Len(events) < MaxPending
         /\ events' \in Seq(Event) /\ Len(events') <= MaxPending
         /\ \A i \in DOMAIN events' : events'[i].kind # "access"
         /\ stale' = stale \cup sections /\ stale' \subseteq RefreshDomain
         /\ unseen' = unseen \cup (sections \cap hidden) /\ unseen' \subseteq RefreshDomain
         /\ rulesLost' = rulesLost /\ paired' = paired
<1>1. events' = Append(events, Mutation(paths)) /\ Len(events) < MaxPending
  BY MutationType DEF Alter, Notify
<1>2. /\ events' \in Seq(Event) /\ Len(events') <= MaxPending
      /\ \A i \in DOMAIN events' : events'[i].kind # "access"
  BY <1>1, MutationType, AppendFacts
<1>3. /\ stale' = stale \cup sections
      /\ unseen' = unseen \cup (sections \cap hidden)
      /\ rulesLost' = rulesLost /\ paired' = paired
  BY DEF Alter
<1> QED
  BY <1>1, <1>2, <1>3 DEF TypeOK

(* Handling an event: what it reads leaves the stale sections.             *)
LEMMA HandleFacts ==
  ASSUME TypeOK, NEW done \in BOOLEAN, Handle(done)
  PROVE  LET plan == PlanForEvent(Head(events))
             read == Refreshed(plan)
         IN
         /\ events # <<>> /\ events' = Tail(events)
         /\ plan \in RefreshPlan
         /\ stale' = stale \ (read \ IF "Head" \in stale \ read THEN {"Upstream"} ELSE {})
         /\ unseen' = unseen \cap stale'
         /\ paired' = IF "Upstream" \in read THEN TRUE ELSE paired /\ ~("Head" \in read \cap stale)
         /\ rulesStale' = (rulesStale /\ ~done)
         /\ rulesLost' = (rulesStale' /\ (rulesLost \/ Reconciles(Head(events))))
         /\ UNCHANGED repositoryVars
<1>1. events # <<>> /\ events \in Seq(Event)
  BY DEF Handle, TypeOK
<1>2. Head(events) \in Event
  BY <1>1
<1> QED
  BY <1>1, <1>2, ClassifierKeepsPair DEF Handle

-----------------------------------------------------------------------------
(* Late classification.  The repository moves on between an event and its  *)
(* classification; what the later plan misses is among a few sections.     *)

LEMMA PathGrows ==
  ASSUME NEW path \in Path, NEW D,
         \A b \in Branch : IsCurrentBranchRef(b) => IsCurrentBranchRef(b)' \/ "Paths" \in D,
         ignored' # ignored => "Paths" \in D,
         registered' # registered => {"Paths", "Submodules"} \subseteq D
  PROVE  Refreshed(PlanForPath(path)) \subseteq Refreshed(PlanForPath(path)') \cup D
<1>1. \A E \in SUBSET RefreshDomain : Refreshed(DomainsPlan(E)) = E
  BY DomainsPlanFacts
<1>2. CASE path.place = "control"
  <2>1. path.name = "refs/heads/*" => path.owner \in Branch
    BY <1>2 DEF Path
  <2>2. CASE path.name # "refs/heads/*"
    <3>1. PlanForControlName(path.name, path.owner)
            = PlanForControlName(path.name, path.owner)'
      BY <2>2 DEF PlanForControlName
    <3> QED
      BY <1>2, <3>1 DEF PlanForPath, PlanForControl, Refreshed
  <2>3. CASE path.name = "refs/heads/*"
    <3> DEFINE read(c) == BranchDomains \cup IF c THEN {"Paths"} ELSE {}
    <3>1. "refs/heads/*" \notin PathNames \cup ModuleNames \cup QuietNames \cup HeadNames
               /\ LockKnown("refs/heads/*")
      BY DEF PathNames, IndexNames, ModuleNames, QuietNames, HeadNames, LockKnown
    <3>2. /\ PlanForPath(path) = DomainsPlan(read(IsCurrentBranchRef(path.owner)))
          /\ PlanForPath(path)' = DomainsPlan(read(IsCurrentBranchRef(path.owner)'))
      BY <1>2, <2>3, <3>1 DEF PlanForPath, PlanForControl, PlanForControlName
    <3>3. \A c \in BOOLEAN : read(c) \in SUBSET RefreshDomain
      BY AllDomains DEF BranchDomains
    <3>4. /\ Refreshed(PlanForPath(path)) = read(IsCurrentBranchRef(path.owner))
          /\ Refreshed(PlanForPath(path)') = read(IsCurrentBranchRef(path.owner)')
      BY <1>1, <3>2, <3>3 DEF IsCurrentBranchRef
    <3>5. CASE IsCurrentBranchRef(path.owner) => IsCurrentBranchRef(path.owner)'
      BY <3>4, <3>5
    <3>6. CASE "Paths" \in D
      BY <3>4, <3>6
    <3> QED
      BY <2>1, <2>3, <3>5, <3>6
  <2> QED
    BY <2>2, <2>3
<1>3. CASE path.place # "control"
  <2> DEFINE plan == PlanForPath(path)
             inside == path.name \in {".gitmodules", "*/.git/*"} \/ IsInsideSubmodule(path.owner)
             Named == {{"Paths"}, {"Identity", "Worktrees"}, {"Paths", "Submodules"}}
  <2>1. CASE path.place \in {"excludes", "outside"} \/ path.name \in {".gitignore", ".git"}
    <3>1. PlanForPath(path) = PlanForPath(path)'
      BY <1>3, <2>1 DEF PlanForPath
    <3> QED
      BY <3>1 DEF Refreshed
  <2>2. CASE ~(path.place \in {"excludes", "outside"} \/ path.name \in {".gitignore", ".git"})
    <3>1. /\ PlanForPath(path) = IF inside THEN DomainsPlan({"Paths", "Submodules"})
                                 ELSE IF path.owner \in ignored THEN NonePlan
                                 ELSE DomainsPlan({"Paths"})
          /\ PlanForPath(path)' = IF inside' THEN DomainsPlan({"Paths", "Submodules"})
                                  ELSE IF path.owner \in ignored' THEN NonePlan
                                  ELSE DomainsPlan({"Paths"})
      BY <1>3, <2>2 DEF PlanForPath
    <3>2. {"Paths", "Submodules"} \in SUBSET RefreshDomain /\ {"Paths"} \in SUBSET RefreshDomain
      BY AllDomains
    <3>3. (inside <=> inside') \/ registered' # registered
      BY DEF IsInsideSubmodule
    <3>4. Refreshed(PlanForPath(path)) \subseteq {"Paths", "Submodules"}
      BY <1>1, <3>1, <3>2, FixedPlanFacts
    <3>5. CASE registered' # registered
      BY <3>4, <3>5
    <3>6. CASE ignored' = ignored /\ (inside <=> inside')
      <4>1. PlanForPath(path) = PlanForPath(path)'
        BY <3>1, <3>6
      <4> QED
        BY <4>1 DEF Refreshed
    <3>7. CASE "Paths" \in D /\ (inside <=> inside')
      BY <1>1, <3>1, <3>2, <3>7, FixedPlanFacts
    <3> QED
      BY <3>3, <3>5, <3>6, <3>7
  <2> QED
    BY <2>1, <2>2
<1> QED
  BY <1>2, <1>3

LEMMA PathPlanAfter ==
  (\A path \in Path : PlanForPath(path) \in RefreshPlan)'
<1>1. \A path \in Path : PlanForPath(path) \in RefreshPlan
  BY PathFacts
<1> QED
  BY <1>1, PTL

LEMMA EventGrows ==
  ASSUME NEW event \in Event, NEW D,
         \A b \in Branch : IsCurrentBranchRef(b) => IsCurrentBranchRef(b)' \/ "Paths" \in D,
         ignored' # ignored => "Paths" \in D,
         registered' # registered => {"Paths", "Submodules"} \subseteq D
  PROVE  Refreshed(PlanForEvent(event)) \subseteq Refreshed(PlanForEvent(event)') \cup D
<1>1. event.paths \subseteq Path
  BY DEF Event
<1>2. CASE event.kind \in {"rescan", "error", "access"} \/ event.paths = {}
  <2>1. PlanForEvent(event)' = PlanForEvent(event)
    BY <1>2 DEF PlanForEvent
  <2> QED
    BY <2>1 DEF Refreshed
<1>3. CASE event.kind \notin {"rescan", "error", "access"} /\ event.paths # {}
  <2> DEFINE plans == {PlanForPath(path) : path \in event.paths}
             later == {PlanForPath(path)' : path \in event.paths}
  <2>1. PlanForEvent(event) = CombineAll(plans) /\ PlanForEvent(event)' = CombineAll(later)
    BY <1>3 DEF PlanForEvent, CombineAll
  <2>2. plans \in SUBSET RefreshPlan
    BY <1>1, PathFacts
  <2>3. later \in SUBSET RefreshPlan
    BY <1>1, PathPlanAfter
  <2>4. /\ Refreshed(CombineAll(plans)) = UNION {Refreshed(p) : p \in plans}
        /\ Refreshed(CombineAll(later)) = UNION {Refreshed(p) : p \in later}
    BY <2>2, <2>3, CombineAllRefreshes
  <2>5. \A path \in event.paths :
          Refreshed(PlanForPath(path)) \subseteq Refreshed(PlanForPath(path)') \cup D
    BY <1>1, PathGrows
  <2>6. SUFFICES ASSUME NEW d \in Refreshed(CombineAll(plans))
                 PROVE  d \in Refreshed(CombineAll(later)) \cup D
    BY <2>1
  <2>7. PICK path \in event.paths : d \in Refreshed(PlanForPath(path))
    BY <2>4, <2>6
  <2>8. d \in Refreshed(PlanForPath(path)') \/ d \in D
    BY <2>5, <2>7
  <2>9. PlanForPath(path)' \in later
    OBVIOUS
  <2> QED
    BY <2>4, <2>8, <2>9
<1> QED
  BY <1>2, <1>3

-----------------------------------------------------------------------------
(* The inductive invariant.  The head is never among the unseen sections,  *)
(* so that an upstream left stale for the sake of the head is owed with it.*)

Inv == TypeOK /\ EveryChangeIsOwed /\ "Head" \notin unseen /\ UpstreamFitsHead /\ RulesAreFollowed

Waits(e) == \E i \in DOMAIN events : events[i] = e

Owes(d) == \E e \in Event : Waits(e) /\ d \in Refreshed(PlanForEvent(e))

LEMMA OwedFacts ==
  TypeOK => (EveryChangeIsOwed <=> \A d \in stale : d \notin unseen => Owes(d))
<1> SUFFICES ASSUME TypeOK
             PROVE  EveryChangeIsOwed <=> \A d \in stale : d \notin unseen => Owes(d)
  OBVIOUS
<1>1. \A i \in DOMAIN events : events[i] \in Event
  BY DEF TypeOK
<1>2. \A d : Owes(d) <=> \E i \in DOMAIN events : d \in Refreshed(PlanForEvent(events[i]))
  BY <1>1 DEF Owes, Waits
<1> QED
  BY <1>2 DEF EveryChangeIsOwed

LEMMA OwedAfter ==
  (TypeOK => (EveryChangeIsOwed <=> \A d \in stale : d \notin unseen => Owes(d)))'
BY OwedFacts, PTL

(* A change keeps the invariant when its own event names what it alters,   *)
(* the hidden sections excepted, and what it takes from the plans of the   *)
(* events before it (D).                                                   *)
LEMMA AlterKeeps ==
  ASSUME Inv,
         NEW sections \in SUBSET RefreshDomain, NEW hidden, NEW paths \in SUBSET Path, NEW D,
         Alter(sections, hidden, paths), "Head" \notin hidden,
         /\ head' \in Branch \cup {Detached} /\ born' \subseteq Branch
         /\ ignored' \subseteq File /\ registered' \in BOOLEAN,
         rulesStale' \in BOOLEAN,
         rulesStale' => rulesStale \/ Reconciles(Mutation(paths)),
         \A b \in Branch : IsCurrentBranchRef(b) => IsCurrentBranchRef(b)' \/ "Paths" \in D,
         ignored' # ignored => "Paths" \in D,
         registered' # registered => {"Paths", "Submodules"} \subseteq D,
         (sections \ hidden) \cup D \subseteq unseen' \cup Refreshed(PlanForEvent(Mutation(paths))')
  PROVE  Inv'
<1> DEFINE event == Mutation(paths)
<1>1. /\ event \in Event /\ event.kind # "access"
      /\ events' = Append(events, event) /\ Len(events) < MaxPending
      /\ stale' = stale \cup sections /\ unseen' = unseen \cup (sections \cap hidden)
      /\ rulesLost' = rulesLost /\ paired' = paired
  BY MutationType, AlterFacts DEF Inv
<1>2. TypeOK'
  BY AlterFacts DEF Inv, TypeOK
<1>3. /\ \A i \in DOMAIN events : i \in DOMAIN events' /\ events'[i] = events[i]
      /\ \E i \in DOMAIN events' : events'[i] = event
  BY <1>1, AppendFacts DEF Inv
<1>4. EveryChangeIsOwed'
  <2> SUFFICES ASSUME NEW d \in stale', d \notin unseen'
               PROVE  Owes(d)'
    BY <1>2, OwedAfter
  <2>1. Waits(event)' /\ \A e \in Event : Waits(e) => Waits(e)'
    BY <1>3 DEF Waits
  <2>2. CASE d \in (sections \ hidden) \cup D
    <3>1. d \in Refreshed(PlanForEvent(event)')
      BY <2>2
    <3> QED
      BY <1>1, <2>1, <3>1 DEF Owes
  <2>3. CASE d \notin (sections \ hidden) \cup D
    <3>1. d \in stale /\ d \notin unseen
      BY <1>1, <2>3
    <3>2. PICK e \in Event : Waits(e) /\ d \in Refreshed(PlanForEvent(e))
      BY <3>1, OwedFacts DEF Inv, Owes
    <3>3. d \in Refreshed(PlanForEvent(e)') \/ d \in D
      BY <3>2, EventGrows
    <3> QED
      BY <2>1, <2>3, <3>2, <3>3 DEF Owes
  <2> QED
    BY <2>2, <2>3
<1>5. RulesAreFollowed'
  <2> SUFFICES ASSUME rulesStale', ~rulesLost'
               PROVE  \E i \in DOMAIN events' : Reconciles(events'[i])
    BY DEF RulesAreFollowed, Reconciles, MayChangeIgnoreRules
  <2>1. CASE Reconciles(event)
    BY <1>3, <2>1
  <2>2. CASE ~Reconciles(event)
    <3>1. PICK i \in DOMAIN events : Reconciles(events[i])
      BY <1>1, <2>2 DEF Inv, RulesAreFollowed
    <3> QED
      BY <1>3, <3>1
  <2> QED
    BY <2>1, <2>2
<1>6. "Head" \notin unseen' /\ UpstreamFitsHead'
  BY <1>1 DEF Inv, UpstreamFitsHead
<1> QED
  BY <1>2, <1>4, <1>5, <1>6 DEF Inv

-----------------------------------------------------------------------------
(* What the events of the changes name.                                    *)

NamedBy(paths) == Refreshed(PlanForEvent(Mutation(paths)))

EventsName ==
  /\ {"Head", "Upstream", "Branches", "Paths"} \subseteq NamedBy(Replace(Control("HEAD")))
  /\ \A b \in Branch :
       /\ {"Head", "Upstream", "Branches"} \subseteq NamedBy(Replace(BranchRef(b)))
       /\ head = b /\ b \in born => "Paths" \in NamedBy(Replace(BranchRef(b)))
  /\ \A name \in ControlName \ {"HEAD", "refs/heads/*"} :
       Readers(name) \ Hidden(name) \subseteq NamedBy(Replace(Control(name)))
  /\ \A path \in {Worktree(".gitignore"), Elsewhere("excludes")} : "Paths" \in NamedBy({path})
  /\ \A path \in {Worktree(".gitmodules"), Worktree("*/.git/*")} :
       {"Paths", "Submodules"} \subseteq NamedBy({path})
  /\ \A path \in {Worktree(".git")} : "Identity" \in NamedBy({path})
  /\ \A f \in File :
       /\ IsInsideSubmodule(f) => {"Paths", "Submodules"} \subseteq NamedBy({FileOf(f)})
       /\ f \notin ignored => "Paths" \in NamedBy({FileOf(f)})

LEMMA EventsNameTheirChanges == EventsName
<1>1. \A E \in SUBSET RefreshDomain : Refreshed(DomainsPlan(E)) = E
  BY DomainsPlanFacts
<1>2. \A paths \in SUBSET Path : \A path \in paths :
        Refreshed(PlanForPath(path)) \subseteq NamedBy(paths)
  BY EventReads DEF NamedBy
<1>3. ASSUME NEW path \in Path, LockOf(path) \in Path, path.place = "control", ~path.lock
      PROVE  Refreshed(PlanForControlName(path.name, path.owner)) \subseteq NamedBy(Replace(path))
  BY <1>2, <1>3, ControlRefreshes DEF Replace
<1>4. {"Head", "Upstream", "Branches", "Paths"} \subseteq NamedBy(Replace(Control("HEAD")))
  <2>1. "HEAD" \in ControlName \ {"refs/heads/*"}
    BY DEF ControlName, HeadNames
  <2>2. PlanForControlName("HEAD", NoOwner) = DomainsPlan(BranchDomains \cup {"Paths"})
    BY DEF PlanForControlName, PathNames, IndexNames, ModuleNames, QuietNames, HeadNames
  <2>3. BranchDomains \cup {"Paths"} \in SUBSET RefreshDomain
    BY AllDomains DEF BranchDomains
  <2>4. Refreshed(PlanForControlName("HEAD", NoOwner)) \subseteq NamedBy(Replace(Control("HEAD")))
    BY <1>3, <2>1, PathTypes DEF Control
  <2> QED
    BY <1>1, <2>2, <2>3, <2>4 DEF BranchDomains
<1>5. ASSUME NEW b \in Branch
      PROVE  /\ {"Head", "Upstream", "Branches"} \subseteq NamedBy(Replace(BranchRef(b)))
             /\ head = b /\ b \in born => "Paths" \in NamedBy(Replace(BranchRef(b)))
  <2> DEFINE named == BranchDomains \cup IF IsCurrentBranchRef(b) THEN {"Paths"} ELSE {}
  <2>1. PlanForControlName("refs/heads/*", b) = DomainsPlan(named)
    BY DEF PlanForControlName, PathNames, IndexNames, ModuleNames, QuietNames, HeadNames
  <2>2. named \in SUBSET RefreshDomain
    BY AllDomains DEF BranchDomains
  <2>3. Refreshed(PlanForControlName("refs/heads/*", b)) \subseteq NamedBy(Replace(BranchRef(b)))
    BY <1>3, PathTypes DEF BranchRef
  <2> QED
    BY <1>1, <2>1, <2>2, <2>3 DEF BranchDomains, IsCurrentBranchRef
<1>6. ASSUME NEW name \in ControlName \ {"HEAD", "refs/heads/*"}
      PROVE  Readers(name) \ Hidden(name) \subseteq NamedBy(Replace(Control(name)))
  <2>1. Refreshed(PlanForControlName(name, NoOwner)) \subseteq NamedBy(Replace(Control(name)))
    BY <1>3, PathTypes DEF Control
  <2> QED
    BY <2>1, RowCovers
<1>7. \A D \in {{"Paths"}, {"Paths", "Submodules"}, {"Identity", "Worktrees"}} :
        D \in SUBSET RefreshDomain
  BY AllDomains
<1>8. /\ \A path \in {Worktree(".gitignore"), Elsewhere("excludes")} : "Paths" \in NamedBy({path})
      /\ \A path \in {Worktree(".gitmodules"), Worktree("*/.git/*")} :
           {"Paths", "Submodules"} \subseteq NamedBy({path})
      /\ \A path \in {Worktree(".git")} : "Identity" \in NamedBy({path})
  <2>1. /\ \A path \in {Worktree(".gitignore"), Elsewhere("excludes")} :
             path \in Path /\ PlanForPath(path) = DomainsPlan({"Paths"})
        /\ \A path \in {Worktree(".gitmodules"), Worktree("*/.git/*")} :
             path \in Path /\ PlanForPath(path) = DomainsPlan({"Paths", "Submodules"})
        /\ Worktree(".git") \in Path
        /\ PlanForPath(Worktree(".git")) = DomainsPlan({"Identity", "Worktrees"})
    BY PathTypes DEF PlanForPath, Worktree, Elsewhere, WorktreeName
  <2> QED
    BY <1>1, <1>2, <1>7, <2>1
<1>9. ASSUME NEW f \in File
      PROVE  /\ IsInsideSubmodule(f) => {"Paths", "Submodules"} \subseteq NamedBy({FileOf(f)})
             /\ f \notin ignored => "Paths" \in NamedBy({FileOf(f)})
  <2>1. /\ FileOf(f) \in Path
        /\ PlanForPath(FileOf(f)) = IF IsInsideSubmodule(f) THEN DomainsPlan({"Paths", "Submodules"})
                                    ELSE IF f \in ignored THEN NonePlan
                                    ELSE DomainsPlan({"Paths"})
    BY PathTypes DEF PlanForPath, FileOf
  <2>2. Refreshed(PlanForPath(FileOf(f))) \subseteq NamedBy({FileOf(f)})
    BY <1>2, <2>1
  <2> QED
    BY <1>1, <1>7, <2>1, <2>2
<1> QED
  BY <1>4, <1>5, <1>6, <1>8, <1>9 DEF EventsName

LEMMA EventsNameAfter == EventsName'
BY EventsNameTheirChanges, PTL

-----------------------------------------------------------------------------
(* Every step keeps the invariant.                                         *)

LEMMA MoveHeadKeeps ==
  ASSUME Inv, NEW h \in Branch \cup {Detached}, NEW registeredNow \in BOOLEAN,
         MoveHead(h, registeredNow)
  PROVE  Inv'
<1> DEFINE sections == Readers("HEAD") \ IdentityIf(MayBeEmpty(h, born) # MayBeEmpty(head, born))
           hidden == {"Identity", "Submodules"}
           paths == Replace(Control("HEAD"))
           D == {"Paths", "Submodules"}
<1>1. /\ Alter(sections, hidden, paths)
      /\ head' = h /\ registered' = registeredNow /\ UNCHANGED <<born, ignored, rulesStale>>
  BY DEF MoveHead
<1>2. sections \in SUBSET RefreshDomain /\ "Head" \notin hidden
  BY DEF Readers
<1>3. paths \in SUBSET Path
  BY PathTypes DEF Replace, ControlName, HeadNames
<1>4. (sections \ hidden) \cup D \subseteq unseen' \cup Refreshed(PlanForEvent(Mutation(paths))')
  <2>1. {"Head", "Upstream", "Branches", "Paths"} \subseteq Refreshed(PlanForEvent(Mutation(paths))')
    BY EventsNameAfter DEF EventsName, NamedBy
  <2>2. "Submodules" \in unseen'
    BY <1>1, RefReaders DEF Alter, IdentityIf
  <2>3. sections \ hidden \subseteq {"Head", "Upstream", "Branches", "Paths"}
    BY RefReaders
  <2> QED
    BY <2>1, <2>2, <2>3
<1>5. /\ head' \in Branch \cup {Detached} /\ born' \subseteq Branch
      /\ ignored' \subseteq File /\ registered' \in BOOLEAN /\ rulesStale' \in BOOLEAN
      /\ rulesStale' => rulesStale
  BY <1>1 DEF Inv, TypeOK
<1>6. D = {"Paths", "Submodules"} /\ ignored' = ignored
  BY <1>1
<1> HIDE DEF sections, hidden, paths, D
<1> QED
  BY <1>1, <1>2, <1>3, <1>4, <1>5, <1>6, AlterKeeps

LEMMA ChangeBranchKeeps ==
  ASSUME Inv, NEW b \in Branch, NEW branches \in SUBSET Branch, NEW registeredNow \in BOOLEAN,
         ChangeBranch(b, branches, registeredNow)
  PROVE  Inv'
<1> DEFINE sections == Readers("refs/heads/*")
                         \ (IdentityIf(MayBeEmpty(head, branches) # MayBeEmpty(head, born))
                              \cup IF b = head THEN {} ELSE {"Head", "Paths", "Submodules"})
           hidden == {"Identity", "Submodules"} \cup IF b \in branches THEN {} ELSE {"Paths"}
           paths == Replace(BranchRef(b))
           D == IF b = head THEN {"Paths", "Submodules"} ELSE {}
<1>1. /\ Alter(sections, hidden, paths)
      /\ born' = branches /\ registered' = registeredNow /\ UNCHANGED <<head, ignored, rulesStale>>
      /\ branches \in {born \cup {b}, born \ {b}}
      /\ registeredNow # registered => b = head
  BY DEF ChangeBranch
<1>2. sections \in SUBSET RefreshDomain /\ "Head" \notin hidden
  BY DEF Readers
<1>3. paths \in SUBSET Path
  BY PathTypes DEF Replace
<1>4. (sections \ hidden) \cup D \subseteq unseen' \cup Refreshed(PlanForEvent(Mutation(paths))')
  <2>1. /\ {"Head", "Upstream", "Branches"} \subseteq Refreshed(PlanForEvent(Mutation(paths))')
        /\ head' = b /\ b \in born' => "Paths" \in Refreshed(PlanForEvent(Mutation(paths))')
    BY EventsNameAfter DEF EventsName, NamedBy
  <2>2. unseen' = unseen \cup (sections \cap hidden)
    BY <1>1 DEF Alter
  <2>3. CASE b = head
    <3>1. "Submodules" \in sections \cap hidden /\ (b \notin branches => "Paths" \in sections \cap hidden)
      BY <2>3, RefReaders DEF IdentityIf
    <3>2. b \in branches => "Paths" \in Refreshed(PlanForEvent(Mutation(paths))')
      BY <1>1, <2>1, <2>3
    <3>3. sections \ hidden \subseteq {"Head", "Upstream", "Branches", "Paths"}
      BY RefReaders
    <3>4. D = {"Paths", "Submodules"}
      BY <2>3
    <3> HIDE DEF sections, hidden, paths, D
    <3> QED
      BY <2>1, <2>2, <3>1, <3>2, <3>3, <3>4
  <2>4. CASE b # head
    <3>1. sections \ hidden \subseteq {"Upstream", "Branches"} /\ D = {}
      BY <2>4, RefReaders
    <3> HIDE DEF sections, hidden, paths, D
    <3> QED
      BY <2>1, <3>1
  <2> QED
    BY <2>3, <2>4
<1>5. /\ head' \in Branch \cup {Detached} /\ born' \subseteq Branch
      /\ ignored' \subseteq File /\ registered' \in BOOLEAN /\ rulesStale' \in BOOLEAN
      /\ rulesStale' => rulesStale
  BY <1>1 DEF Inv, TypeOK
<1>6. \A c \in Branch : IsCurrentBranchRef(c) => IsCurrentBranchRef(c)' \/ "Paths" \in D
  BY <1>1 DEF IsCurrentBranchRef
<1>7. ignored' = ignored /\ (registered' # registered => {"Paths", "Submodules"} \subseteq D)
  BY <1>1
<1> HIDE DEF sections, hidden, paths, D
<1> QED
  BY <1>1, <1>2, <1>3, <1>4, <1>5, <1>6, <1>7, AlterKeeps

(* Packed references: the sections that read the current branch are hidden,*)
(* and so is what the plans of older events lose with the branch.          *)
LEMMA ChangePackedKeeps ==
  ASSUME Inv, NEW branches \in SUBSET Branch, NEW registeredNow \in BOOLEAN,
         ChangePacked(branches, registeredNow)
  PROVE  Inv'
<1> DEFINE sections == Readers("packed-refs")
                         \ (IdentityIf(MayBeEmpty(head, branches) \/ MayBeEmpty(head, born))
                              \cup IF head \in Branch THEN {} ELSE {"Head", "Paths", "Submodules"})
           hidden == Hidden("packed-refs")
           paths == Replace(Control("packed-refs"))
           D == IF head \in Branch THEN {"Paths", "Submodules"} ELSE {}
<1>1. /\ Alter(sections, hidden, paths)
      /\ born' = branches /\ registered' = registeredNow /\ UNCHANGED <<head, ignored, rulesStale>>
      /\ registeredNow # registered => head \in Branch
  BY DEF ChangePacked
<1>2. sections \in SUBSET RefreshDomain /\ "Head" \notin hidden
  BY DEF Readers, Hidden, LayoutNames
<1>3. "packed-refs" \in ControlName \ {"HEAD", "refs/heads/*"}
  BY DEF ControlName, PackedNames
<1>4. paths \in SUBSET Path
  BY <1>3, PathTypes DEF Replace
<1>5. (sections \ hidden) \cup D \subseteq unseen' \cup Refreshed(PlanForEvent(Mutation(paths))')
  <2>1. Readers("packed-refs") \ hidden \subseteq Refreshed(PlanForEvent(Mutation(paths))')
    BY <1>3, EventsNameAfter DEF EventsName, NamedBy
  <2>2. unseen' = unseen \cup (sections \cap hidden)
    BY <1>1 DEF Alter
  <2>3. D \subseteq sections \cap hidden
    <3>1. {"Paths", "Submodules"} \subseteq hidden
      BY AllDomains DEF Hidden
    <3>2. head \in Branch => {"Paths", "Submodules"} \subseteq sections
      BY RefReaders DEF IdentityIf
    <3> QED
      BY <3>1, <3>2
  <2>4. sections \subseteq Readers("packed-refs")
    OBVIOUS
  <2> HIDE DEF sections, hidden, paths, D
  <2> QED
    BY <2>1, <2>2, <2>3, <2>4
<1>6. /\ head' \in Branch \cup {Detached} /\ born' \subseteq Branch
      /\ ignored' \subseteq File /\ registered' \in BOOLEAN /\ rulesStale' \in BOOLEAN
      /\ rulesStale' => rulesStale
  BY <1>1 DEF Inv, TypeOK
<1>7. \A c \in Branch : IsCurrentBranchRef(c) => IsCurrentBranchRef(c)' \/ "Paths" \in D
  BY DEF IsCurrentBranchRef
<1>8. ignored' = ignored /\ (registered' # registered => {"Paths", "Submodules"} \subseteq D)
  BY <1>1
<1> HIDE DEF sections, hidden, paths, D
<1> QED
  BY <1>1, <1>2, <1>4, <1>5, <1>6, <1>7, <1>8, AlterKeeps

LEMMA ChangeControlKeeps ==
  ASSUME Inv, NEW name \in Changing, NEW rules \in SUBSET File, NEW registeredNow \in BOOLEAN,
         ChangeControl(name, rules, registeredNow)
  PROVE  Inv'
<1> DEFINE sections == Readers(name)
                         \ IF name \in {"refs/remotes/*", "refs/tags/*", "refs/stash",
                                        "refs/bisect/*", "refs/*"}
                           THEN IdentityIf(MayBeEmpty(head, born)) ELSE {}
           hidden == Hidden(name)
           paths == Replace(Control(name))
           ruleFiles == {"info/exclude", "config", "config.worktree"}
           moduleFiles == {"index", "config", "config.worktree"}
           D == IF name \in moduleFiles THEN {"Paths", "Submodules"}
                ELSE IF name \in ruleFiles THEN {"Paths"} ELSE {}
<1>1. /\ Alter(sections, hidden, paths)
      /\ ignored' = rules /\ registered' = registeredNow /\ UNCHANGED <<head, born>>
      /\ rulesStale' = (rulesStale \/ rules # ignored)
      /\ rules # ignored => name \in ruleFiles
      /\ registeredNow # registered => name \in moduleFiles
      /\ name \in ControlName \ {"HEAD", "refs/heads/*"}
      /\ name \notin LayoutNames
  BY ChangingAssumption DEF ChangeControl
<1>2. sections \in SUBSET RefreshDomain /\ "Head" \notin hidden
  BY <1>1 DEF Readers, Hidden
<1>3. paths \in SUBSET Path
  BY <1>1, PathTypes DEF Replace
<1>4. (sections \ hidden) \cup D \subseteq unseen' \cup Refreshed(PlanForEvent(Mutation(paths))')
  <2>1. Readers(name) \ hidden \subseteq Refreshed(PlanForEvent(Mutation(paths))')
    BY <1>1, EventsNameAfter DEF EventsName, NamedBy
  <2>2. unseen' = unseen \cup (sections \cap hidden)
    BY <1>1 DEF Alter
  <2>3. sections \subseteq Readers(name)
    OBVIOUS
  <2>4. CASE name \in ruleFiles \cup moduleFiles
    <3>1. "Paths" \in Readers(name) \ hidden
      BY <1>1, <2>4, AllDomains DEF Readers, Reads, PathsReads, IndexNames, Hidden
    <3>2. name \in moduleFiles => "Submodules" \in sections \cap hidden
      BY AllDomains DEF Readers, Reads, SubmodulesReads, IndexNames, Hidden
    <3> HIDE DEF sections, hidden
    <3> QED
      BY <2>1, <2>2, <2>3, <3>1, <3>2
  <2>5. CASE name \notin ruleFiles \cup moduleFiles
    BY <2>1, <2>5, <2>3
  <2> QED
    BY <2>4, <2>5
<1>5. /\ head' \in Branch \cup {Detached} /\ born' \subseteq Branch
      /\ ignored' \subseteq File /\ registered' \in BOOLEAN /\ rulesStale' \in BOOLEAN
  BY <1>1 DEF Inv, TypeOK
<1>6. rulesStale' => rulesStale \/ Reconciles(Mutation(paths))
  <2>1. /\ Control(name) \in paths /\ Control(name).place = "control"
        /\ ~Control(name).lock /\ Control(name).name = name
    BY DEF Replace, Control
  <2>2. name \in ruleFiles => Reconciles(Mutation(paths))
    BY <2>1 DEF Reconciles, MayChangeIgnoreRules, Mutation
  <2> QED
    BY <1>1, <2>2
<1>7. /\ \A c \in Branch : IsCurrentBranchRef(c) => IsCurrentBranchRef(c)'
      /\ ignored' # ignored => "Paths" \in D
      /\ registered' # registered => {"Paths", "Submodules"} \subseteq D
  BY <1>1 DEF IsCurrentBranchRef
<1> HIDE DEF sections, hidden, paths, D
<1> QED
  BY <1>1, <1>2, <1>3, <1>4, <1>5, <1>6, <1>7, AlterKeeps

LEMMA ChangeRulesKeeps ==
  ASSUME Inv, NEW path \in {Worktree(".gitignore"), Elsewhere("excludes")},
         NEW rules \in SUBSET File, ChangeRules(path, rules)
  PROVE  Inv'
<1> DEFINE sections == {"Paths"} \cup IF registered THEN {"Submodules"} ELSE {}
<1>1. /\ Alter(sections, {"Submodules"}, {path})
      /\ ignored' = rules /\ UNCHANGED <<head, born, registered>>
      /\ rulesStale' = (rulesStale \/ rules # ignored)
  BY DEF ChangeRules
<1>2. sections \in SUBSET RefreshDomain /\ {path} \in SUBSET Path
  BY AllDomains, PathTypes DEF WorktreeName
<1>3. (sections \ {"Submodules"}) \cup {"Paths"} \subseteq Refreshed(PlanForEvent(Mutation({path}))')
  BY EventsNameAfter DEF EventsName, NamedBy
<1>4. /\ head' \in Branch \cup {Detached} /\ born' \subseteq Branch
      /\ ignored' \subseteq File /\ registered' \in BOOLEAN /\ rulesStale' \in BOOLEAN
      /\ \A b \in Branch : IsCurrentBranchRef(b) => IsCurrentBranchRef(b)'
      /\ registered' = registered
  BY <1>1 DEF Inv, TypeOK, IsCurrentBranchRef
<1>5. Reconciles(Mutation({path}))
  BY DEF Reconciles, MayChangeIgnoreRules, Mutation, Worktree, Elsewhere
<1> HIDE DEF sections
<1> QED
  BY <1>1, <1>2, <1>3, <1>4, <1>5, AlterKeeps

LEMMA ChangeSubmodulesKeeps ==
  ASSUME Inv, NEW path \in {Worktree(".gitmodules"), Worktree("*/.git/*")},
         NEW registeredNow \in BOOLEAN, ChangeSubmodules(path, registeredNow)
  PROVE  Inv'
<1> DEFINE both == {"Paths", "Submodules"}
<1>1. /\ Alter(both, {}, {path})
      /\ registered' = registeredNow /\ UNCHANGED <<head, born, ignored, rulesStale>>
  BY DEF ChangeSubmodules
<1>2. both \in SUBSET RefreshDomain /\ {path} \in SUBSET Path
  BY AllDomains, PathTypes DEF WorktreeName
<1>3. (both \ {}) \cup both \subseteq Refreshed(PlanForEvent(Mutation({path}))')
  BY EventsNameAfter DEF EventsName, NamedBy
<1>4. /\ head' \in Branch \cup {Detached} /\ born' \subseteq Branch
      /\ ignored' \subseteq File /\ registered' \in BOOLEAN /\ rulesStale' \in BOOLEAN
      /\ \A b \in Branch : IsCurrentBranchRef(b) => IsCurrentBranchRef(b)'
      /\ ignored' = ignored /\ (rulesStale' => rulesStale)
  BY <1>1 DEF Inv, TypeOK, IsCurrentBranchRef
<1> QED
  BY <1>1, <1>2, <1>3, <1>4, AlterKeeps

LEMMA ChangeOtherKeeps ==
  ASSUME Inv, NEW path \in {Worktree(".git"), Elsewhere("outside")}, ChangeOther(path)
  PROVE  Inv'
<1> DEFINE sections == IF path.name = ".git" THEN {"Identity"} ELSE {}
<1>1. Alter(sections, {}, {path}) /\ UNCHANGED <<repositoryVars, rulesStale>>
  BY DEF ChangeOther
<1>2. sections \in SUBSET RefreshDomain /\ {path} \in SUBSET Path
  BY AllDomains, PathTypes DEF WorktreeName
<1>3. (sections \ {}) \cup {} \subseteq Refreshed(PlanForEvent(Mutation({path}))')
  <2>1. path \in {Worktree(".git")} \/ sections = {}
    BY DEF Elsewhere
  <2>2. \A p \in {Worktree(".git")} : "Identity" \in Refreshed(PlanForEvent(Mutation({p}))')
    BY EventsNameAfter DEF EventsName, NamedBy
  <2> QED
    BY <2>1, <2>2
<1>4. /\ head' \in Branch \cup {Detached} /\ born' \subseteq Branch
      /\ ignored' \subseteq File /\ registered' \in BOOLEAN /\ rulesStale' \in BOOLEAN
      /\ \A b \in Branch : IsCurrentBranchRef(b) => IsCurrentBranchRef(b)'
      /\ ignored' = ignored /\ registered' = registered /\ (rulesStale' => rulesStale)
  BY <1>1 DEF Inv, TypeOK, IsCurrentBranchRef, repositoryVars
<1> HIDE DEF sections
<1> QED
  BY <1>1, <1>2, <1>3, <1>4, AlterKeeps

LEMMA ChangeFileKeeps ==
  ASSUME Inv, NEW f \in File, ChangeFile(f)
  PROVE  Inv'
<1> DEFINE sections == IF IsInsideSubmodule(f) THEN {"Paths", "Submodules"}
                       ELSE IF f \in ignored \ Tracked THEN {} ELSE {"Paths"}
           hidden == IF f \in ignored /\ ~IsInsideSubmodule(f) THEN {"Paths"} ELSE {}
<1>1. Alter(sections, hidden, {FileOf(f)}) /\ UNCHANGED <<repositoryVars, rulesStale>>
  BY DEF ChangeFile
<1>2. /\ sections \in SUBSET RefreshDomain /\ {FileOf(f)} \in SUBSET Path
      /\ "Head" \notin hidden
  BY AllDomains, PathTypes
<1>3. (sections \ hidden) \cup {} \subseteq Refreshed(PlanForEvent(Mutation({FileOf(f)}))')
  <2>1. /\ IsInsideSubmodule(f)' =>
             {"Paths", "Submodules"} \subseteq Refreshed(PlanForEvent(Mutation({FileOf(f)}))')
        /\ f \notin ignored' => "Paths" \in Refreshed(PlanForEvent(Mutation({FileOf(f)}))')
    BY EventsNameAfter DEF EventsName, NamedBy
  <2>2. (IsInsideSubmodule(f)' <=> IsInsideSubmodule(f)) /\ ignored' = ignored
    BY <1>1 DEF IsInsideSubmodule, repositoryVars
  <2> QED
    BY <2>1, <2>2
<1>4. /\ head' \in Branch \cup {Detached} /\ born' \subseteq Branch
      /\ ignored' \subseteq File /\ registered' \in BOOLEAN /\ rulesStale' \in BOOLEAN
      /\ \A b \in Branch : IsCurrentBranchRef(b) => IsCurrentBranchRef(b)'
      /\ ignored' = ignored /\ registered' = registered /\ (rulesStale' => rulesStale)
  BY <1>1 DEF Inv, TypeOK, IsCurrentBranchRef, repositoryVars
<1> HIDE DEF sections, hidden
<1> QED
  BY <1>1, <1>2, <1>3, <1>4, AlterKeeps

(* After a loss the one event that tells of it makes everything fresh.     *)
LEMMA LoseEventsKeeps ==
  ASSUME Inv, NEW kind \in {"rescan", "error"},
         NEW h \in Branch \cup {Detached}, NEW branches \in SUBSET Branch,
         NEW rules \in SUBSET File, NEW registeredNow \in BOOLEAN,
         LoseEvents(kind, h, branches, rules, registeredNow)
  PROVE  Inv'
<1> DEFINE event == [kind |-> kind, paths |-> {}]
<1>1. /\ event \in Event /\ event.kind # "access" /\ event.kind = kind
      /\ events' = Append(events, event) /\ Len(events) < MaxPending
      /\ head' = h /\ born' = branches /\ ignored' = rules /\ registered' = registeredNow
      /\ stale' = RefreshDomain
      /\ rulesStale' = (rulesStale \/ rules # ignored)
      /\ rulesLost' = (rulesLost \/ (kind = "error" /\ rules # ignored))
      /\ UNCHANGED <<unseen, paired>>
  BY LossType DEF LoseEvents, Notify
<1>2. /\ events' \in Seq(Event) /\ Len(events') <= MaxPending
      /\ \A i \in DOMAIN events' : events'[i].kind # "access"
      /\ \A i \in DOMAIN events : i \in DOMAIN events' /\ events'[i] = events[i]
      /\ \E i \in DOMAIN events' : events'[i] = event
  BY <1>1, AppendFacts DEF Inv
<1>3. TypeOK'
  BY <1>1, <1>2 DEF Inv, TypeOK
<1>4. EveryChangeIsOwed'
  <2>1. PlanForEvent(event)' = FullPlan /\ Refreshed(FullPlan) = RefreshDomain
    BY FixedPlanFacts DEF PlanForEvent
  <2>2. Waits(event)'
    BY <1>2 DEF Waits
  <2> SUFFICES ASSUME NEW d \in stale'
               PROVE  Owes(d)'
    BY <1>3, OwedAfter
  <2> HIDE DEF event
  <2> QED
    BY <1>1, <2>1, <2>2 DEF Owes
<1>5. RulesAreFollowed'
  <2> SUFFICES ASSUME rulesStale', ~rulesLost'
               PROVE  \E i \in DOMAIN events' : Reconciles(events'[i])
    BY DEF RulesAreFollowed, Reconciles, MayChangeIgnoreRules
  <2>1. CASE rules # ignored
    <3>1. Reconciles(event)
      BY <1>1, <2>1 DEF Reconciles
    <3> QED
      BY <1>2, <3>1
  <2>2. CASE rules = ignored
    <3>1. PICK i \in DOMAIN events : Reconciles(events[i])
      BY <1>1, <2>2 DEF Inv, RulesAreFollowed
    <3> QED
      BY <1>2, <3>1
  <2> QED
    BY <2>1, <2>2
<1>6. "Head" \notin unseen' /\ UpstreamFitsHead'
  BY <1>1 DEF Inv, UpstreamFitsHead
<1> QED
  BY <1>3, <1>4, <1>5, <1>6 DEF Inv

(* Plans depend on the repository only.                                    *)
LEMMA PlansStay ==
  ASSUME UNCHANGED repositoryVars, NEW e \in Event
  PROVE  PlanForEvent(e)' = PlanForEvent(e)
BY DEF repositoryVars, PlanForEvent, CombineAll, PlanForPath, PlanForControl,
       PlanForControlName, IsCurrentBranchRef, IsInsideSubmodule

(* Handling an event reads what its plan names; the rest is owed by the    *)
(* others, and with a stale head its upstream.                             *)
LEMMA HandleKeeps ==
  ASSUME Inv, NEW done \in BOOLEAN, Handle(done)
  PROVE  Inv'
<1> DEFINE first == Head(events)
           read == Refreshed(PlanForEvent(first))
           kept == IF "Head" \in stale \ read THEN {"Upstream"} ELSE {}
<1>1. /\ events # <<>> /\ events' = Tail(events)
      /\ stale' = stale \ (read \ kept) /\ unseen' = unseen \cap stale'
      /\ paired' = IF "Upstream" \in read THEN TRUE ELSE paired /\ ~("Head" \in read \cap stale)
      /\ rulesStale' = (rulesStale /\ ~done)
      /\ rulesLost' = (rulesStale' /\ (rulesLost \/ Reconciles(first)))
      /\ UNCHANGED repositoryVars
  BY HandleFacts DEF Inv
<1>2. /\ first \in Event
      /\ events' \in Seq(Event) /\ Len(events') <= MaxPending
      /\ \A i \in DOMAIN events' : events'[i].kind # "access"
      /\ \A i \in DOMAIN events :
           events[i] = first \/ \E j \in DOMAIN events' : events'[j] = events[i]
  BY <1>1, TailFacts DEF Inv
<1>3. \A e \in Event : "Head" \in Refreshed(PlanForEvent(e)) => "Upstream" \in Refreshed(PlanForEvent(e))
  BY ClassifierKeepsPair
<1>4. "Head" \in read => "Upstream" \in read
  BY <1>2, <1>3
<1> HIDE DEF first, read, kept
<1>5. UpstreamFitsHead' /\ "Head" \notin unseen'
  BY <1>1, <1>4 DEF Inv, UpstreamFitsHead
<1>6. TypeOK'
  <2>1. paired' \in BOOLEAN
    BY <1>5 DEF UpstreamFitsHead
  <2>2. rulesStale' \in BOOLEAN /\ rulesLost' \in BOOLEAN
    BY <1>1, Zenon
  <2>3. stale' \subseteq RefreshDomain /\ unseen' \subseteq RefreshDomain
    BY <1>1 DEF Inv, TypeOK
  <2>4. /\ head' \in Branch \cup {Detached} /\ born' \subseteq Branch
        /\ ignored' \subseteq File /\ registered' \in BOOLEAN
    BY <1>1 DEF Inv, TypeOK, repositoryVars
  <2> QED
    BY <1>2, <2>1, <2>2, <2>3, <2>4 DEF TypeOK
<1>7. EveryChangeIsOwed'
  <2>1. \A e \in Event : Waits(e) => e = first \/ Waits(e)'
    BY <1>2 DEF Waits
  <2>2. \A e \in Event : PlanForEvent(e)' = PlanForEvent(e)
    BY <1>1, PlansStay
  <2> SUFFICES ASSUME NEW d \in stale', d \notin unseen'
               PROVE  Owes(d)'
    BY <1>6, OwedAfter
  <2>3. d \in stale /\ d \notin unseen
    BY <1>1
  <2>4. CASE d \notin read
    <3>1. PICK e \in Event : Waits(e) /\ d \in Refreshed(PlanForEvent(e))
      BY <2>3, OwedFacts DEF Inv, Owes
    <3>2. e # first
      BY <2>4, <3>1 DEF read
    <3> QED
      BY <2>1, <2>2, <3>1, <3>2 DEF Owes
  <2>5. CASE d \in read
    <3>1. d = "Upstream" /\ "Head" \in stale /\ "Head" \notin read
      BY <1>1, <2>5 DEF kept
    <3>2. PICK e \in Event : Waits(e) /\ "Head" \in Refreshed(PlanForEvent(e))
      BY <3>1, OwedFacts DEF Inv, Owes
    <3>3. e # first
      BY <3>1, <3>2 DEF read
    <3>4. "Upstream" \in Refreshed(PlanForEvent(e))
      BY <1>3, <3>2
    <3> QED
      BY <2>1, <2>2, <3>1, <3>2, <3>3, <3>4 DEF Owes
  <2> QED
    BY <2>4, <2>5
<1>8. RulesAreFollowed'
  <2> SUFFICES ASSUME rulesStale', ~rulesLost'
               PROVE  \E i \in DOMAIN events' : Reconciles(events'[i])
    BY DEF RulesAreFollowed, Reconciles, MayChangeIgnoreRules
  <2>1. rulesStale /\ ~rulesLost /\ ~Reconciles(first)
    BY <1>1 DEF Inv, TypeOK
  <2>2. PICK i \in DOMAIN events : Reconciles(events[i])
    BY <2>1 DEF Inv, RulesAreFollowed
  <2> QED
    BY <1>2, <2>1, <2>2
<1> QED
  BY <1>5, <1>6, <1>7, <1>8 DEF Inv

LEMMA InitInv == Init => Inv
<1> SUFFICES ASSUME Init
             PROVE  Inv
  OBVIOUS
<1>1. TypeOK
  <2>1. /\ head \in Branch \cup {Detached} /\ born \subseteq Branch
        /\ ignored \subseteq File /\ registered \in BOOLEAN
        /\ stale \subseteq RefreshDomain /\ unseen \subseteq RefreshDomain
        /\ rulesStale \in BOOLEAN /\ rulesLost \in BOOLEAN /\ paired \in BOOLEAN
    BY DEF Init
  <2>2. events \in Seq(Event) /\ Len(events) = 0 /\ DOMAIN events = {}
    BY DEF Init
  <2>3. Len(events) <= MaxPending
    BY <2>2, FileAssumption
  <2> QED
    BY <2>1, <2>2, <2>3 DEF TypeOK
<1>2. EveryChangeIsOwed /\ "Head" \notin unseen /\ UpstreamFitsHead /\ RulesAreFollowed
  BY DEF Init, EveryChangeIsOwed, UpstreamFitsHead, RulesAreFollowed
<1> QED
  BY <1>1, <1>2 DEF Inv

LEMMA StutterInv ==
  ASSUME Inv, UNCHANGED vars
  PROVE  Inv'
<1>1. TypeOK'
  BY DEF Inv, TypeOK, vars, repositoryVars
<1>2. EveryChangeIsOwed'
  <2>1. UNCHANGED repositoryVars /\ \A e \in Event : Waits(e) => Waits(e)'
    BY DEF vars, Waits
  <2> SUFFICES ASSUME NEW d \in stale', d \notin unseen'
               PROVE  Owes(d)'
    BY <1>1, OwedAfter
  <2>2. Owes(d)
    BY OwedFacts DEF Inv, vars
  <2> QED
    BY <2>1, <2>2, PlansStay DEF Owes
<1>3. RulesAreFollowed'
  BY DEF Inv, RulesAreFollowed, Reconciles, MayChangeIgnoreRules, vars
<1> QED
  BY <1>1, <1>2, <1>3 DEF Inv, UpstreamFitsHead, vars

(* What is opened or read is no mutation, and never reaches the queue.     *)
LEMMA OpenFileStutters ==
  ASSUME NEW path, OpenFile(path)
  PROVE  UNCHANGED vars
BY DEF OpenFile, Notify, ShouldRefreshForEvent, vars

LEMMA NextInv == Inv /\ [Next]_vars => Inv'
<1> SUFFICES ASSUME Inv, [Next]_vars
             PROVE  Inv'
  OBVIOUS
<1>1. CASE ChangeRefs
  BY <1>1, MoveHeadKeeps, ChangeBranchKeeps, ChangePackedKeeps DEF ChangeRefs
<1>2. CASE ChangeControlFiles
  BY <1>2, ChangeControlKeeps DEF ChangeControlFiles
<1>3. CASE ChangeWorktree
  BY <1>3, ChangeRulesKeeps, ChangeSubmodulesKeeps, ChangeOtherKeeps, ChangeFileKeeps
     DEF ChangeWorktree
<1>4. CASE LoseAnyEvents
  BY <1>4, LoseEventsKeeps DEF LoseAnyEvents
<1>5. CASE \E done \in BOOLEAN : Handle(done)
  BY <1>5, HandleKeeps
<1>6. CASE OpenFile(Control("HEAD")) \/ UNCHANGED vars
  BY <1>6, OpenFileStutters, StutterInv
<1> QED
  BY <1>1, <1>2, <1>3, <1>4, <1>5, <1>6 DEF Next

LEMMA InvCorrect == Spec => []Inv
BY InitInv, NextInv, PTL DEF Spec

-----------------------------------------------------------------------------
(* The theorems.                                                           *)

(* Every variable keeps its type.                                          *)
THEOREM TypeCorrect == Spec => []TypeOK
<1>1. Inv => TypeOK
  BY DEF Inv
<1> QED
  BY <1>1, InvCorrect, PTL

(* Whatever changes, however long its event waits and whatever changes     *)
(* meanwhile: an event still waits whose plan, made when it is taken, names*)
(* the section, the exceptions apart that the actions hide.                *)
THEOREM EveryChangeIsOwedCorrect == Spec => []EveryChangeIsOwed
<1>1. Inv => EveryChangeIsOwed
  BY DEF Inv
<1> QED
  BY <1>1, InvCorrect, PTL

(* No sequence of plans puts an upstream into a snapshot with a head it    *)
(* was not read for.                                                       *)
THEOREM UpstreamFitsHeadCorrect == Spec => []UpstreamFitsHead
<1>1. Inv => UpstreamFitsHead
  BY DEF Inv
<1> QED
  BY <1>1, InvCorrect, PTL

(* The watch set is listed again after every change of the ignore rules,   *)
(* unless an error swallowed its event or the listing failed.              *)
THEOREM RulesAreFollowedCorrect == Spec => []RulesAreFollowed
<1>1. Inv => RulesAreFollowed
  BY DEF Inv
<1> QED
  BY <1>1, InvCorrect, PTL

=============================================================================
