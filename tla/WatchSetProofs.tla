--------------------------- MODULE WatchSetProofs ---------------------------
(***************************************************************************)
(* The watch set covers the relevant tree up to the losses it records,     *)
(* leaks no watch and drops ignored directories: for every tree, every     *)
(* capacity of the channel and every interleaving.                         *)
(***************************************************************************)
EXTENDS WatchSet, FiniteSetTheorems, TLAPS

-----------------------------------------------------------------------------
(* The inductive invariant.                                                *)

(* Where the process is decides on what it has listed.                     *)
ListingInv ==
  /\ loop = "unstarted" => kernel = {}
  /\ loop \notin {"unstarted", "starting"} => Root \in kernel
  /\ loop = "starting" => Root \in pending \cup kernel
  /\ loop \in {"unstarted", "idle", "list", "reconcile"} => pending = {}
  /\ loop \in {"list", "listed"} => origin \notin kernel
  /\ loop = "listed" => pending \subseteq Below(origin)
  /\ loop = "replace" => {Root, Excludes} \subseteq pending
  /\ loop \in {"starting", "register"} => pending # {}

(* What is listed is not ignored, and the watches that a reconciliation is *)
(* about to remove are not relevant, unless the rules have changed since.  *)
ListedFitsRules ==
  /\ \A d \in pending \cap Dir : IsIgnored(d) => RelistingAwaited \/ rulesLost
  /\ loop = "replace" =>
       \A d \in Relevant \cap kernel : d \in pending \/ RelistingAwaited \/ rulesLost

(* A directory above d, or d, is neither watched nor listed, and an event, *)
(* a listing or a loss accounts for that.                                  *)
AccountedFor(d) ==
  \E e \in AtOrAbove(d) :
    /\ e \notin kernel \cup pending
    /\ Awaits(Created(e)) \/ e \in lost \/ (loop = "list" /\ origin = e)

CoveredBy(d) ==
  d \in kernel \cup pending \cup lost \/ RelistingDue \/ rulesLost \/ AccountedFor(d)

IInv ==
  /\ TypeOK /\ NoLeakedWatch /\ IgnoredAreOmitted
  /\ ListingInv /\ ListedFitsRules
  /\ \A d \in Relevant : CoveredBy(d)

-----------------------------------------------------------------------------
(* The tree.                                                               *)

LEMMA TreeFacts ==
  /\ Root \in Dir /\ AtOrAbove(Root) = {Root} /\ Excludes \notin Dir
  /\ \A d \in Dir :
       /\ d \in AtOrAbove(d) /\ Root \in AtOrAbove(d) /\ AtOrAbove(d) \subseteq Dir
       /\ \A e \in AtOrAbove(d) : AtOrAbove(e) \subseteq AtOrAbove(d)
       /\ Parent[d] \in Dir
       /\ d # Root => AtOrAbove(d) = {d} \cup AtOrAbove(Parent[d])
BY TreeAssumption DEF AtOrAbove

LEMMA BelowFacts ==
  ASSUME NEW d \in Dir
  PROVE  /\ Below(d) \subseteq Dir /\ d \in Below(d)
         /\ \A e \in Dir : e \in Below(d) <=> d \in AtOrAbove(e)
BY TreeFacts DEF Below

(* A listing holds what is relevant below its origin, and nothing ignored. *)
LEMMA ListedFacts ==
  ASSUME TypeOK, NEW o \in Dir
  PROVE  /\ ListedFrom(o) \subseteq Below(o)
         /\ ListedFrom(o) \subseteq exists \cup {o}
         /\ \A d \in ListedFrom(o) : ~IsIgnored(d)
         /\ \A d \in Relevant : o \in AtOrAbove(d) => d \in ListedFrom(o)
<1>1. Root \notin ignored /\ ~IsIgnored(Root)
  BY TreeFacts DEF TypeOK, IsIgnored
<1>2. ListedFrom(o) \subseteq Below(o) /\ ListedFrom(o) \subseteq exists \cup {o}
  BY BelowFacts DEF ListedFrom
<1>3. ASSUME NEW d \in ListedFrom(o)
      PROVE  ~IsIgnored(d)
  BY <1>1, <1>3 DEF ListedFrom
<1>4. ASSUME NEW d \in Relevant, o \in AtOrAbove(d)
      PROVE  d \in ListedFrom(o)
  <2>1. d \in exists /\ d \in Dir /\ ~IsIgnored(d) /\ Above[d] \cap NestedRepo = {}
    BY <1>4 DEF Relevant, TypeOK
  <2>2. d \in Below(o)
    BY <1>4, <2>1, BelowFacts
  <2>3. ~IsIgnored(o)
    BY <1>4, <2>1, TreeFacts DEF IsIgnored
  <2> QED
    BY <2>1, <2>2, <2>3 DEF ListedFrom
<1> QED
  BY <1>2, <1>3, <1>4

(* What a snapshot would have watched is the relevant tree and no more.    *)
LEMMA TargetsFacts ==
  ASSUME TypeOK
  PROVE  /\ Targets \subseteq exists \cup {Excludes} /\ Targets \subseteq Target
         /\ {Root, Excludes} \subseteq Targets /\ Relevant \subseteq Targets
         /\ \A d \in Targets \cap Dir : ~IsIgnored(d)
<1>1. Root \in Relevant
  BY TreeFacts, TreeAssumption DEF TypeOK, Relevant, IsIgnored
<1>2. /\ ListedFrom(Root) \subseteq exists
      /\ \A d \in ListedFrom(Root) : ~IsIgnored(d)
      /\ Relevant \subseteq ListedFrom(Root)
  BY ListedFacts, TreeFacts DEF TypeOK, Relevant
<1> QED
  BY <1>1, <1>2, TreeFacts DEF Targets, TypeOK, Target

LEMMA RelevantFacts ==
  TypeOK => Relevant \subseteq exists /\ exists \subseteq Dir
BY DEF TypeOK, Relevant

-----------------------------------------------------------------------------
(* The queue.                                                              *)

LEMMA EventTypes ==
  /\ \A d \in Dir : Created(d) \in Event /\ Removed(d) \in Event
  /\ Rules \in Event /\ Rescan \in Event
<1>1. \A d \in Dir : Created(d) \in [kind : {"create", "remove"}, dir : Dir]
                   /\ Removed(d) \in [kind : {"create", "remove"}, dir : Dir]
  BY DEF Created, Removed
<1>2. /\ Rules \in [kind : {"rules", "rescan"}, dir : {Root}]
      /\ Rescan \in [kind : {"rules", "rescan"}, dir : {Root}]
  BY DEF Rules, Rescan
<1> QED
  BY <1>1, <1>2 DEF Event

(* The queue keeps its type and what it holds, and takes a reported event  *)
(* or a rescan while it has room.                                          *)
LEMMA ReportFacts ==
  ASSUME TypeOK, NEW event \in Event, Report(event)
  PROVE  /\ queue' \in Seq(Event) /\ Len(queue') <= MaxQueue /\ overflowed' \in BOOLEAN
         /\ \A e : Awaits(e) => Awaits(e)'
         /\ ~Dropped => Awaits(event)' \/ Awaits(Rescan)'
<1>1. PICK e \in {event, Rescan} : Enqueue(e)
  BY DEF Report
<1>2. /\ e \in Event /\ queue \in Seq(Event) /\ Len(queue) \in Nat /\ MaxQueue \in Nat
      /\ Len(queue) <= MaxQueue /\ overflowed \in BOOLEAN
      /\ DOMAIN queue = 1..Len(queue)
  BY EventTypes, BoundAssumption DEF TypeOK
<1>3. CASE Dropped
  <2>1. UNCHANGED queue /\ overflowed' = TRUE
    BY <1>1, <1>2, <1>3 DEF Enqueue, Dropped
  <2> QED
    BY <1>2, <1>3, <2>1 DEF Awaits
<1>4. CASE ~Dropped
  <2>1. queue' = Append(queue, e) /\ overflowed' = overflowed
    BY <1>1, <1>2, <1>4 DEF Enqueue, Dropped
  <2>2. /\ queue' \in Seq(Event) /\ Len(queue') = Len(queue) + 1
        /\ DOMAIN queue' = 1..(Len(queue) + 1)
        /\ queue'[Len(queue) + 1] = e
        /\ \A i \in 1..Len(queue) : queue'[i] = queue[i]
    BY <1>2, <2>1
  <2>3. Len(queue') <= MaxQueue
    BY <1>2, <1>4, <2>2 DEF Dropped
  <2>4. \A i \in DOMAIN queue : i \in DOMAIN queue' /\ queue'[i] = queue[i]
    BY <1>2, <2>2
  <2>5. Len(queue) + 1 \in DOMAIN queue'
    BY <1>2, <2>2
  <2>6. Awaits(e)'
    BY <2>2, <2>5 DEF Awaits
  <2>7. \A f : Awaits(f) => Awaits(f)'
    BY <2>4 DEF Awaits
  <2> QED
    BY <1>1, <1>2, <2>1, <2>2, <2>3, <2>6, <2>7
<1> QED
  BY <1>3, <1>4

LEMMA TailFacts ==
  ASSUME TypeOK, queue # <<>>, queue' = Tail(queue)
  PROVE  /\ queue' \in Seq(Event) /\ Len(queue') <= MaxQueue
         /\ Head(queue) \in Event
         /\ \A e : Awaits(e) => e = Head(queue) \/ Awaits(e)'
<1>1. /\ queue \in Seq(Event) /\ Head(queue) = queue[1] /\ Head(queue) \in Event
      /\ queue' \in Seq(Event) /\ Len(queue') = Len(queue) - 1
      /\ Len(queue) \in Nat \ {0} /\ DOMAIN queue = 1..Len(queue)
      /\ DOMAIN queue' = 1..(Len(queue) - 1)
      /\ \A i \in 1..(Len(queue) - 1) : queue'[i] = queue[i + 1]
      /\ Len(queue) <= MaxQueue /\ MaxQueue \in Nat
  BY BoundAssumption DEF TypeOK
<1>2. ASSUME NEW e, Awaits(e), e # Head(queue)
      PROVE  Awaits(e)'
  <2>1. PICK i \in 1..Len(queue) : queue[i] = e
    BY <1>1, <1>2 DEF Awaits
  <2>2. i # 1
    BY <1>1, <1>2, <2>1
  <2>3. i - 1 \in DOMAIN queue' /\ queue'[i - 1] = e
    BY <1>1, <2>1, <2>2
  <2> QED
    BY <2>3 DEF Awaits
<1> QED
  BY <1>1, <1>2

LEMMA QueueStays ==
  ASSUME UNCHANGED queue
  PROVE  \A e : Awaits(e)' <=> Awaits(e)
BY DEF Awaits

-----------------------------------------------------------------------------
(* Other processes keep the invariant.                                     *)

(* A new directory is watched by nobody: what accounts for that is its own *)
(* event, the loss of it, or what accounts for its parent.                 *)
LEMMA MakeDirKeeps ==
  ASSUME IInv, NEW d \in Dir, MakeDir(d)
  PROVE  IInv'
<1>1. /\ d \notin exists /\ Parent[d] \in exists /\ exists' = exists \cup {d}
      /\ UNCHANGED <<ignored, kernel, watched_roots, loop, origin, cancellable, pending, rulesLost>>
      /\ lost' = IF IF Parent[d] \in kernel THEN Dropped ELSE Parent[d] \in pending
                 THEN lost \cup {d} ELSE lost
      /\ IF Parent[d] \in kernel THEN Report(Created(d)) ELSE Silence
  BY DEF MakeDir, taskVars
<1>2. d # Root /\ AtOrAbove(d) = {d} \cup AtOrAbove(Parent[d]) /\ Parent[d] \in Dir
  BY <1>1, TreeFacts DEF IInv, TypeOK
<1>3. /\ queue' \in Seq(Event) /\ Len(queue') <= MaxQueue /\ overflowed' \in BOOLEAN
      /\ \A e : Awaits(e) => Awaits(e)'
      /\ Parent[d] \in kernel /\ ~Dropped => Awaits(Created(d))' \/ Awaits(Rescan)'
  <2>1. CASE Parent[d] \in kernel
    BY <1>1, <2>1, EventTypes, ReportFacts DEF IInv
  <2>2. CASE Parent[d] \notin kernel
    BY <1>1, <2>2, QueueStays DEF Silence, IInv, TypeOK
  <2> QED
    BY <2>1, <2>2
<1>4. TypeOK'
  <2>1. \A e \in exists' : Above[e] \subseteq exists'
    BY <1>1, <1>2, TreeAssumption DEF IInv, TypeOK
  <2>2. lost' \subseteq Target
    BY <1>1 DEF IInv, TypeOK, Target
  <2> QED
    BY <1>1, <1>3, <2>1, <2>2 DEF IInv, TypeOK
<1>5. NoLeakedWatch' /\ ListingInv'
  BY <1>1 DEF IInv, NoLeakedWatch, ListingInv
<1>6. RelistingAwaited => RelistingAwaited'
  BY <1>3 DEF RelistingAwaited
<1>7. RelistingDue => RelistingDue'
  BY <1>1, <1>3 DEF RelistingDue
<1>8. d \notin kernel /\ \A e : IsIgnored(e)' <=> IsIgnored(e)
  BY <1>1, TreeFacts DEF IInv, TypeOK, IsIgnored
<1>9. Relevant' \subseteq Relevant \cup {d} /\ (d \in Relevant' => Parent[d] \in Relevant)
  <2>1. \A e \in exists' : IsIgnored(e)' <=> IsIgnored(e)
    BY <1>8
  <2>2. Relevant' \subseteq Relevant \cup {d}
    BY <1>1, <2>1 DEF Relevant
  <2>3. ASSUME d \in Relevant'
        PROVE  Parent[d] \in Relevant
    <3>1. ~IsIgnored(d) /\ Above[d] \cap NestedRepo = {}
      BY <1>8, <2>3 DEF Relevant
    <3>2. ~IsIgnored(Parent[d])
      BY <1>2, <3>1 DEF IsIgnored
    <3>3. Above[Parent[d]] \cap NestedRepo = {}
      BY <1>2, <3>1, TreeAssumption
    <3> QED
      BY <1>1, <3>2, <3>3 DEF Relevant
  <2> QED
    BY <2>2, <2>3
<1>10. ListedFitsRules'
  BY <1>1, <1>6, <1>8, <1>9 DEF IInv, ListedFitsRules
<1>11. IgnoredAreOmitted'
  BY <1>1, <1>7, <1>8 DEF IInv, IgnoredAreOmitted
<1>12. ASSUME NEW e \in Relevant'
       PROVE  CoveredBy(e)'
  <2>1. \A f : AccountedFor(f) => AccountedFor(f)'
    BY <1>1, <1>3 DEF AccountedFor
  <2>2. CASE e \in Relevant
    BY <1>1, <1>7, <2>1, <2>2 DEF IInv, CoveredBy
  <2>3. CASE e = d
    <3>1. CASE Parent[d] \in kernel
      <4>1. d \in lost' \/ Awaits(Created(d))' \/ Awaits(Rescan)'
        BY <1>1, <1>3, <3>1
      <4>2. d \in AtOrAbove(d)
        BY TreeFacts
      <4> QED
        BY <1>1, <1>8, <2>3, <4>1, <4>2 DEF CoveredBy, AccountedFor, RelistingDue
    <3>2. CASE Parent[d] \in pending /\ Parent[d] \notin kernel
      BY <1>1, <2>3, <3>2 DEF CoveredBy
    <3>3. CASE Parent[d] \notin pending /\ Parent[d] \notin kernel
      <4>1. CoveredBy(Parent[d])
        BY <1>9, <1>12, <2>3 DEF IInv
      <4>2. Parent[d] \in lost => AccountedFor(Parent[d])
        BY <1>2, <3>3, TreeFacts DEF AccountedFor
      <4>3. AccountedFor(Parent[d]) => AccountedFor(d)
        BY <1>2 DEF AccountedFor
      <4> QED
        BY <1>1, <1>7, <2>1, <2>3, <3>3, <4>1, <4>2, <4>3 DEF CoveredBy
    <3> QED
      BY <3>1, <3>2, <3>3
  <2> QED
    BY <1>9, <1>12, <2>2, <2>3
<1> QED
  BY <1>4, <1>5, <1>10, <1>11, <1>12 DEF IInv

(* What accounts for a directory that stays is not below one that goes.    *)
LEMMA RemoveDirKeeps ==
  ASSUME IInv, NEW d \in Dir, RemoveDir(d)
  PROVE  IInv'
<1>1. /\ d \in exists \ {Root} /\ exists' = exists \ Below(d)
      /\ kernel' = kernel \ Below(d) /\ lost' = lost \ Below(d)
      /\ UNCHANGED <<ignored, watched_roots, loop, origin, cancellable, pending, rulesLost>>
      /\ IF {d, Parent[d]} \cap kernel # {} THEN Report(Removed(d)) ELSE Silence
  BY DEF RemoveDir, taskVars
<1>2. /\ queue' \in Seq(Event) /\ Len(queue') <= MaxQueue /\ overflowed' \in BOOLEAN
      /\ \A e : Awaits(e) => Awaits(e)'
  <2>1. CASE {d, Parent[d]} \cap kernel # {}
    BY <1>1, <2>1, EventTypes, ReportFacts DEF IInv
  <2>2. CASE {d, Parent[d]} \cap kernel = {}
    BY <1>1, <2>2, QueueStays DEF Silence, IInv, TypeOK
  <2> QED
    BY <2>1, <2>2
<1>3. /\ Root \notin Below(d) /\ Excludes \notin Below(d)
      /\ \A e \in Dir \ Below(d) : AtOrAbove(e) \cap Below(d) = {}
  BY <1>1, TreeFacts, BelowFacts
<1>4. TypeOK'
  <2>1. \A e \in exists' : Above[e] \subseteq exists'
    BY <1>1, <1>3 DEF IInv, TypeOK, AtOrAbove
  <2>2. kernel' \subseteq exists' \cup {Excludes}
    BY <1>1 DEF IInv, TypeOK
  <2>3. Root \in exists' /\ exists' \subseteq Dir /\ lost' \subseteq Target
    BY <1>1, <1>3 DEF IInv, TypeOK
  <2> QED
    BY <1>1, <1>2, <2>1, <2>2, <2>3 DEF IInv, TypeOK
<1>5. NoLeakedWatch' /\ ListingInv'
  BY <1>1, <1>3 DEF IInv, NoLeakedWatch, ListingInv
<1>6. (RelistingAwaited => RelistingAwaited') /\ (RelistingDue => RelistingDue')
  BY <1>1, <1>2 DEF RelistingAwaited, RelistingDue
<1>7. /\ \A e : IsIgnored(e)' <=> IsIgnored(e)
      /\ Relevant' = Relevant \ Below(d)
  <2>1. \A e : IsIgnored(e)' <=> IsIgnored(e)
    BY <1>1 DEF IsIgnored
  <2> QED
    BY <1>1, <2>1 DEF Relevant
<1>8. ListedFitsRules'
  BY <1>1, <1>6, <1>7 DEF IInv, ListedFitsRules
<1>9. IgnoredAreOmitted'
  BY <1>1, <1>6, <1>7 DEF IInv, IgnoredAreOmitted
<1>10. ASSUME NEW e \in Relevant'
       PROVE  CoveredBy(e)'
  <2>1. e \in Relevant /\ e \notin Below(d) /\ e \in Dir
    BY <1>7, <1>10, RelevantFacts DEF IInv
  <2>2. AccountedFor(e) => AccountedFor(e)'
    BY <1>1, <1>2, <1>3, <2>1 DEF AccountedFor
  <2> QED
    BY <1>1, <1>6, <2>1, <2>2 DEF IInv, CoveredBy
<1> QED
  BY <1>4, <1>5, <1>8, <1>9, <1>10 DEF IInv

(* When the rules change, a relisting is due or the change is lost.        *)
LEMMA RulesTold ==
  ASSUME IInv, TypeOK', ListingInv', NoLeakedWatch',
         UNCHANGED <<exists, watched_roots, loop, origin, cancellable, pending>>,
         kernel' \in {kernel, kernel \ {Excludes}}, lost \subseteq lost',
         \A e : Awaits(e) => Awaits(e)', rulesLost => rulesLost',
         ignored' # ignored =>
           RelistingAwaited' \/ rulesLost' \/ (loop = "unstarted" /\ kernel' \cap Dir = kernel \cap Dir)
  PROVE  IInv'
<1>1. (RelistingAwaited => RelistingAwaited') /\ (RelistingDue => RelistingDue')
  BY DEF RelistingAwaited, RelistingDue
<1>2. Relevant' \subseteq Dir /\ \A e \in Dir : e \in kernel => e \in kernel'
  BY TreeFacts DEF TypeOK, Relevant
<1>3. CASE ignored' = ignored
  <2>1. Relevant' = Relevant /\ \A e : IsIgnored(e)' <=> IsIgnored(e)
    <3>1. \A e : IsIgnored(e)' <=> IsIgnored(e)
      BY <1>3 DEF IsIgnored
    <3> QED
      BY <3>1 DEF Relevant
  <2>2. ListedFitsRules' /\ IgnoredAreOmitted'
    BY <1>1, <2>1 DEF IInv, ListedFitsRules, IgnoredAreOmitted
  <2>3. \A e \in Relevant : AccountedFor(e) => AccountedFor(e)'
    BY DEF AccountedFor
  <2>4. \A e \in Relevant' : CoveredBy(e)'
    BY <1>1, <1>2, <2>1, <2>3 DEF IInv, CoveredBy
  <2> QED
    BY <2>2, <2>4 DEF IInv
<1>4. CASE RelistingAwaited' \/ rulesLost'
  <2>1. ListedFitsRules'
    BY <1>4 DEF ListedFitsRules
  <2>2. RelistingDue' \/ rulesLost'
    BY <1>4 DEF RelistingAwaited, RelistingDue
  <2>3. IgnoredAreOmitted'
    BY <2>2 DEF IgnoredAreOmitted
  <2>4. \A e \in Relevant' : CoveredBy(e)'
    BY <2>2 DEF CoveredBy
  <2> QED
    BY <2>1, <2>3, <2>4 DEF IInv
<1>5. CASE loop = "unstarted"
  <2>1. RelistingDue' /\ pending' = {} /\ loop' # "replace"
    BY <1>5 DEF RelistingDue, IInv, ListingInv
  <2>2. ListedFitsRules' /\ IgnoredAreOmitted' /\ \A e \in Relevant' : CoveredBy(e)'
    BY <2>1 DEF ListedFitsRules, IgnoredAreOmitted, CoveredBy
  <2> QED
    BY <2>2 DEF IInv
<1> QED
  BY <1>3, <1>4, <1>5

LEMMA ChangeRulesKeeps ==
  ASSUME IInv, NEW rules \in Rule, ChangeRules(rules)
  PROVE  IInv'
<1>1. /\ ignored' = rules
      /\ UNCHANGED <<exists, kernel, watched_roots, loop, origin, cancellable, pending, lost>>
      /\ IF Root \in kernel THEN Report(Rules) ELSE Silence
      /\ rulesLost' = IF IF Root \in kernel THEN Dropped ELSE loop = "starting"
                      THEN TRUE ELSE rulesLost
  BY DEF ChangeRules, taskVars
<1>2. /\ queue' \in Seq(Event) /\ Len(queue') <= MaxQueue /\ overflowed' \in BOOLEAN
      /\ \A e : Awaits(e) => Awaits(e)'
      /\ Root \in kernel /\ ~Dropped => RelistingAwaited'
  <2>1. CASE Root \in kernel
    BY <1>1, <2>1, EventTypes, ReportFacts DEF IInv, RelistingAwaited
  <2>2. CASE Root \notin kernel
    BY <1>1, <2>2, QueueStays DEF Silence, IInv, TypeOK
  <2> QED
    BY <2>1, <2>2
<1>3. TypeOK'
  BY <1>1, <1>2, TreeAssumption DEF IInv, TypeOK
<1>4. NoLeakedWatch' /\ ListingInv'
  BY <1>1 DEF IInv, NoLeakedWatch, ListingInv
<1>5. RelistingAwaited' \/ rulesLost' \/ loop = "unstarted"
  BY <1>1, <1>2 DEF IInv, ListingInv
<1> QED
  BY <1>1, <1>2, <1>3, <1>4, <1>5, RulesTold DEF IInv, TypeOK

LEMMA ReplaceExcludesKeeps ==
  ASSUME IInv, NEW rules \in Rule, ReplaceExcludes(rules)
  PROVE  IInv'
<1>1. /\ ignored' = rules /\ kernel' = kernel \ {Excludes}
      /\ UNCHANGED <<exists, watched_roots, loop, origin, cancellable, pending>>
      /\ IF Excludes \in kernel THEN Report(Rules) ELSE Silence
      /\ rulesLost' = IF /\ rules # ignored
                         /\ IF Excludes \in kernel THEN Dropped ELSE loop # "unstarted"
                      THEN TRUE ELSE rulesLost
      /\ lost' \in {lost, lost \cup {Excludes}}
  BY DEF ReplaceExcludes, taskVars
<1>2. /\ queue' \in Seq(Event) /\ Len(queue') <= MaxQueue /\ overflowed' \in BOOLEAN
      /\ \A e : Awaits(e) => Awaits(e)'
      /\ Excludes \in kernel /\ ~Dropped => RelistingAwaited'
  <2>1. CASE Excludes \in kernel
    BY <1>1, <2>1, EventTypes, ReportFacts DEF IInv, RelistingAwaited
  <2>2. CASE Excludes \notin kernel
    BY <1>1, <2>2, QueueStays DEF Silence, IInv, TypeOK
  <2> QED
    BY <2>1, <2>2
<1>3. TypeOK'
  BY <1>1, <1>2, TreeAssumption DEF IInv, TypeOK, Target
<1>4. NoLeakedWatch' /\ ListingInv'
  BY <1>1, TreeFacts DEF IInv, NoLeakedWatch, ListingInv
<1>5. kernel' \cap Dir = kernel \cap Dir
  BY <1>1, TreeFacts
<1>6. ignored' # ignored => RelistingAwaited' \/ rulesLost' \/ loop = "unstarted"
  BY <1>1, <1>2
<1> QED
  BY <1>1, <1>2, <1>3, <1>4, <1>5, <1>6, RulesTold DEF IInv, TypeOK

-----------------------------------------------------------------------------
(* The process keeps the invariant.                                        *)

LEMMA TreeStays ==
  ASSUME UNCHANGED treeVars
  PROVE  Relevant' = Relevant /\ \A e : IsIgnored(e)' <=> IsIgnored(e)
<1>1. \A e : IsIgnored(e)' <=> IsIgnored(e)
  BY DEF treeVars, IsIgnored
<1> QED
  BY <1>1 DEF treeVars, Relevant

(* Where a relisting is due, or the rules were lost, nothing is left to    *)
(* show but the shape of the state.                                        *)
LEMMA RelistingKeeps ==
  ASSUME TypeOK', NoLeakedWatch', ListingInv', pending' = {}, loop' # "replace",
         RelistingDue' \/ rulesLost'
  PROVE  IInv'
BY DEF IInv, ListedFitsRules, IgnoredAreOmitted, CoveredBy

(* A target leaves the list: for the kernel's watches, or for the losses.  *)
LEMMA RegisteredKeeps ==
  ASSUME IInv, NEW t \in pending, UNCHANGED treeVars, UNCHANGED queue,
         TypeOK', NoLeakedWatch', ListingInv',
         loop \in {"starting", "register"}, loop' \in {"starting", "register", "idle"},
         pending' = pending \ {t}, rulesLost' = rulesLost,
         \/ kernel' = kernel \cup {t} /\ lost' = lost \ {t}
         \/ kernel' = kernel /\ lost \subseteq lost'
            /\ (t \in exists => t \in kernel \cup lost')
  PROVE  IInv'
<1>1. /\ Relevant' = Relevant /\ \A e : IsIgnored(e)' <=> IsIgnored(e)
      /\ \A e : Awaits(e)' <=> Awaits(e)
  BY TreeStays, QueueStays
<1>2. (RelistingAwaited <=> RelistingAwaited') /\ (RelistingDue => RelistingAwaited')
  BY <1>1 DEF RelistingAwaited, RelistingDue
<1>3. ListedFitsRules'
  BY <1>1, <1>2 DEF IInv, ListedFitsRules
<1>4. IgnoredAreOmitted'
  <2> SUFFICES ASSUME NEW e \in kernel' \ {Excludes}, IsIgnored(e)'
               PROVE  RelistingAwaited' \/ rulesLost'
    BY DEF IgnoredAreOmitted, RelistingAwaited, RelistingDue
  <2>1. CASE e \in kernel
    BY <1>1, <1>2, <2>1 DEF IInv, IgnoredAreOmitted
  <2>2. CASE e = t
    <3>1. t \in pending \cap Dir
      BY <2>2 DEF IInv, TypeOK, Target
    <3> QED
      BY <1>1, <1>2, <2>2, <3>1 DEF IInv, ListedFitsRules
  <2> QED
    BY <2>1, <2>2
<1>5. ASSUME NEW e \in Relevant'
      PROVE  CoveredBy(e)'
  <2>1. e \in Relevant /\ e \in exists
    BY <1>1, <1>5, RelevantFacts DEF IInv
  <2>2. RelistingDue => RelistingDue'
    BY <1>2 DEF RelistingAwaited, RelistingDue
  <2>3. AccountedFor(e) => AccountedFor(e)'
    BY <1>1 DEF AccountedFor
  <2>4. CASE e = t
    BY <2>1, <2>4 DEF CoveredBy
  <2>5. CASE e # t
    BY <2>1, <2>2, <2>3, <2>5 DEF IInv, CoveredBy
  <2> QED
    BY <2>4, <2>5
<1> QED
  BY <1>3, <1>4, <1>5 DEF IInv

LEMMA StartListingKeeps ==
  ASSUME IInv, StartListing
  PROVE  IInv'
<1>1. /\ loop = "unstarted" /\ loop' = "starting" /\ pending' = Targets
      /\ lost' = {} /\ rulesLost' = FALSE
      /\ UNCHANGED <<treeVars, exists, ignored, kernel, watched_roots, queue, overflowed,
                     origin, cancellable>>
  BY DEF StartListing, treeVars
<1>2. TypeOK'
  BY <1>1, TargetsFacts DEF IInv, TypeOK, Location
<1>3. NoLeakedWatch' /\ ListingInv'
  BY <1>1, TargetsFacts DEF IInv, NoLeakedWatch, ListingInv
<1>4. ListedFitsRules' /\ \A e \in Relevant' : CoveredBy(e)'
  BY <1>1, TargetsFacts, TreeStays DEF IInv, ListedFitsRules, CoveredBy
<1>5. IgnoredAreOmitted'
  BY <1>1 DEF IInv, ListingInv, IgnoredAreOmitted
<1> QED
  BY <1>2, <1>3, <1>4, <1>5 DEF IInv

LEMMA StartFailsKeeps ==
  ASSUME IInv, NEW t \in Target, StartFails(t)
  PROVE  IInv'
<1>1. /\ loop' = "unstarted" /\ kernel' = {} /\ watched_roots' = {} /\ pending' = {}
      /\ queue' = <<>> /\ overflowed' = FALSE /\ lost' = {} /\ rulesLost' = FALSE
      /\ UNCHANGED <<exists, ignored, origin, cancellable>>
  BY DEF StartFails, treeVars
<1>2. TypeOK'
  <2>1. queue' \in Seq(Event) /\ Len(queue') <= MaxQueue
    BY <1>1, BoundAssumption
  <2> QED
    BY <1>1, <2>1 DEF IInv, TypeOK, Location
<1>3. NoLeakedWatch' /\ ListingInv' /\ RelistingDue'
  BY <1>1 DEF NoLeakedWatch, ListingInv, RelistingDue
<1> QED
  BY <1>1, <1>2, <1>3, RelistingKeeps

LEMMA StartRegisterKeeps ==
  ASSUME IInv, NEW t \in Target, StartRegister(t)
  PROVE  IInv'
<1>1. /\ loop = "starting" /\ t \in pending /\ t \in exists \cup {Excludes}
      /\ kernel' = kernel \cup {t} /\ watched_roots' = watched_roots \cup {t}
      /\ pending' = pending \ {t} /\ lost' = lost \ {t}
      /\ loop' = IF pending' = {} THEN "idle" ELSE "starting"
      /\ UNCHANGED <<treeVars, exists, ignored, queue, overflowed, origin, cancellable, rulesLost>>
  BY DEF StartRegister, IsNext, treeVars
<1>2. TypeOK'
  BY <1>1 DEF IInv, TypeOK, Location
<1>3. NoLeakedWatch' /\ ListingInv'
  BY <1>1 DEF IInv, NoLeakedWatch, ListingInv
<1> QED
  BY <1>1, <1>2, <1>3, RegisteredKeeps

LEMMA RegisterKeeps ==
  ASSUME IInv, NEW t \in Target, Register(t)
  PROVE  IInv'
<1>1. /\ loop = "register" /\ t \in pending /\ pending' = pending \ {t}
      /\ loop' = IF pending' = {} THEN "idle" ELSE "register"
      /\ UNCHANGED <<treeVars, exists, ignored, queue, overflowed, origin, cancellable, rulesLost>>
  BY DEF Register, IsNext, treeVars
<1>2. \/ /\ t \in exists \cup {Excludes}
         /\ kernel' = kernel \cup {t} /\ watched_roots' = watched_roots \cup {t}
         /\ lost' = lost \ {t}
      \/ /\ UNCHANGED <<kernel, watched_roots>>
         /\ lost \subseteq lost' /\ lost' \subseteq lost \cup {t}
         /\ t \in exists => t \in kernel \cup lost'
  BY DEF Register
<1>3. TypeOK'
  BY <1>1, <1>2 DEF IInv, TypeOK, Location
<1>4. NoLeakedWatch' /\ ListingInv'
  BY <1>1, <1>2 DEF IInv, NoLeakedWatch, ListingInv
<1> QED
  BY <1>1, <1>2, <1>3, <1>4, RegisteredKeeps

LEMMA TakeOverflowKeeps ==
  ASSUME IInv, TakeOverflow
  PROVE  IInv'
<1>1. /\ overflowed' = FALSE
      /\ UNCHANGED <<treeVars, exists, ignored, kernel, watched_roots, queue, loop, origin,
                     cancellable, pending, lost, rulesLost>>
  BY DEF TakeOverflow, treeVars, taskVars
<1>2. /\ Relevant' = Relevant /\ \A e : IsIgnored(e)' <=> IsIgnored(e)
      /\ \A e : Awaits(e)' <=> Awaits(e)
  BY <1>1, TreeStays, QueueStays
<1>3. TypeOK' /\ NoLeakedWatch' /\ ListingInv'
  BY <1>1 DEF IInv, TypeOK, NoLeakedWatch, ListingInv
<1>4. (RelistingAwaited <=> RelistingAwaited') /\ (RelistingDue <=> RelistingDue')
  BY <1>1, <1>2 DEF RelistingAwaited, RelistingDue
<1>5. ListedFitsRules' /\ IgnoredAreOmitted'
  BY <1>1, <1>2, <1>4 DEF IInv, ListedFitsRules, IgnoredAreOmitted
<1>6. \A e : AccountedFor(e) => AccountedFor(e)'
  BY <1>1, <1>2 DEF AccountedFor
<1>7. \A e \in Relevant' : CoveredBy(e)'
  BY <1>1, <1>2, <1>4, <1>6 DEF IInv, CoveredBy
<1> QED
  BY <1>3, <1>5, <1>7 DEF IInv

(* The event of a new directory leaves the queue for a listing that begins *)
(* at it, or, if watched_roots has it, for the losses.                     *)
LEMMA TakeKeeps ==
  ASSUME IInv, NEW cancel \in MayCancel, Take(cancel)
  PROVE  IInv'
<1> DEFINE event == Head(queue)
<1>1. /\ loop = "idle" /\ queue # <<>> /\ queue' = Tail(queue)
      /\ UNCHANGED <<treeVars, exists, ignored, kernel, overflowed, pending, rulesLost>>
  BY DEF Take, treeVars
<1>2. \/ /\ event.kind \in {"rules", "rescan"}
         /\ loop' = "reconcile" /\ origin' = Root /\ cancellable' = cancel
         /\ UNCHANGED <<watched_roots, lost>>
      \/ /\ event.kind \in {"create", "remove"}
         /\ event.kind = "create" => event.dir \notin exists
         /\ UNCHANGED <<loop, origin, cancellable, watched_roots, lost>>
      \/ /\ event.kind = "create" /\ event.dir \in exists /\ watched_roots' = Pruned
         /\ event.dir \in Pruned /\ lost' = lost \cup ({event.dir} \ kernel)
         /\ UNCHANGED <<loop, origin, cancellable>>
      \/ /\ event.kind = "create" /\ event.dir \in exists /\ watched_roots' = Pruned
         /\ event.dir \notin Pruned
         /\ loop' = "list" /\ origin' = event.dir /\ cancellable' = cancel /\ UNCHANGED lost
  BY DEF Take
<1>3. /\ queue' \in Seq(Event) /\ Len(queue') <= MaxQueue
      /\ event \in Event
      /\ \A e : Awaits(e) => e = event \/ Awaits(e)'
  BY <1>1, TailFacts DEF IInv
<1>4. /\ pending = {} /\ pending' = {} /\ Root \in kernel
      /\ kernel \subseteq Pruned /\ Pruned \subseteq Target
      /\ cancel \in BOOLEAN
  BY <1>1, BoundAssumption DEF IInv, ListingInv, TypeOK, NoLeakedWatch, Pruned
<1>5. /\ event.dir \in Dir
      /\ event.kind \in {"rules", "rescan"} \/ event.kind \in {"create", "remove"}
      /\ \A d \in Dir : Created(d) = event => event.kind = "create" /\ event.dir = d
      /\ Rules = event \/ Rescan = event => event.kind \in {"rules", "rescan"}
  BY <1>3, TreeFacts DEF Event, Created, Rules, Rescan
<1> HIDE DEF event
<1>6. TypeOK'
  BY <1>1, <1>2, <1>3, <1>4, <1>5, TreeFacts DEF IInv, TypeOK, Location, Target
<1>7. NoLeakedWatch'
  BY <1>1, <1>2, <1>4 DEF IInv, NoLeakedWatch
<1>8. ListingInv'
  BY <1>1, <1>2, <1>4 DEF ListingInv
<1>9. CASE event.kind \in {"rules", "rescan"}
  <2>1. loop' = "reconcile"
    BY <1>2, <1>9
  <2> QED
    BY <1>4, <1>6, <1>7, <1>8, <2>1, RelistingKeeps DEF RelistingDue
<1>10. CASE event.kind \notin {"rules", "rescan"}
  <2>1. /\ Relevant' = Relevant /\ \A e : IsIgnored(e)' <=> IsIgnored(e)
        /\ loop' \in {"idle", "list"} /\ lost \subseteq lost'
    BY <1>1, <1>2, <1>10, TreeStays
  <2>2. RelistingDue => RelistingDue'
    BY <1>1, <1>3, <1>5, <1>10 DEF RelistingDue
  <2>3. ListedFitsRules' /\ IgnoredAreOmitted'
    BY <1>1, <1>4, <2>1, <2>2 DEF IInv, ListedFitsRules, IgnoredAreOmitted
  <2>4. ASSUME NEW e \in Relevant, AccountedFor(e)
        PROVE  AccountedFor(e)'
    <3>1. PICK f \in AtOrAbove(e) : f \notin kernel /\ (Awaits(Created(f)) \/ f \in lost)
      BY <1>1, <2>4 DEF AccountedFor
    <3>2. f \in exists /\ f \in Dir
      BY <3>1, TreeFacts DEF IInv, TypeOK, Relevant, AtOrAbove
    <3>3. CASE f \in lost
      BY <1>1, <1>4, <2>1, <3>1, <3>3 DEF AccountedFor
    <3>4. CASE Awaits(Created(f)) /\ Created(f) # event
      BY <1>1, <1>3, <1>4, <3>1, <3>4 DEF AccountedFor
    <3>5. CASE Created(f) = event
      <4>1. f = event.dir /\ event.kind = "create"
        BY <1>5, <3>2, <3>5
      <4>2. f \in lost' \/ (loop' = "list" /\ origin' = f)
        BY <1>2, <3>1, <3>2, <4>1
      <4> QED
        BY <1>1, <1>4, <3>1, <4>2 DEF AccountedFor
    <3> QED
      BY <3>1, <3>3, <3>4, <3>5
  <2>5. \A e \in Relevant' : CoveredBy(e)'
    BY <1>1, <2>1, <2>2, <2>4 DEF IInv, CoveredBy
  <2> QED
    BY <1>6, <1>7, <1>8, <2>3, <2>5 DEF IInv
<1> QED
  BY <1>9, <1>10

(* The listing takes over what its origin accounts for.                    *)
LEMMA ListKeeps ==
  ASSUME IInv, List
  PROVE  IInv'
<1>1. /\ loop = "list" /\ loop' = "listed" /\ pending' = ListedFrom(origin)
      /\ UNCHANGED <<treeVars, exists, ignored, kernel, watched_roots, queue, overflowed,
                     origin, cancellable, lost, rulesLost>>
  BY DEF List, treeVars
<1>2. /\ pending = {} /\ origin \notin kernel /\ origin \in Dir /\ Root \in kernel
      /\ exists \subseteq Dir
  BY <1>1 DEF IInv, ListingInv, TypeOK
<1>3. /\ pending' \subseteq Below(origin) /\ pending' \subseteq Dir
      /\ \A d \in pending' : ~IsIgnored(d)
      /\ \A d \in Relevant : origin \in AtOrAbove(d) => d \in pending'
  BY <1>1, <1>2, ListedFacts, BelowFacts DEF IInv
<1>4. /\ Relevant' = Relevant /\ \A e : IsIgnored(e)' <=> IsIgnored(e)
      /\ \A e : Awaits(e)' <=> Awaits(e)
  BY <1>1, TreeStays, QueueStays
<1>5. TypeOK' /\ NoLeakedWatch'
  BY <1>1, <1>3 DEF IInv, TypeOK, NoLeakedWatch, Location, Target
<1>6. ListingInv'
  BY <1>1, <1>2, <1>3 DEF ListingInv, Below
<1>7. RelistingDue => RelistingDue'
  BY <1>1, <1>4 DEF RelistingDue
<1>8. ListedFitsRules' /\ IgnoredAreOmitted'
  BY <1>1, <1>3, <1>4, <1>7 DEF IInv, ListedFitsRules, IgnoredAreOmitted
<1>9. ASSUME NEW e \in Relevant, AccountedFor(e)
      PROVE  e \in pending' \/ AccountedFor(e)'
  <2>1. PICK f \in AtOrAbove(e) : /\ f \notin kernel
                                  /\ Awaits(Created(f)) \/ f \in lost \/ origin = f
    BY <1>9 DEF AccountedFor
  <2>2. CASE f \in pending' \/ f = origin
    <3>1. origin \in AtOrAbove(f) /\ e \in Dir
      BY <1>2, <1>3, <2>2, BelowFacts, TreeFacts DEF Relevant
    <3>2. origin \in AtOrAbove(e)
      BY <2>1, <3>1, TreeFacts
    <3> QED
      BY <1>3, <3>2
  <2>3. CASE f \notin pending' /\ f # origin
    <3>1. f \notin kernel' \cup pending' /\ (Awaits(Created(f))' \/ f \in lost')
      BY <1>1, <1>4, <2>1, <2>3
    <3>2. AccountedFor(e)'
      BY <2>1, <3>1 DEF AccountedFor
    <3> QED
      BY <3>2
  <2> QED
    BY <2>2, <2>3
<1>10. \A e \in Relevant' : CoveredBy(e)'
  BY <1>1, <1>2, <1>4, <1>7, <1>9 DEF IInv, CoveredBy
<1> QED
  BY <1>5, <1>6, <1>8, <1>10 DEF IInv

LEMMA ListedKeeps ==
  ASSUME IInv, Listed
  PROVE  IInv'
<1>1. /\ loop = "listed" /\ loop' = IF pending = {} THEN "idle" ELSE "register"
      /\ UNCHANGED <<treeVars, exists, ignored, kernel, watched_roots, queue, overflowed,
                     pending, lost, rulesLost>>
      /\ origin' = Root /\ cancellable' = FALSE
  BY DEF Listed, Finish, AwaitsNoMore, treeVars
<1>2. /\ Relevant' = Relevant /\ \A e : IsIgnored(e)' <=> IsIgnored(e)
      /\ \A e : Awaits(e)' <=> Awaits(e)
  BY <1>1, TreeStays, QueueStays
<1>3. TypeOK' /\ NoLeakedWatch' /\ ListingInv'
  BY <1>1 DEF IInv, TypeOK, NoLeakedWatch, ListingInv, Location
<1>4. (RelistingAwaited => RelistingAwaited') /\ (RelistingDue => RelistingDue')
  BY <1>1, <1>2 DEF RelistingAwaited, RelistingDue
<1>5. ListedFitsRules' /\ IgnoredAreOmitted'
  BY <1>1, <1>2, <1>4 DEF IInv, ListedFitsRules, IgnoredAreOmitted
<1>6. \A e : AccountedFor(e) => AccountedFor(e)'
  BY <1>1, <1>2 DEF AccountedFor
<1>7. \A e \in Relevant' : CoveredBy(e)'
  BY <1>1, <1>2, <1>4, <1>6 DEF IInv, CoveredBy
<1> QED
  BY <1>3, <1>5, <1>7 DEF IInv

LEMMA ReconcileKeeps ==
  ASSUME IInv, Reconcile
  PROVE  IInv'
<1>1. /\ loop = "reconcile" /\ loop' = "replace" /\ pending' = Targets /\ rulesLost' = FALSE
      /\ UNCHANGED <<treeVars, exists, ignored, kernel, watched_roots, queue, overflowed,
                     origin, cancellable, lost>>
  BY DEF Reconcile, treeVars
<1>2. /\ Targets \subseteq Target /\ {Root, Excludes} \subseteq Targets /\ Relevant \subseteq Targets
      /\ \A d \in Targets \cap Dir : ~IsIgnored(d)
  BY TargetsFacts DEF IInv
<1>3. Relevant' = Relevant /\ \A e : IsIgnored(e)' <=> IsIgnored(e)
  BY <1>1, TreeStays
<1>4. TypeOK' /\ NoLeakedWatch' /\ ListingInv'
  BY <1>1, <1>2 DEF IInv, TypeOK, NoLeakedWatch, ListingInv, Location
<1>5. /\ ListedFitsRules' /\ IgnoredAreOmitted'
      /\ \A e \in Relevant' : CoveredBy(e)'
  BY <1>1, <1>2, <1>3 DEF ListedFitsRules, IgnoredAreOmitted, CoveredBy
<1> QED
  BY <1>4, <1>5 DEF IInv

LEMMA ReconcileFailsKeeps ==
  ASSUME IInv, ReconcileFails
  PROVE  IInv'
<1>1. /\ loop = "reconcile" /\ loop' = "idle" /\ pending' = {} /\ rulesLost' = TRUE
      /\ lost' = lost \cup (Targets \ kernel)
      /\ UNCHANGED <<exists, ignored, kernel, watched_roots, queue, overflowed>>
      /\ origin' = Root /\ cancellable' = FALSE
  BY DEF ReconcileFails, Finish, AwaitsNoMore, treeVars
<1>2. TypeOK' /\ NoLeakedWatch' /\ ListingInv'
  BY <1>1, TargetsFacts DEF IInv, TypeOK, NoLeakedWatch, ListingInv, Location
<1> QED
  BY <1>1, <1>2, RelistingKeeps

(* The watches that go are those of directories that are not relevant.     *)
LEMMA ReplaceKeeps ==
  ASSUME IInv, Replace
  PROVE  IInv'
<1>1. /\ loop = "replace" /\ loop' = "register"
      /\ kernel' = kernel \ (watched_roots \ pending)
      /\ watched_roots' = watched_roots \cap pending
      /\ UNCHANGED <<treeVars, exists, ignored, queue, overflowed, pending,
                     lost, rulesLost>>
      /\ origin' = Root /\ cancellable' = FALSE
  BY DEF Replace, AwaitsNoMore, treeVars
<1>2. /\ kernel' = kernel \cap pending /\ Root \in kernel \cap pending
  BY <1>1 DEF IInv, NoLeakedWatch, ListingInv
<1>3. /\ Relevant' = Relevant /\ \A e : IsIgnored(e)' <=> IsIgnored(e)
      /\ \A e : Awaits(e)' <=> Awaits(e)
  BY <1>1, TreeStays, QueueStays
<1>4. TypeOK' /\ NoLeakedWatch' /\ ListingInv'
  BY <1>1, <1>2 DEF IInv, TypeOK, NoLeakedWatch, ListingInv, Location
<1>5. (RelistingAwaited <=> RelistingAwaited') /\ (RelistingAwaited => RelistingDue)
      /\ (RelistingDue <=> RelistingDue')
  BY <1>1, <1>3 DEF RelistingAwaited, RelistingDue
<1>6. ListedFitsRules'
  BY <1>1, <1>3, <1>5 DEF IInv, ListedFitsRules
<1>7. IgnoredAreOmitted'
  <2> SUFFICES ASSUME NEW e \in kernel' \ {Excludes}, IsIgnored(e)'
               PROVE  RelistingDue' \/ rulesLost'
    BY DEF IgnoredAreOmitted
  <2>1. e \in pending \cap Dir
    BY <1>2 DEF IInv, TypeOK, Target
  <2> QED
    BY <1>1, <1>3, <1>5, <2>1 DEF IInv, ListedFitsRules
<1>8. ASSUME NEW e \in Relevant'
      PROVE  CoveredBy(e)'
  <2>1. e \in kernel => e \in pending \/ RelistingAwaited \/ rulesLost
    BY <1>1, <1>3, <1>8 DEF IInv, ListedFitsRules
  <2>2. AccountedFor(e) => AccountedFor(e)'
    BY <1>1, <1>2, <1>3 DEF AccountedFor
  <2> QED
    BY <1>1, <1>3, <1>5, <1>8, <2>1, <2>2 DEF IInv, CoveredBy
<1> QED
  BY <1>4, <1>6, <1>7, <1>8 DEF IInv

(* A cancelled listing is lost with its origin, a cancelled reconciliation *)
(* with the rules it was for.                                              *)
LEMMA CancelKeeps ==
  ASSUME IInv, Cancel
  PROVE  IInv'
<1>1. /\ loop \in {"list", "listed", "reconcile", "replace"}
      /\ loop' = "idle" /\ pending' = {}
      /\ lost' = lost \cup IF loop \in {"list", "listed"} THEN {origin} \cap exists
                           ELSE Targets \ kernel
      /\ rulesLost' = (rulesLost \/ loop \in {"reconcile", "replace"})
      /\ UNCHANGED <<treeVars, exists, ignored, kernel, watched_roots, queue, overflowed>>
      /\ origin' = Root /\ cancellable' = FALSE
  BY DEF Cancel, Finish, AwaitsNoMore, treeVars
<1>2. rulesLost' \in BOOLEAN
  BY <1>1, Zenon
<1>3. lost' \subseteq Target
  BY <1>1, TargetsFacts DEF IInv, TypeOK, Target
<1>4. TypeOK' /\ NoLeakedWatch' /\ ListingInv'
  BY <1>1, <1>2, <1>3 DEF IInv, TypeOK, NoLeakedWatch, ListingInv, Location
<1>5. CASE loop \in {"reconcile", "replace"}
  BY <1>1, <1>4, <1>5, RelistingKeeps
<1>6. CASE loop \in {"list", "listed"}
  <2>1. /\ Relevant' = Relevant /\ \A e : IsIgnored(e)' <=> IsIgnored(e)
        /\ \A e : Awaits(e)' <=> Awaits(e)
    BY <1>1, TreeStays, QueueStays
  <2>2. lost' = lost \cup ({origin} \cap exists) /\ rulesLost' = rulesLost /\ origin \notin kernel
    BY <1>1, <1>6 DEF IInv, ListingInv, TypeOK
  <2>3. RelistingDue => RelistingDue'
    BY <1>1, <1>6, <2>1 DEF RelistingDue
  <2>4. ListedFitsRules' /\ IgnoredAreOmitted'
    BY <1>1, <1>6, <2>1, <2>2, <2>3 DEF IInv, ListedFitsRules, IgnoredAreOmitted
  <2>5. ASSUME NEW e \in Relevant
        PROVE  CoveredBy(e)'
    <3>1. e \in exists /\ e \in Dir /\ Above[e] \subseteq exists
      BY RelevantFacts DEF IInv, TypeOK
    <3>2. origin \in AtOrAbove(e) => AccountedFor(e)'
      BY <1>1, <2>2, <3>1 DEF AccountedFor, AtOrAbove
    <3>3. AccountedFor(e) => AccountedFor(e)'
      BY <1>1, <2>1, <2>2, <3>2 DEF AccountedFor
    <3>4. e \in pending => origin \in AtOrAbove(e)
      BY <1>6, <3>1 DEF IInv, ListingInv, Below
    <3> QED
      BY <1>1, <2>2, <2>3, <3>2, <3>3, <3>4 DEF IInv, CoveredBy
  <2> QED
    BY <1>4, <2>1, <2>4, <2>5 DEF IInv
<1> QED
  BY <1>1, <1>5, <1>6

-----------------------------------------------------------------------------
LEMMA InitIInv == Init => IInv
<1> SUFFICES ASSUME Init
             PROVE  IInv
  OBVIOUS
<1>1. TypeOK
  <2>1. queue \in Seq(Event) /\ Len(queue) <= MaxQueue
    BY BoundAssumption DEF Init
  <2> QED
    BY <2>1, TreeFacts DEF Init, TypeOK, Location
<1>2. NoLeakedWatch /\ ListingInv /\ RelistingDue
  BY DEF Init, NoLeakedWatch, ListingInv, RelistingDue
<1> QED
  BY <1>1, <1>2 DEF Init, IInv, ListedFitsRules, IgnoredAreOmitted, CoveredBy

LEMMA StutterIInv ==
  ASSUME IInv, UNCHANGED vars
  PROVE  IInv'
<1>1. /\ UNCHANGED treeVars /\ UNCHANGED queue
      /\ UNCHANGED <<exists, ignored, kernel, watched_roots, overflowed, loop, origin,
                     cancellable, pending, lost, rulesLost>>
  BY DEF vars, treeVars, taskVars
<1>2. /\ Relevant' = Relevant /\ \A e : IsIgnored(e)' <=> IsIgnored(e)
      /\ \A e : Awaits(e)' <=> Awaits(e)
  BY <1>1, TreeStays, QueueStays
<1>3. TypeOK' /\ NoLeakedWatch' /\ ListingInv'
  BY <1>1 DEF IInv, TypeOK, NoLeakedWatch, ListingInv
<1>4. (RelistingAwaited <=> RelistingAwaited') /\ (RelistingDue <=> RelistingDue')
  BY <1>1, <1>2 DEF RelistingAwaited, RelistingDue
<1>5. ListedFitsRules' /\ IgnoredAreOmitted'
  BY <1>1, <1>2, <1>4 DEF IInv, ListedFitsRules, IgnoredAreOmitted
<1>6. \A e : AccountedFor(e) => AccountedFor(e)'
  BY <1>1, <1>2 DEF AccountedFor
<1>7. \A e \in Relevant' : CoveredBy(e)'
  BY <1>1, <1>2, <1>4, <1>6 DEF IInv, CoveredBy
<1> QED
  BY <1>3, <1>5, <1>7 DEF IInv

LEMMA NextIInv == IInv /\ [Next]_vars => IInv'
<1> SUFFICES ASSUME IInv, [Next]_vars
             PROVE  IInv'
  OBVIOUS
<1>1. CASE Others
  BY <1>1, MakeDirKeeps, RemoveDirKeeps, ChangeRulesKeeps, ReplaceExcludesKeeps DEF Others
<1>2. CASE StartListing
  BY <1>2, StartListingKeeps
<1>3. CASE Process
  BY <1>3, StartRegisterKeeps, StartFailsKeeps, TakeOverflowKeeps, TakeKeeps, ListKeeps,
     ListedKeeps, ReconcileKeeps, ReplaceKeeps, RegisterKeeps DEF Process
<1>4. CASE Failures
  BY <1>4, StartFailsKeeps, ReconcileFailsKeeps, CancelKeeps DEF Failures
<1>5. CASE UNCHANGED vars
  BY <1>5, StutterIInv
<1> QED
  BY <1>1, <1>2, <1>3, <1>4, <1>5 DEF Next

LEMMA IInvCorrect == Spec => []IInv
BY InitIInv, NextIInv, PTL DEF Spec

-----------------------------------------------------------------------------
(* The theorems.                                                           *)

(* Every variable keeps its type; the kernel watches only what exists.     *)
THEOREM TypeCorrect == Spec => []TypeOK
<1>1. IInv => TypeOK
  BY DEF IInv
<1> QED
  BY <1>1, IInvCorrect, PTL

(* The process can remove every watch there is.                            *)
THEOREM NoLeakedWatchCorrect == Spec => []NoLeakedWatch
<1>1. IInv => NoLeakedWatch
  BY DEF IInv
<1> QED
  BY <1>1, IInvCorrect, PTL

(* A watch on an ignored directory is about to go, unless a change of the  *)
(* rules was lost.                                                         *)
THEOREM IgnoredAreOmittedCorrect == Spec => []IgnoredAreOmitted
<1>1. IInv => IgnoredAreOmitted
  BY DEF IInv
<1> QED
  BY <1>1, IInvCorrect, PTL

(* A relevant directory is watched, about to be, or among the losses.      *)
THEOREM CoveredCorrect == Spec => []Covered
<1>1. IInv => Covered
  <2> SUFFICES ASSUME IInv, NEW d \in Relevant
               PROVE  d \in kernel \/ Due(d) \/ GivenUp(d) \/ rulesLost
    BY DEF Covered
  <2>1. CoveredBy(d) /\ d \in AtOrAbove(d)
    BY RelevantFacts, TreeFacts DEF IInv
  <2>2. AccountedFor(d) => Due(d) \/ GivenUp(d)
    BY DEF AccountedFor, Due, GivenUp
  <2> QED
    BY <2>1, <2>2 DEF CoveredBy, Due, GivenUp
<1> QED
  BY <1>1, IInvCorrect, PTL

(* The process stops watching a relevant directory, or the excludes file,  *)
(* only where a failed start drops the watcher, or where the rules have    *)
(* changed since the listing.                                              *)
THEOREM KeepsRelevantCorrect == Spec => KeepsRelevant
<1>1. IInv /\ [Next]_vars => [KeepsWatches]_vars
  <2> SUFFICES ASSUME IInv, Next, ~Others, NEW t \in kernel \ kernel',
                      t \in Relevant \cup {Excludes}, loop # "starting"
               PROVE  RelistingAwaited \/ rulesLost
    BY DEF KeepsWatches
  <2>1. loop = "replace" /\ kernel' = kernel \ (watched_roots \ pending)
    BY DEF Next, StartListing, Process, Failures, StartRegister, StartFails, TakeOverflow, Take,
           List, Listed, Reconcile, ReconcileFails, Replace, Register, Cancel
  <2>2. t \notin pending
    BY <2>1
  <2>3. t \in Relevant
    BY <2>1, <2>2 DEF IInv, ListingInv
  <2> QED
    BY <2>1, <2>2, <2>3 DEF IInv, ListedFitsRules
<1> QED
  BY <1>1, IInvCorrect, PTL DEF Spec, KeepsRelevant

-----------------------------------------------------------------------------
(* What is left to do.                                                     *)

LEMMA TargetIsFinite == IsFiniteSet(Target) /\ Cardinality(Target) \in Nat \ {0}
<1>1. IsFiniteSet({Excludes}) /\ IsFiniteSet(Target)
  BY FiniteAssumption, FS_Singleton, FS_Union DEF Target
<1>2. Cardinality(Target) \in Nat
  BY <1>1, FS_CardinalityType
<1>3. Cardinality(Target) # 0
  BY <1>1, FS_EmptySet DEF Target
<1> QED
  BY <1>1, <1>2, <1>3

LEMMA ListsAreFinite ==
  ASSUME NEW S \in SUBSET Target
  PROVE  /\ IsFiniteSet(S) /\ Cardinality(S) \in 0..Cardinality(Target)
         /\ S # {} => Cardinality(S) > 0
         /\ \A t \in S : Cardinality(S \ {t}) = Cardinality(S) - 1
<1>1. IsFiniteSet(S) /\ Cardinality(S) <= Cardinality(Target)
  BY TargetIsFinite, FS_Subset
<1>2. Cardinality(S) \in Nat /\ Cardinality(Target) \in Nat
  BY <1>1, TargetIsFinite, FS_CardinalityType
<1>3. S # {} => Cardinality(S) # 0
  BY <1>1, FS_EmptySet
<1>4. \A t \in S : Cardinality(S \ {t}) = Cardinality(S) - 1
  BY <1>1, FS_RemoveElement
<1> QED
  BY <1>1, <1>2, <1>3, <1>4

QueueWork    == (Cardinality(Target) + 3) * Len(queue)
OverflowWork == IF overflowed THEN 1 ELSE 0

WorkIsSum ==
  /\ QueueWork \in Nat /\ OverflowWork \in Nat /\ Stage \in Nat
  /\ Stage <= Cardinality(Target) + 2 /\ Cardinality(Target) \in Nat
  /\ Work = QueueWork + OverflowWork + Stage

LEMMA WorkTypes == TypeOK => WorkIsSum
<1> SUFFICES ASSUME TypeOK
             PROVE  WorkIsSum
  OBVIOUS
<1>1. Cardinality(Target) \in Nat /\ Cardinality(pending) \in 0..Cardinality(Target)
  BY TargetIsFinite, ListsAreFinite DEF TypeOK
<1>2. Stage \in Nat /\ Stage <= Cardinality(Target) + 2
  BY <1>1 DEF Stage, TypeOK, Location
<1>3. QueueWork \in Nat
  <2>1. \A m, n \in Nat : m * n \in Nat
    OBVIOUS
  <2>2. Cardinality(Target) + 3 \in Nat /\ Len(queue) \in Nat
    BY <1>1 DEF TypeOK
  <2> QED
    BY <2>1, <2>2 DEF QueueWork
<1>4. OverflowWork \in Nat
  BY DEF OverflowWork
<1> QED
  BY <1>1, <1>2, <1>3, <1>4 DEF WorkIsSum, Work, QueueWork, OverflowWork

LEMMA WorkTypesNext == TypeOK' => WorkIsSum'
BY WorkTypes, PTL

(* A step that leaves the events alone has left a stage behind.            *)
LEMMA StageSteps ==
  ASSUME TypeOK, TypeOK', IInv,
         \/ List \/ Listed \/ Reconcile \/ Replace \/ ReconcileFails \/ Cancel
         \/ \E t \in Target : StartRegister(t) \/ Register(t)
  PROVE  Stage' < Stage /\ UNCHANGED <<queue, overflowed>>
<1>1. /\ Cardinality(Target) \in Nat
      /\ Cardinality(pending) \in 0..Cardinality(Target)
      /\ Cardinality(pending') \in 0..Cardinality(Target)
      /\ Cardinality({}) = 0
  BY TargetIsFinite, ListsAreFinite, FS_EmptySet DEF TypeOK
<1>2. CASE List \/ Reconcile
  BY <1>1, <1>2 DEF List, Reconcile, Stage
<1>3. CASE Listed
  BY <1>1, <1>3 DEF Listed, Finish, Stage
<1>4. CASE Replace
  BY <1>1, <1>4 DEF Replace, Stage
<1>5. CASE ReconcileFails \/ Cancel
  BY <1>1, <1>5 DEF ReconcileFails, Cancel, Finish, Stage
<1>6. ASSUME NEW t \in Target, StartRegister(t) \/ Register(t)
      PROVE  Stage' < Stage /\ UNCHANGED <<queue, overflowed>>
  <2>1. /\ t \in pending /\ pending' = pending \ {t} /\ UNCHANGED <<queue, overflowed>>
        /\ loop \in {"starting", "register"}
        /\ loop' = IF pending' = {} THEN "idle" ELSE loop
    BY <1>6 DEF StartRegister, Register, IsNext
  <2>2. Cardinality(pending') = Cardinality(pending) - 1 /\ Cardinality(pending) > 0
    BY <2>1, ListsAreFinite DEF TypeOK
  <2> QED
    BY <1>1, <2>1, <2>2 DEF Stage
<1> QED
  BY <1>2, <1>3, <1>4, <1>5, <1>6

(* A step of the process leaves less to do.                                *)
LEMMA ProcessWorks ==
  ASSUME TypeOK, TypeOK', IInv, Process \/ Failures
  PROVE  Work' < Work
<1>1. CASE \/ List \/ Listed \/ Reconcile \/ Replace \/ ReconcileFails \/ Cancel
           \/ \E t \in Target : StartRegister(t) \/ Register(t)
  <2>1. Stage' < Stage /\ UNCHANGED <<queue, overflowed>>
    BY <1>1, StageSteps
  <2>2. QueueWork' = QueueWork /\ OverflowWork' = OverflowWork
    BY <2>1 DEF QueueWork, OverflowWork, Target
  <2> QED
    BY <2>1, <2>2, WorkTypes, WorkTypesNext DEF WorkIsSum
<1>2. CASE TakeOverflow
  <2>1. /\ UNCHANGED <<queue, loop, pending>> /\ overflowed /\ ~overflowed'
    BY <1>2 DEF TakeOverflow, taskVars
  <2>2. QueueWork' = QueueWork /\ Stage' = Stage
    BY <2>1 DEF QueueWork, Stage, Target
  <2>3. OverflowWork = 1 /\ OverflowWork' = 0
    BY <2>1 DEF OverflowWork
  <2> QED
    BY <2>2, <2>3, WorkTypes, WorkTypesNext DEF WorkIsSum
<1>3. ASSUME NEW cancel \in MayCancel, Take(cancel)
      PROVE  Work' < Work
  <2>1. /\ queue # <<>> /\ queue' = Tail(queue) /\ loop = "idle"
        /\ UNCHANGED overflowed
    BY <1>3 DEF Take
  <2>2. Len(queue) \in Nat /\ Len(queue) > 0 /\ Len(queue') = Len(queue) - 1
    BY <2>1 DEF TypeOK
  <2>3. \A m, n \in Nat : n > 0 => m * (n - 1) = m * n - m
    OBVIOUS
  <2>4. QueueWork' = QueueWork - (Cardinality(Target) + 3)
    <3>1. Cardinality(Target) + 3 \in Nat
      BY TargetIsFinite
    <3> QED
      BY <2>2, <2>3, <3>1 DEF QueueWork, Target
  <2>5. OverflowWork' = OverflowWork
    BY <2>1 DEF OverflowWork
  <2>6. Stage = 0 /\ Stage' <= Cardinality(Target) + 2
    <3>1. Cardinality(Target)' = Cardinality(Target)
      BY DEF Target
    <3> QED
      BY <2>1, <3>1, WorkTypesNext DEF WorkIsSum, Stage
  <2> QED
    BY <2>4, <2>5, <2>6, WorkTypes, WorkTypesNext DEF WorkIsSum
<1>4. ASSUME NEW t \in Target, StartFails(t)
      PROVE  Work' < Work
  <2>1. /\ t \in pending /\ loop = "starting"
        /\ loop' = "unstarted" /\ queue' = <<>> /\ overflowed' = FALSE
    BY <1>4 DEF StartFails, IsNext
  <2>2. Stage > 0 /\ Stage' = 0
    BY <2>1, ListsAreFinite DEF Stage, TypeOK
  <2>3. QueueWork' = 0 /\ OverflowWork' = 0
    <3>1. \A m \in Nat : m * 0 = 0
      OBVIOUS
    <3>2. Cardinality(Target) + 3 \in Nat
      BY TargetIsFinite
    <3> QED
      BY <2>1, <3>1, <3>2 DEF QueueWork, OverflowWork, Target
  <2> QED
    BY <2>2, <2>3, WorkTypes, WorkTypesNext DEF WorkIsSum
<1> QED
  BY <1>1, <1>2, <1>3, <1>4 DEF Process, Failures

(* While the tree rests, the process takes at most Work steps: registering *)
(* watches makes no work for itself, whatever fails or is cancelled.       *)
THEOREM WorkRunsOutCorrect == Spec => [](Work \in Nat) /\ WorkRunsOut
<1>1. TypeOK => Work \in Nat
  BY WorkTypes DEF WorkIsSum
<1>2. IInv /\ IInv' /\ [Next]_vars => [WorkGoesDown]_vars
  <2>1. IInv /\ IInv' => TypeOK /\ TypeOK'
    BY DEF IInv
  <2> QED
    BY <2>1, ProcessWorks DEF Next, WorkGoesDown
<1> QED
  BY <1>1, <1>2, TypeCorrect, IInvCorrect, PTL DEF Spec, WorkRunsOut

(* When nothing is left to do, the watch set is at rest; and then every    *)
(* relevant directory is watched but for the losses the model records.     *)
THEOREM RestIsComplete ==
  Spec => [](/\ Work = 0 => loop = "unstarted" \/ AtRest
             /\ AtRest => \A d \in Relevant \ kernel : GivenUp(d) \/ rulesLost)
<1>1. IInv /\ Work = 0 => loop = "unstarted" \/ AtRest
  <2> SUFFICES ASSUME IInv, Work = 0, loop # "unstarted"
               PROVE  AtRest
    OBVIOUS
  <2>1. TypeOK
    BY DEF IInv
  <2>2. QueueWork = 0 /\ OverflowWork = 0 /\ Stage = 0 /\ Cardinality(Target) \in Nat
    BY <2>1, WorkTypes DEF WorkIsSum
  <2>3. queue = <<>>
    <3>1. \A m, n \in Nat : (m + 3) * n = 0 => n = 0
      OBVIOUS
    <3>2. Len(queue) \in Nat /\ Len(queue) = 0
      BY <2>1, <2>2, <3>1 DEF QueueWork, TypeOK
    <3> QED
      BY <2>1, <3>2 DEF TypeOK
  <2>4. ~overflowed
    BY <2>2 DEF OverflowWork
  <2>5. loop = "idle"
    <3>1. Cardinality(pending) \in Nat /\ (pending # {} => Cardinality(pending) > 0)
      BY <2>1, ListsAreFinite, TargetIsFinite DEF TypeOK
    <3>2. loop \in {"starting", "register"} => pending # {}
      BY DEF IInv, ListingInv
    <3> QED
      BY <2>1, <2>2, <3>1, <3>2 DEF Stage, TypeOK, Location
  <2> QED
    BY <2>3, <2>4, <2>5 DEF AtRest
<1>2. IInv /\ AtRest /\ Covered => \A d \in Relevant \ kernel : GivenUp(d) \/ rulesLost
  <2> SUFFICES ASSUME IInv, AtRest, Covered, NEW d \in Relevant \ kernel
               PROVE  GivenUp(d) \/ rulesLost
    OBVIOUS
  <2>1. ~Due(d)
    BY DEF AtRest, Due, RelistingDue, Awaits, IInv, ListingInv
  <2> QED
    BY <2>1 DEF Covered
<1> QED
  BY <1>1, <1>2, IInvCorrect, CoveredCorrect, PTL

=============================================================================
