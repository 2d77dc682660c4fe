-------------------------------- MODULE Watch --------------------------------
(***************************************************************************)
(* The event path of gitseer, from a change of the repository to the       *)
(* snapshot that shows it: the notify backend, the callback that enqueues  *)
(* events for the serve loop (watch.rs), and the loop that classifies,     *)
(* debounces, drains and refreshes (watch.rs, and the branch of main.rs    *)
(* that runs while a watcher is active).                                   *)
(*                                                                         *)
(* Four actors interleave: the processes that write the repository, the    *)
(* backend's thread, the serve loop, and the client on stdin.  Snapshots   *)
(* are abstracted to the set of domains in which they may differ from the  *)
(* repository; a change makes the domains it touches stale and a read      *)
(* makes a domain fresh.                                                   *)
(***************************************************************************)
EXTENDS Plans, Sequences

CONSTANTS
  Event,                     \* the kinds of mutating event
  Rescan,                    \* the event with the rescan flag
  Touches,                   \* the domains an event's change alters
  PlanOf,                    \* refresh_plan_for_event
  MaySuspend,                \* events whose watch update may await a task
  Line,                      \* the requests the client may send
  MAX_PENDING_WATCH_EVENTS,
  MAX_DEBOUNCE_DRAIN_EVENTS,
  BackendCapacity            \* events the kernel keeps before it overflows

Request == {"subscribe", "unsubscribe", "refresh", "other", "eof"}

ASSUME LineAssumption == Line \subseteq Request

ASSUME CapacityAssumption ==
  /\ MAX_PENDING_WATCH_EVENTS \in Nat \ {0}
  /\ MAX_DEBOUNCE_DRAIN_EVENTS \in Nat \ {0}
  /\ BackendCapacity \in Nat \ {0}

ASSUME EventAssumption ==
  /\ Rescan \in Event
  /\ Touches \in [Event -> SUBSET RefreshDomain]
  /\ PlanOf \in [Event -> RefreshPlan]
  /\ MaySuspend \subseteq Event

(* The upstream section is read for the branch in the snapshot's head, so  *)
(* it is out of date as soon as the head is.                               *)
HeadWithUpstream(domains) == "Head" \in domains => "Upstream" \in domains

(* What the loop needs of the classifier: a plan reads again all that the  *)
(* change touched, and the upstream wherever it reads the head.            *)
ASSUME ClassifierAssumption ==
  /\ "Upstream" \in RefreshDomain
  /\ PlanOf[Rescan] = FullPlan
  /\ \A e \in Event : /\ Touches[e] \subseteq Refreshed(PlanOf[e])
                      /\ HeadWithUpstream(Touches[e])
                      /\ HeadWithUpstream(Refreshed(PlanOf[e]))

VARIABLES
  backend,           \* events the callback has not been given yet
  callback,          \* "idle", or "full" between a failed try_send and the store
  queue,             \* the channel between callback and loop
  queue_overflowed,  \* RepositoryWatcher::queue_overflowed
  loop,              \* where the serve loop is
  plan,              \* the plan of the event in hand
  drained,           \* events taken by the drain of this turn
  reader,            \* who reads: a watched refresh or a request
  unread,            \* domains the read under way has still to read
  building,          \* domains that may be stale in the snapshot it builds
  stale,             \* domains that may be stale in latest_snapshot
  subscribed,        \* ProcessState::subscribed
  line,              \* the line waiting on stdin, or "none"
  missed             \* history: stale domains whose event was discarded

eventVars == <<backend, callback, queue, queue_overflowed>>
turnVars  == <<plan, drained>>
readVars  == <<reader, unread, building>>
vars == <<eventVars, loop, turnVars, readVars, stale, subscribed, line, missed>>

Location ==
  {"select", "recv", "updating", "debounce", "drain", "check", "read", "stopped"}

TypeOK ==
  /\ backend \in Seq(Event)
  /\ callback \in {"idle", "full"}
  /\ queue \in Seq(Event) /\ Len(queue) <= MAX_PENDING_WATCH_EVENTS
  /\ queue_overflowed \in BOOLEAN
  /\ loop \in Location
  /\ plan \in RefreshPlan
  /\ drained \in 0..MAX_DEBOUNCE_DRAIN_EVENTS
  /\ loop = "drain" => drained < MAX_DEBOUNCE_DRAIN_EVENTS
  /\ reader \in {"watch", "request"}
  /\ unread \subseteq RefreshDomain
  /\ building \subseteq RefreshDomain
  /\ stale \subseteq RefreshDomain
  /\ subscribed \in BOOLEAN
  /\ line \in Request \cup {"none"}
  /\ missed \subseteq RefreshDomain

(* The watcher has just become active.  A subscribed client's snapshot is  *)
(* read in full next; an unsubscribed one has been promised nothing.       *)
Init ==
  /\ backend = <<>> /\ queue = <<>>
  /\ callback = "idle" /\ queue_overflowed = FALSE
  /\ subscribed \in BOOLEAN
  /\ loop = IF subscribed THEN "read" ELSE "select"
  /\ plan = IF subscribed THEN FullPlan ELSE NonePlan
  /\ drained = 0
  /\ reader = "watch"
  /\ unread = IF subscribed THEN RefreshDomain ELSE {}
  /\ building = unread
  /\ stale = RefreshDomain
  /\ line = "none"
  /\ missed = IF subscribed THEN {} ELSE RefreshDomain

-----------------------------------------------------------------------------
(* The repository and the backend.                                         *)

(* A change reaches the repository before its event reaches the backend's  *)
(* buffer.  A full buffer drops the event and ends in the rescan mark.     *)
(* Nothing is modelled beyond the end of the process.                      *)
Change(e) ==
  /\ loop # "stopped"
  /\ e # Rescan
  /\ stale' = stale \cup Touches[e]
  /\ building' = IF loop = "read" THEN building \cup Touches[e] ELSE building
  /\ \/ Len(backend) < BackendCapacity /\ backend' = Append(backend, e)
     \/ Len(backend) = BackendCapacity /\ backend' = Append(backend, Rescan)
     \/ Len(backend) > BackendCapacity /\ backend' = backend
  /\ UNCHANGED <<callback, queue, queue_overflowed, loop, turnVars, reader,
                 unread, subscribed, line, missed>>

(* Mutant of Enqueue: the channel has no bound.                            *)
EnqueueUnbounded ==
  /\ loop # "stopped"
  /\ callback = "idle"
  /\ backend # <<>>
  /\ backend' = Tail(backend)
  /\ queue' = Append(queue, Head(backend))
  /\ UNCHANGED <<callback, queue_overflowed, loop, turnVars, readVars, stale,
                 subscribed, line, missed>>

(* Mutant of Enqueue: the error of try_send is ignored.                    *)
EnqueueSilently ==
  /\ loop # "stopped"
  /\ callback = "idle"
  /\ backend # <<>>
  /\ backend' = Tail(backend)
  /\ queue' = IF Len(queue) < MAX_PENDING_WATCH_EVENTS
              THEN Append(queue, Head(backend)) ELSE queue
  /\ UNCHANGED <<callback, queue_overflowed, loop, turnVars, readVars, stale,
                 subscribed, line, missed>>

(* enqueue_event: try_send, and in a step of its own the flag.             *)
Enqueue ==
  /\ loop # "stopped"
  /\ callback = "idle"
  /\ backend # <<>>
  /\ backend' = Tail(backend)
  /\ IF Len(queue) < MAX_PENDING_WATCH_EVENTS
     THEN queue' = Append(queue, Head(backend)) /\ callback' = "idle"
     ELSE queue' = queue /\ callback' = "full"
  /\ UNCHANGED <<queue_overflowed, loop, turnVars, readVars, stale, subscribed,
                 line, missed>>

StoreOverflow ==
  /\ loop # "stopped"
  /\ callback = "full"
  /\ queue_overflowed' = TRUE
  /\ callback' = "idle"
  /\ UNCHANGED <<backend, queue, loop, turnVars, readVars, stale, subscribed,
                 line, missed>>

-----------------------------------------------------------------------------
(* The serve loop: one turn of its select.                                 *)

(* What the loop does with an event's plan once next_event has returned    *)
(* it: an unsubscribed process drops it, and a plan that refreshes nothing *)
(* ends the turn.                                                          *)
Dispatch(p) ==
  /\ IF subscribed /\ ShouldRefresh(p)
     THEN loop' = "debounce" /\ plan' = p
     ELSE loop' = "select" /\ plan' = NonePlan
  /\ missed' = IF subscribed THEN missed ELSE missed \cup (Refreshed(p) \cap stale)

(* Mutant of TakeOverflow: the error event has an empty plan.              *)
TakeOverflowWithoutPlan ==
  /\ loop = "select"
  /\ queue_overflowed
  /\ queue_overflowed' = FALSE
  /\ Dispatch(NonePlan)
  /\ UNCHANGED <<backend, callback, queue, drained, readVars, stale, subscribed, line>>

(* Mutant of TakeOverflow: the flag is loaded and not swapped.             *)
TakeOverflowLoaded ==
  /\ loop = "select"
  /\ queue_overflowed
  /\ Dispatch(FullPlan)
  /\ UNCHANGED <<eventVars, drained, readVars, stale, subscribed, line>>

(* next_event, first poll: a recorded overflow is an error event.          *)
TakeOverflow ==
  /\ loop = "select"
  /\ queue_overflowed
  /\ queue_overflowed' = FALSE
  /\ Dispatch(FullPlan)
  /\ UNCHANGED <<backend, callback, queue, drained, readVars, stale, subscribed, line>>

(* next_event, first poll: nothing to report, so it waits for the channel. *)
Park ==
  /\ loop = "select"
  /\ ~queue_overflowed
  /\ queue = <<>>
  /\ loop' = "recv"
  /\ UNCHANGED <<eventVars, turnVars, readVars, stale, subscribed, line, missed>>

(* next_event takes an event and updates the watches for it.  The update   *)
(* may have to wait for a blocking task.                                   *)
Receive ==
  /\ \/ loop = "select" /\ ~queue_overflowed
     \/ loop = "recv"
  /\ queue # <<>>
  /\ queue' = Tail(queue)
  /\ \/ Dispatch(PlanOf[Head(queue)])
     \/ /\ Head(queue) \in MaySuspend
        /\ plan' = PlanOf[Head(queue)]
        /\ loop' = "updating"
        /\ UNCHANGED missed
  /\ UNCHANGED <<backend, callback, queue_overflowed, drained, readVars, stale,
                 subscribed, line>>

FinishUpdate ==
  /\ loop = "updating"
  /\ Dispatch(plan)
  /\ UNCHANGED <<eventVars, drained, readVars, stale, subscribed, line>>

(* refresh_repository_with_plan starts to read.  What is not read yet      *)
(* counts as stale.                                                        *)
StartRead(p, who) ==
  /\ loop' = "read"
  /\ plan' = p
  /\ reader' = who
  /\ unread' = Refreshed(p)
  /\ building' = stale \cup Refreshed(p)
  /\ drained' = 0

(* The locals of a turn end with it.                                       *)
EndTurn(location) ==
  /\ loop' = location
  /\ plan' = NonePlan
  /\ reader' = "watch"
  /\ unread' = {}
  /\ building' = {}
  /\ UNCHANGED drained

(* debounce_plan wakes up; drain_pending_plan gives way to an overflow.    *)
Debounced ==
  /\ loop = "debounce"
  /\ IF queue_overflowed
     THEN StartRead(FullPlan, "watch")
     ELSE loop' = "drain" /\ drained' = 0 /\ UNCHANGED <<plan, readVars>>
  /\ queue_overflowed' = FALSE
  /\ UNCHANGED <<backend, callback, queue, stale, subscribed,
                 line, missed>>

(* Mutant of Drain: a drained event's plan is not combined.                *)
DrainForgetting ==
  /\ loop = "drain"
  /\ queue # <<>>
  /\ queue' = Tail(queue)
  /\ drained' = drained + 1
  /\ loop' = IF drained' >= MAX_DEBOUNCE_DRAIN_EVENTS THEN "check" ELSE "drain"
  /\ UNCHANGED <<backend, callback, queue_overflowed, plan, readVars, stale,
                 subscribed, line, missed>>

(* Mutant of Drain: the drained events are not counted.                    *)
DrainUncounted ==
  /\ loop = "drain"
  /\ queue # <<>>
  /\ queue' = Tail(queue)
  /\ plan' = Combine(plan, PlanOf[Head(queue)])
  /\ UNCHANGED <<backend, callback, queue_overflowed, loop, drained, readVars,
                 stale, subscribed, line, missed>>

Drain ==
  /\ loop = "drain"
  /\ queue # <<>>
  /\ queue' = Tail(queue)
  /\ plan' = Combine(plan, PlanOf[Head(queue)])
  /\ drained' = drained + 1
  /\ loop' = IF drained' >= MAX_DEBOUNCE_DRAIN_EVENTS THEN "check" ELSE "drain"
  /\ UNCHANGED <<backend, callback, queue_overflowed, readVars, stale,
                 subscribed, line, missed>>

DrainedAll ==
  /\ loop = "drain"
  /\ queue = <<>>
  /\ loop' = "check"
  /\ UNCHANGED <<eventVars, turnVars, readVars, stale, subscribed, line, missed>>

Check ==
  /\ loop = "check"
  /\ StartRead(IF queue_overflowed THEN FullPlan ELSE plan, "watch")
  /\ queue_overflowed' = FALSE
  /\ UNCHANGED <<backend, callback, queue, stale, subscribed,
                 line, missed>>

(* Mutant of ReadDomain: the sections are read in any order.               *)
ReadDomainUnordered(d) ==
  /\ loop = "read"
  /\ d \in unread
  /\ unread' = unread \ {d}
  /\ building' = IF d = "Upstream" /\ "Head" \in building
                 THEN building ELSE building \ {d}
  /\ UNCHANGED <<eventVars, loop, turnVars, reader, stale, subscribed,
                 line, missed>>

(* One section is read, in the order of the code.  The upstream is read    *)
(* for the head of the snapshot being built.                               *)
ReadDomain(d) ==
  /\ loop = "read"
  /\ d \in unread
  /\ \A other \in unread : Position[d] <= Position[other]
  /\ unread' = unread \ {d}
  /\ building' = IF d = "Upstream" /\ "Head" \in building
                 THEN building ELSE building \ {d}
  /\ UNCHANGED <<eventVars, loop, turnVars, reader, stale, subscribed,
                 line, missed>>

FinishRead ==
  /\ loop = "read"
  /\ unread = {}
  /\ stale' = building
  /\ missed' = missed \cap building
  /\ EndTurn("select")
  /\ UNCHANGED <<eventVars, subscribed, line>>

(* A section cannot be read.  A request answers with an error and keeps    *)
(* the snapshot it had; a watched refresh ends the process.                *)
ReadFails ==
  /\ loop = "read"
  /\ unread # {}
  /\ EndTurn(IF reader = "request" THEN "select" ELSE "stopped")
  /\ UNCHANGED <<eventVars, stale, subscribed, line, missed>>

-----------------------------------------------------------------------------
(* The client.                                                             *)

SendLine ==
  /\ loop # "stopped"
  /\ line = "none"
  /\ line' \in Line
  /\ UNCHANGED <<eventVars, loop, turnVars, readVars, stale, subscribed, missed>>

(* The select takes a line whenever the event branch is still pending, and *)
(* drops that branch: an event next_event had already taken is gone.       *)
HandleLine ==
  /\ loop \in {"select", "recv", "updating"}
  /\ line # "none"
  /\ line' = "none"
  /\ missed' = IF loop = "updating"
               THEN missed \cup (Refreshed(plan) \cap stale) ELSE missed
  /\ subscribed' = \/ line = "subscribe"
                   \/ subscribed /\ line # "unsubscribe"
  /\ IF line \in {"subscribe", "refresh"}
     THEN StartRead(FullPlan, "request")
     ELSE EndTurn(IF line = "eof" THEN "stopped" ELSE "select")
  /\ UNCHANGED <<eventVars, stale>>

-----------------------------------------------------------------------------

Backend == Enqueue \/ StoreOverflow

Loop ==
  \/ TakeOverflow \/ Park \/ Receive \/ FinishUpdate
  \/ Debounced \/ Drain \/ DrainedAll \/ Check
  \/ \E d \in RefreshDomain : ReadDomain(d)
  \/ FinishRead

WriteRepository == \E e \in Event : Change(e)

Next ==
  \/ WriteRepository \/ Backend \/ Loop \/ ReadFails \/ SendLine \/ HandleLine

Spec == Init /\ [][Next]_vars

(* Threads and tasks run; a blocking task ends; and a select that finds a  *)
(* line ready again and again takes it, for it polls its branches in       *)
(* random order.                                                           *)
Fairness == WF_vars(Backend) /\ WF_vars(Loop) /\ SF_vars(HandleLine)

FairSpec == Spec /\ Fairness

-----------------------------------------------------------------------------
(* Properties.                                                             *)

DomainsOf(events) == UNION {Refreshed(PlanOf[events[i]]) : i \in DOMAIN events}

(* Domains some queued event, or the mark of a dropped one, will have read *)
(* again.                                                                  *)
Queued ==
  DomainsOf(backend) \cup DomainsOf(queue)
    \cup IF queue_overflowed \/ callback = "full" THEN RefreshDomain ELSE {}

(* Domains the watched refresh being prepared or read will read.           *)
InHand ==
  IF \/ loop \in {"updating", "debounce", "drain", "check"}
     \/ loop = "read" /\ reader = "watch"
  THEN Refreshed(plan) ELSE {}

(* No event is forgotten on its way through buffers, queue, flag, debounce *)
(* and reads: whatever is stale in the latest snapshot will be read again, *)
(* unless its event was discarded while unsubscribed or by the select.     *)
NothingForgotten == loop # "stopped" => stale \subseteq Queued \cup InHand \cup missed

(* The same while a snapshot is read and the repository changes under the  *)
(* reader: a section read before the change, or an upstream read for a     *)
(* head that has moved, is owed a later refresh.                           *)
ReadsAreCovered ==
  loop = "read" => building \subseteq unread \cup Queued \cup missed

(* A refresh repairs what it reads, also what was discarded before: a      *)
(* section of the plan that is stale after its read has changed meanwhile, *)
(* and an event for it waits.  So a full read, of a request, an overflow   *)
(* or a rescan, leaves nothing discarded behind; only the upstream depends *)
(* on a section that a smaller plan may leave out.                         *)
ReadRepairs ==
  loop = "read" =>
    building \cap Refreshed(plan) \subseteq
      unread \cup Queued \cup (IF "Head" \in Refreshed(plan) THEN {} ELSE {"Upstream"})

(* A snapshot only gets better: no step but a change of the repository     *)
(* makes a section stale, although the snapshot that replaces the latest   *)
(* one was read while the repository moved, from a plan that may leave out *)
(* the head for which its upstream is read.                                *)
NoneGoesStale == stale' \subseteq stale \/ WriteRepository

RefreshesHelp == [][NoneGoesStale]_vars

(* Once the repository stays as it is, the latest snapshot becomes up to   *)
(* date in all that was not discarded, unless the process stopped or the   *)
(* loop waits for an event with an overflow recorded behind its back.      *)
AtRest == backend = <<>> /\ callback = "idle" /\ queue = <<>> /\ loop = "recv"

Stranded == loop = "recv" /\ queue = <<>> /\ queue_overflowed

Converges ==
  <>[][~WriteRepository]_vars =>
    <>[](stale \subseteq missed \/ loop = "stopped" \/ Stranded)

(* drain_pending_plan: "Avoid self-sustaining metadata event storms."      *)
(* However fast events arrive, a line on stdin is served.                  *)
LineIsServed == (line # "none") ~> (line = "none" \/ loop = "stopped")

(* How many steps the loop can take before it needs another event: what is *)
(* left of the turn, down to the wait for the channel.                     *)
Turn == {"debounce", "drain", "check", "read"}

TurnLength == Cardinality(RefreshDomain) + MAX_DEBOUNCE_DRAIN_EVENTS + 5

Distance ==
  CASE loop = "updating" -> TurnLength
    [] loop = "debounce" -> TurnLength - 1
    [] loop = "drain"    -> TurnLength - 2 - drained
    [] loop = "check"    -> Cardinality(RefreshDomain) + 3
    [] loop = "read"     -> Cardinality(unread) + 2
    [] loop = "select"   -> 1
    [] OTHER             -> 0

(* drain_pending_plan stops after MAX_DEBOUNCE_DRAIN_EVENTS events.  Once  *)
(* the loop has left its select, each of its steps brings the next select  *)
(* nearer, and nobody else's step, however many events arrive in the       *)
(* meantime, moves it away: a line on stdin waits for TurnLength steps.    *)
TurnNearsItsEnd ==
  loop \in Turn => Distance' < Distance \/ (Distance' = Distance /\ ~Loop)

TurnsEnd == [][TurnNearsItsEnd]_vars

(* What is left to do for the events there are.  An event costs a turn,    *)
(* and one that is further from the loop costs the steps in between.       *)
Work ==
  (TurnLength + 3) * Len(backend) + (TurnLength + 1) * Len(queue)
    + (IF callback = "full" THEN TurnLength + 2 ELSE 0)
    + (IF queue_overflowed THEN TurnLength + 1 ELSE 0)
    + Distance

(* gitseer does not feed itself: but for changes of the repository and the *)
(* lines of the client every step works off some of what is left to do.    *)
(* So the event path is at rest Work steps after the last of these.        *)
WorkRunsOut == [][WriteRepository \/ SendLine \/ HandleLine \/ Work' < Work]_vars

(* README, Stream Contract: "Once a baseline exists, automatic watched     *)
(* updates produce gitseer/delta notifications."  If so, a subscribed      *)
(* process never discards the event of a stale section.                    *)
NothingMissed == subscribed => missed = {}

(* README, Stream Contract: "Watcher overflow or rescan recovery reads a   *)
(* full repository snapshot."  If so, an overflow recorded while the       *)
(* snapshot of a subscribed process is stale is taken, unless the snapshot *)
(* is brought up to date before.                                           *)
OverflowRecovers ==
  (queue_overflowed /\ subscribed /\ stale # {})
    ~> (~queue_overflowed \/ stale = {} \/ loop = "stopped")

=============================================================================
