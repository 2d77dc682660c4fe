----------------------------- MODULE WatchProofs -----------------------------
(***************************************************************************)
(* The event path keeps its types and forgets no event, for every kind of  *)
(* event, every capacity and every drain budget.                           *)
(***************************************************************************)
EXTENDS Watch, PlansProofs, FiniteSetTheorems

-----------------------------------------------------------------------------
(* Facts about the data.                                                   *)

(* FullPlan and NonePlan are plans; the one reads every domain, the other  *)
(* none.                                                                   *)
LEMMA PlanFacts ==
  /\ FullPlan \in RefreshPlan /\ Refreshed(FullPlan) = RefreshDomain
  /\ NonePlan \in RefreshPlan /\ Refreshed(NonePlan) = {}
  /\ ShouldRefresh(FullPlan)
  /\ \A p \in RefreshPlan : ~ShouldRefresh(p) => Refreshed(p) = {}
BY DEF FullPlan, NonePlan, RefreshPlan, Refreshed, ShouldRefresh

(* Every event has a plan, and the plan covers what the event touches.     *)
LEMMA EventFacts ==
  ASSUME NEW e \in Event
  PROVE  /\ PlanOf[e] \in RefreshPlan
         /\ Touches[e] \subseteq RefreshDomain
         /\ Touches[e] \subseteq Refreshed(PlanOf[e])
         /\ HeadWithUpstream(Touches[e])
         /\ HeadWithUpstream(Refreshed(PlanOf[e]))
BY EventAssumption, ClassifierAssumption

(* What is queued behind an event stays queued when it is taken.           *)
LEMMA DomainsOfTail ==
  ASSUME NEW events \in Seq(Event), events # <<>>
  PROVE  /\ Head(events) \in Event
         /\ Tail(events) \in Seq(Event)
         /\ Len(Tail(events)) = Len(events) - 1
         /\ DomainsOf(events) =
              Refreshed(PlanOf[Head(events)]) \cup DomainsOf(Tail(events))
<1>1. /\ Head(events) \in Event
      /\ Head(events) = events[1]
      /\ Tail(events) \in Seq(Event)
      /\ Len(Tail(events)) = Len(events) - 1
      /\ Len(events) \in Nat \ {0}
      /\ DOMAIN events = 1..Len(events)
      /\ DOMAIN Tail(events) = 1..(Len(events) - 1)
      /\ \A i \in 1..(Len(events) - 1) : Tail(events)[i] = events[i + 1]
  OBVIOUS
<1>2. ASSUME NEW d \in DomainsOf(events)
      PROVE  d \in Refreshed(PlanOf[Head(events)]) \cup DomainsOf(Tail(events))
  <2>1. PICK i \in 1..Len(events) : d \in Refreshed(PlanOf[events[i]])
    BY <1>1, <1>2 DEF DomainsOf
  <2>2. CASE i = 1
    BY <1>1, <2>1, <2>2
  <2>3. CASE i # 1
    <3>1. i - 1 \in 1..(Len(events) - 1) /\ Tail(events)[i - 1] = events[i]
      BY <1>1, <2>3
    <3> QED
      BY <1>1, <2>1, <3>1 DEF DomainsOf
  <2> QED
    BY <2>2, <2>3
<1>3. Refreshed(PlanOf[Head(events)]) \subseteq DomainsOf(events)
  <2>1. 1 \in DOMAIN events
    BY <1>1
  <2> QED
    BY <1>1, <2>1 DEF DomainsOf
<1>4. ASSUME NEW d \in DomainsOf(Tail(events))
      PROVE  d \in DomainsOf(events)
  <2>1. PICK i \in 1..(Len(events) - 1) : d \in Refreshed(PlanOf[Tail(events)[i]])
    BY <1>1, <1>4 DEF DomainsOf
  <2>2. i + 1 \in DOMAIN events /\ Tail(events)[i] = events[i + 1]
    BY <1>1
  <2> QED
    BY <2>1, <2>2 DEF DomainsOf
<1> QED
  BY <1>1, <1>2, <1>3, <1>4

(* An appended event is queued, and what was queued stays queued.          *)
LEMMA DomainsOfAppend ==
  ASSUME NEW events \in Seq(Event), NEW e \in Event
  PROVE  /\ Append(events, e) \in Seq(Event)
         /\ Len(Append(events, e)) = Len(events) + 1
         /\ Append(events, e)[Len(events) + 1] = e
         /\ DomainsOf(Append(events, e)) =
              DomainsOf(events) \cup Refreshed(PlanOf[e])
<1> DEFINE longer == Append(events, e)
<1>1. /\ longer \in Seq(Event)
      /\ Len(longer) = Len(events) + 1
      /\ longer[Len(events) + 1] = e
      /\ Len(events) \in Nat
      /\ DOMAIN events = 1..Len(events)
      /\ DOMAIN longer = 1..(Len(events) + 1)
      /\ \A i \in 1..Len(events) : longer[i] = events[i]
  OBVIOUS
<1>2. ASSUME NEW d \in DomainsOf(longer)
      PROVE  d \in DomainsOf(events) \cup Refreshed(PlanOf[e])
  <2>1. PICK i \in 1..(Len(events) + 1) : d \in Refreshed(PlanOf[longer[i]])
    BY <1>1, <1>2 DEF DomainsOf
  <2>2. CASE i \in 1..Len(events)
    BY <1>1, <2>1, <2>2 DEF DomainsOf
  <2>3. CASE i = Len(events) + 1
    BY <1>1, <2>1, <2>3
  <2> QED
    BY <1>1, <2>2, <2>3
<1>3. DomainsOf(events) \subseteq DomainsOf(longer)
  <2> SUFFICES ASSUME NEW d \in DomainsOf(events)
               PROVE  d \in DomainsOf(longer)
    OBVIOUS
  <2>1. PICK i \in 1..Len(events) : d \in Refreshed(PlanOf[events[i]])
    BY <1>1 DEF DomainsOf
  <2>2. i \in DOMAIN longer /\ longer[i] = events[i]
    BY <1>1
  <2> HIDE DEF longer
  <2> QED
    BY <2>1, <2>2 DEF DomainsOf
<1>4. Refreshed(PlanOf[e]) \subseteq DomainsOf(longer)
  <2>1. Len(events) + 1 \in DOMAIN longer
    BY <1>1
  <2> HIDE DEF longer
  <2> QED
    BY <1>1, <2>1 DEF DomainsOf
<1> QED
  BY <1>1, <1>2, <1>3, <1>4

(* Whatever is queued, the upstream is queued with the head.               *)
LEMMA DomainsOfClosed ==
  ASSUME NEW events \in Seq(Event)
  PROVE  HeadWithUpstream(DomainsOf(events)) /\ DomainsOf(events) \subseteq RefreshDomain
<1>1. \A i \in DOMAIN events : events[i] \in Event
  OBVIOUS
<1>2. \A i \in DOMAIN events :
        /\ HeadWithUpstream(Refreshed(PlanOf[events[i]]))
        /\ Refreshed(PlanOf[events[i]]) \subseteq RefreshDomain
  BY <1>1, EventFacts, RefreshedType
<1> QED
  BY <1>2 DEF DomainsOf, HeadWithUpstream

-----------------------------------------------------------------------------
(* The inductive invariant.                                                *)

(* A backend that has overflowed ends in the rescan mark.                  *)
BackendMark ==
  /\ Len(backend) <= BackendCapacity + 1
  /\ Len(backend) > BackendCapacity => backend[Len(backend)] = Rescan

(* The upstream is never believed fresher than the head it was read for.   *)
UpstreamFollowsHead ==
  /\ HeadWithUpstream(stale)
  /\ HeadWithUpstream(building)
  /\ HeadWithUpstream(missed)
  /\ HeadWithUpstream(Refreshed(plan))

Inv ==
  /\ TypeOK
  /\ BackendMark
  /\ UpstreamFollowsHead
  /\ NothingForgotten
  /\ ReadsAreCovered

-----------------------------------------------------------------------------
(* Type correctness.                                                       *)

LEMMA InitTypeOK == Init => TypeOK
<1> SUFFICES ASSUME Init
             PROVE  TypeOK
  OBVIOUS
<1>1. <<>> \in Seq(Event) /\ Len(<<>>) = 0
  OBVIOUS
<1>2. loop \in {"read", "select"} /\ plan \in RefreshPlan
  BY PlanFacts DEF Init
<1>3. Len(queue) <= MAX_PENDING_WATCH_EVENTS
  BY <1>1, CapacityAssumption DEF Init
<1>4. 0 \in 0..MAX_DEBOUNCE_DRAIN_EVENTS
  BY CapacityAssumption
<1> QED
  BY <1>1, <1>2, <1>3, <1>4 DEF Init, TypeOK, Location, Request

(* Starting a read, ending a turn and dispatching an event leave the       *)
(* variables they set well typed.                                          *)
LEMMA TurnTypes ==
  ASSUME TypeOK
  PROVE  /\ \A p \in RefreshPlan, who \in {"watch", "request"} :
              StartRead(p, who) =>
                /\ loop' \in Location \ {"drain"} /\ plan' \in RefreshPlan
                /\ reader' \in {"watch", "request"}
                /\ unread' \subseteq RefreshDomain
                /\ building' \subseteq RefreshDomain
                /\ drained' \in 0..MAX_DEBOUNCE_DRAIN_EVENTS
         /\ \A location \in Location \ {"drain"} :
              EndTurn(location) =>
                /\ loop' \in Location \ {"drain"} /\ plan' \in RefreshPlan
                /\ reader' \in {"watch", "request"}
                /\ unread' \subseteq RefreshDomain
                /\ building' \subseteq RefreshDomain
                /\ drained' \in 0..MAX_DEBOUNCE_DRAIN_EVENTS
         /\ \A p \in RefreshPlan :
              Dispatch(p) =>
                /\ loop' \in Location \ {"drain"} /\ plan' \in RefreshPlan
                /\ missed' \subseteq RefreshDomain
<1>1. ASSUME NEW p \in RefreshPlan, NEW who \in {"watch", "request"}, StartRead(p, who)
      PROVE  /\ loop' \in Location \ {"drain"} /\ plan' \in RefreshPlan
             /\ reader' \in {"watch", "request"}
             /\ unread' \subseteq RefreshDomain
             /\ building' \subseteq RefreshDomain
             /\ drained' \in 0..MAX_DEBOUNCE_DRAIN_EVENTS
  BY <1>1, RefreshedType, CapacityAssumption DEF TypeOK, StartRead, Location
<1>2. ASSUME NEW location \in Location \ {"drain"}, EndTurn(location)
      PROVE  /\ loop' \in Location \ {"drain"} /\ plan' \in RefreshPlan
             /\ reader' \in {"watch", "request"}
             /\ unread' \subseteq RefreshDomain
             /\ building' \subseteq RefreshDomain
             /\ drained' \in 0..MAX_DEBOUNCE_DRAIN_EVENTS
  BY <1>2, PlanFacts DEF TypeOK, EndTurn
<1>3. ASSUME NEW p \in RefreshPlan, Dispatch(p)
      PROVE  /\ loop' \in Location \ {"drain"} /\ plan' \in RefreshPlan
             /\ missed' \subseteq RefreshDomain
  BY <1>3, PlanFacts DEF TypeOK, Dispatch, Location
<1> QED
  BY <1>1, <1>2, <1>3

LEMMA NextTypeOK == TypeOK /\ [Next]_vars => TypeOK'
<1> SUFFICES ASSUME TypeOK, [Next]_vars
             PROVE  TypeOK'
  OBVIOUS
<1> USE CapacityAssumption
<1>1. ASSUME NEW e \in Event, Change(e)
      PROVE  TypeOK'
  <2>1. Append(backend, e) \in Seq(Event) /\ Append(backend, Rescan) \in Seq(Event)
    BY EventAssumption DEF TypeOK
  <2> QED
    BY <1>1, <2>1, EventFacts DEF TypeOK, Change, turnVars
<1>2. CASE Enqueue
  <2>1. Tail(backend) \in Seq(Event) /\ Head(backend) \in Event
    BY <1>2, DomainsOfTail DEF TypeOK, Enqueue
  <2>2. /\ Append(queue, Head(backend)) \in Seq(Event)
        /\ Len(Append(queue, Head(backend))) = Len(queue) + 1
        /\ Len(queue) \in Nat
    BY <2>1, DomainsOfAppend DEF TypeOK
  <2>3. queue' \in Seq(Event) /\ Len(queue') <= MAX_PENDING_WATCH_EVENTS
    <3>1. CASE Len(queue) < MAX_PENDING_WATCH_EVENTS
      <4>1. queue' = Append(queue, Head(backend))
        BY <1>2, <3>1 DEF Enqueue
      <4>2. Len(queue) + 1 <= MAX_PENDING_WATCH_EVENTS
        BY <2>2, <3>1
      <4> QED
        BY <2>2, <4>1, <4>2
    <3>2. CASE ~(Len(queue) < MAX_PENDING_WATCH_EVENTS)
      BY <1>2, <3>2 DEF TypeOK, Enqueue
    <3> QED
      BY <3>1, <3>2
  <2> QED
    BY <1>2, <2>1, <2>3 DEF TypeOK, Enqueue, turnVars, readVars
<1>3. CASE StoreOverflow
  BY <1>3 DEF TypeOK, StoreOverflow, turnVars, readVars
<1>4. CASE TakeOverflow
  BY <1>4, TurnTypes, PlanFacts DEF TypeOK, TakeOverflow, readVars
<1>5. CASE Park
  BY <1>5 DEF TypeOK, Park, Location, eventVars, turnVars, readVars
<1>6. CASE Receive
  <2>1. /\ Tail(queue) \in Seq(Event) /\ Len(Tail(queue)) = Len(queue) - 1
        /\ PlanOf[Head(queue)] \in RefreshPlan
        /\ Len(queue) \in Nat
    BY <1>6, DomainsOfTail, EventFacts DEF TypeOK, Receive
  <2>2. loop' \in Location \ {"drain"} /\ plan' \in RefreshPlan /\ missed' \subseteq RefreshDomain
    BY <1>6, <2>1, TurnTypes DEF TypeOK, Receive, Location
  <2> QED
    BY <1>6, <2>1, <2>2 DEF TypeOK, Receive, readVars
<1>7. CASE FinishUpdate
  <2>1. Dispatch(plan) /\ plan \in RefreshPlan
    BY <1>7 DEF TypeOK, FinishUpdate
  <2> QED
    BY <1>7, <2>1, TurnTypes DEF TypeOK, FinishUpdate, eventVars, readVars
<1>8. CASE Debounced
  <2>1. CASE queue_overflowed
    <3>1. StartRead(FullPlan, "watch")
      BY <1>8, <2>1 DEF Debounced
    <3> QED
      BY <1>8, <3>1, TurnTypes, PlanFacts DEF TypeOK, Debounced
  <2>2. CASE ~queue_overflowed
    <3>1. loop' \in Location /\ drained' = 0 /\ UNCHANGED <<plan, reader, unread, building>>
      BY <1>8, <2>2 DEF Debounced, Location, readVars
    <3>2. 0 \in 0..MAX_DEBOUNCE_DRAIN_EVENTS /\ 0 < MAX_DEBOUNCE_DRAIN_EVENTS
      OBVIOUS
    <3> QED
      BY <1>8, <3>1, <3>2 DEF TypeOK, Debounced
  <2> QED
    BY <2>1, <2>2
<1>9. CASE Drain
  <2>1. /\ Tail(queue) \in Seq(Event) /\ Len(Tail(queue)) = Len(queue) - 1
        /\ PlanOf[Head(queue)] \in RefreshPlan
        /\ Len(queue) \in Nat
    BY <1>9, DomainsOfTail, EventFacts DEF TypeOK, Drain
  <2>2. Combine(plan, PlanOf[Head(queue)]) \in RefreshPlan
    BY <2>1, CombineType DEF TypeOK
  <2>3. /\ drained' \in 0..MAX_DEBOUNCE_DRAIN_EVENTS
        /\ loop' = "drain" => drained' < MAX_DEBOUNCE_DRAIN_EVENTS
    BY <1>9 DEF TypeOK, Drain
  <2>4. queue' \in Seq(Event) /\ Len(queue') <= MAX_PENDING_WATCH_EVENTS
    BY <1>9, <2>1 DEF TypeOK, Drain
  <2>5. loop' \in Location /\ plan' \in RefreshPlan
    BY <1>9, <2>2 DEF Drain, Location
  <2>6. UNCHANGED <<backend, callback, queue_overflowed, reader, unread, building,
                    stale, subscribed, line, missed>>
    BY <1>9 DEF Drain, readVars
  <2> QED
    BY <2>3, <2>4, <2>5, <2>6 DEF TypeOK
<1>10. CASE DrainedAll
  BY <1>10 DEF TypeOK, DrainedAll, Location, eventVars, turnVars, readVars
<1>11. CASE Check
  <2>1. PICK p \in RefreshPlan : StartRead(p, "watch")
    BY <1>11, PlanFacts DEF TypeOK, Check
  <2> QED
    BY <1>11, <2>1, TurnTypes DEF TypeOK, Check
<1>12. ASSUME NEW d \in RefreshDomain, ReadDomain(d)
       PROVE  TypeOK'
  BY <1>12 DEF TypeOK, ReadDomain, eventVars, turnVars
<1>13. CASE FinishRead
  BY <1>13, TurnTypes DEF TypeOK, FinishRead, Location, eventVars
<1>14. CASE ReadFails
  <2>1. PICK location \in Location \ {"drain"} : EndTurn(location)
    BY <1>14 DEF ReadFails, Location
  <2> QED
    BY <1>14, <2>1, TurnTypes DEF TypeOK, ReadFails, eventVars
<1>15. CASE SendLine
  BY <1>15, LineAssumption DEF TypeOK, SendLine, eventVars, turnVars, readVars
<1>16. CASE HandleLine
  <2>1. \/ StartRead(FullPlan, "request")
        \/ \E location \in Location \ {"drain"} : EndTurn(location)
    BY <1>16 DEF HandleLine, Location
  <2>2. /\ loop' \in Location \ {"drain"} /\ plan' \in RefreshPlan
        /\ reader' \in {"watch", "request"}
        /\ unread' \subseteq RefreshDomain
        /\ building' \subseteq RefreshDomain
        /\ drained' \in 0..MAX_DEBOUNCE_DRAIN_EVENTS
    BY <2>1, TurnTypes, PlanFacts
  <2> QED
    BY <1>16, <2>2 DEF TypeOK, HandleLine, eventVars
<1>17. CASE UNCHANGED vars
  BY <1>17 DEF TypeOK, vars, eventVars, turnVars, readVars
<1> QED
  BY <1>1, <1>2, <1>3, <1>4, <1>5, <1>6, <1>7, <1>8, <1>9, <1>10, <1>11, <1>12,
     <1>13, <1>14, <1>15, <1>16, <1>17
     DEF Next, WriteRepository, Backend, Loop

(* The variables of the event path keep their types; in particular the     *)
(* channel never holds more than MAX_PENDING_WATCH_EVENTS events, and a    *)
(* drain never takes more than MAX_DEBOUNCE_DRAIN_EVENTS.                  *)
THEOREM TypeCorrect == Spec => []TypeOK
<1>1. Init => TypeOK
  BY InitTypeOK
<1>2. TypeOK /\ [Next]_vars => TypeOK'
  BY NextTypeOK
<1> QED
  BY <1>1, <1>2, PTL DEF Spec

-----------------------------------------------------------------------------
(* Coverage.                                                               *)

(* The parts of Inv besides TypeOK, as one step must preserve them.        *)
Coverage == BackendMark /\ UpstreamFollowsHead /\ NothingForgotten /\ ReadsAreCovered

LEMMA InitCoverage == Init => Coverage
<1> SUFFICES ASSUME Init
             PROVE  Coverage
  OBVIOUS
<1>1. BackendMark
  BY CapacityAssumption DEF Init, BackendMark
<1>2. UpstreamFollowsHead
  BY ClassifierAssumption, PlanFacts DEF Init, UpstreamFollowsHead, HeadWithUpstream
<1>3. NothingForgotten /\ ReadsAreCovered
  BY PlanFacts DEF Init, NothingForgotten, ReadsAreCovered, InHand
<1> QED
  BY <1>1, <1>2, <1>3 DEF Coverage

(* Everything queued is a domain, and the upstream is queued with the head.*)
LEMMA QueuedFacts ==
  ASSUME TypeOK
  PROVE  Queued \subseteq RefreshDomain /\ HeadWithUpstream(Queued)
<1>1. /\ HeadWithUpstream(DomainsOf(backend)) /\ DomainsOf(backend) \subseteq RefreshDomain
      /\ HeadWithUpstream(DomainsOf(queue)) /\ DomainsOf(queue) \subseteq RefreshDomain
  BY DomainsOfClosed DEF TypeOK
<1> QED
  BY <1>1, ClassifierAssumption DEF Queued, HeadWithUpstream

(* An event that changes hands from backend to channel stays queued.  One  *)
(* that finds the channel full leaves the callback about to store the flag.*)
LEMMA EnqueueQueued ==
  ASSUME TypeOK, Enqueue
  PROVE  Queued \subseteq Queued'
<1>1. /\ Head(backend) \in Event
      /\ backend' = Tail(backend)
      /\ DomainsOf(backend) = Refreshed(PlanOf[Head(backend)]) \cup DomainsOf(backend')
  BY DomainsOfTail DEF TypeOK, Enqueue
<1>2. CASE Len(queue) < MAX_PENDING_WATCH_EVENTS
  <2>1. queue' = Append(queue, Head(backend)) /\ callback' = "idle"
    BY <1>2 DEF Enqueue
  <2>2. DomainsOf(queue') = DomainsOf(queue) \cup Refreshed(PlanOf[Head(backend)])
    BY <1>1, <2>1, DomainsOfAppend DEF TypeOK
  <2> QED
    BY <1>1, <2>1, <2>2 DEF Queued, Enqueue
<1>3. CASE ~(Len(queue) < MAX_PENDING_WATCH_EVENTS)
  <2>1. callback' = "full"
    BY <1>3 DEF Enqueue
  <2> QED
    BY <2>1, QueuedFacts DEF Queued
<1> QED
  BY <1>2, <1>3

(* A change is queued with everything that was queued before.              *)
LEMMA ChangeQueued ==
  ASSUME TypeOK, BackendMark, NEW e \in Event, Change(e)
  PROVE  /\ Queued \cup Touches[e] \subseteq Queued'
         /\ BackendMark'
<1>1. UNCHANGED <<callback, queue, queue_overflowed>>
  BY DEF Change
<1>2. CASE Len(backend) < BackendCapacity
  <2>1. backend' = Append(backend, e)
    BY <1>2, CapacityAssumption DEF TypeOK, Change
  <2>2. /\ DomainsOf(backend') = DomainsOf(backend) \cup Refreshed(PlanOf[e])
        /\ Len(backend') = Len(backend) + 1
    BY <2>1, DomainsOfAppend DEF TypeOK
  <2>3. BackendMark'
    BY <1>2, <2>2, CapacityAssumption DEF BackendMark, TypeOK
  <2> QED
    BY <1>1, <2>2, <2>3, EventFacts DEF Queued
<1>3. CASE Len(backend) = BackendCapacity
  <2>1. backend' = Append(backend, Rescan) /\ Rescan \in Event
    BY <1>3, CapacityAssumption, EventAssumption DEF TypeOK, Change
  <2>2. /\ DomainsOf(backend') = DomainsOf(backend) \cup RefreshDomain
        /\ Len(backend') = Len(backend) + 1
        /\ backend'[Len(backend) + 1] = Rescan
    BY <2>1, DomainsOfAppend, ClassifierAssumption, PlanFacts DEF TypeOK
  <2>3. BackendMark'
    BY <1>3, <2>2, CapacityAssumption DEF BackendMark, TypeOK
  <2> QED
    BY <1>1, <2>2, <2>3, EventFacts DEF Queued
<1>4. CASE Len(backend) > BackendCapacity
  <2>1. backend' = backend
    BY <1>4, CapacityAssumption DEF TypeOK, Change
  <2>2. Len(backend) \in DOMAIN backend /\ backend[Len(backend)] = Rescan
    BY <1>4, CapacityAssumption DEF BackendMark, TypeOK
  <2>3. RefreshDomain \subseteq DomainsOf(backend)
    BY <2>2, ClassifierAssumption, PlanFacts DEF DomainsOf
  <2> QED
    BY <1>1, <2>1, <2>3, EventFacts DEF Queued, BackendMark
<1> QED
  BY <1>2, <1>3, <1>4, CapacityAssumption DEF TypeOK

(* Taking an event moves its domains from the queue into hand.             *)
LEMMA TakeQueued ==
  ASSUME TypeOK, queue # <<>>, queue' = Tail(queue),
         UNCHANGED <<backend, callback, queue_overflowed>>
  PROVE  /\ PlanOf[Head(queue)] \in RefreshPlan
         /\ HeadWithUpstream(Refreshed(PlanOf[Head(queue)]))
         /\ Queued \subseteq Queued' \cup Refreshed(PlanOf[Head(queue)])
<1>1. /\ Head(queue) \in Event
      /\ DomainsOf(queue) = Refreshed(PlanOf[Head(queue)]) \cup DomainsOf(queue')
  BY DomainsOfTail DEF TypeOK
<1> QED
  BY <1>1, EventFacts DEF Queued

(* Dispatching keeps what was in hand: it is debounced, or refreshes       *)
(* nothing, or is missed.                                                  *)
LEMMA DispatchCoverage ==
  ASSUME TypeOK, UpstreamFollowsHead,
         NEW p \in RefreshPlan, HeadWithUpstream(Refreshed(p)), Dispatch(p),
         UNCHANGED <<stale, readVars>>,
         stale \subseteq Queued' \cup Refreshed(p) \cup missed
  PROVE  UpstreamFollowsHead' /\ NothingForgotten' /\ ReadsAreCovered'
<1>1. ReadsAreCovered'
  BY DEF Dispatch, ReadsAreCovered
<1>2. HeadWithUpstream(missed')
  BY DEF Dispatch, UpstreamFollowsHead, HeadWithUpstream
<1>3. HeadWithUpstream(Refreshed(plan'))
  BY PlanFacts DEF Dispatch, HeadWithUpstream
<1>4. UpstreamFollowsHead'
  BY <1>2, <1>3 DEF UpstreamFollowsHead, readVars
<1>5. CASE subscribed /\ ShouldRefresh(p)
  <2>1. InHand' = Refreshed(p) /\ missed' = missed
    BY <1>5 DEF Dispatch, InHand
  <2> QED
    BY <1>1, <1>4, <2>1 DEF NothingForgotten
<1>6. CASE subscribed /\ ~ShouldRefresh(p)
  <2>1. Refreshed(p) = {} /\ missed' = missed
    BY <1>6, PlanFacts DEF Dispatch
  <2> QED
    BY <1>1, <1>4, <2>1 DEF NothingForgotten
<1>7. CASE ~subscribed
  <2>1. missed' = missed \cup (Refreshed(p) \cap stale)
    BY <1>7 DEF Dispatch
  <2> QED
    BY <1>1, <1>4, <2>1 DEF NothingForgotten
<1> QED
  BY <1>5, <1>6, <1>7

(* A read that starts owes its unread domains, and to a watched refresh    *)
(* also everything the plan had in hand.                                   *)
LEMMA StartReadCoverage ==
  ASSUME TypeOK, UpstreamFollowsHead,
         NEW p \in RefreshPlan, HeadWithUpstream(Refreshed(p)),
         NEW who \in {"watch", "request"}, StartRead(p, who),
         stale' = stale, HeadWithUpstream(missed'),
         stale \subseteq Queued' \cup missed' \cup
                          IF who = "watch" THEN Refreshed(p) ELSE {}
  PROVE  UpstreamFollowsHead' /\ NothingForgotten' /\ ReadsAreCovered'
<1>1. /\ loop' = "read" /\ plan' = p /\ reader' = who
      /\ unread' = Refreshed(p) /\ building' = stale \cup Refreshed(p)
  BY DEF StartRead
<1>2. UpstreamFollowsHead'
  BY <1>1 DEF UpstreamFollowsHead, HeadWithUpstream
<1>3. InHand' = IF who = "watch" THEN Refreshed(p) ELSE {}
  BY <1>1 DEF InHand
<1>4. NothingForgotten'
  BY <1>1, <1>3 DEF NothingForgotten
<1>5. ReadsAreCovered'
  BY <1>1 DEF ReadsAreCovered
<1> QED
  BY <1>2, <1>4, <1>5

(* A turn may end only with everything stale queued or missed, unless the  *)
(* process stops.                                                          *)
LEMMA EndTurnCoverage ==
  ASSUME NEW location \in {"select", "stopped"}, EndTurn(location),
         HeadWithUpstream(stale'), HeadWithUpstream(missed'),
         location = "select" => stale' \subseteq Queued' \cup missed'
  PROVE  UpstreamFollowsHead' /\ NothingForgotten' /\ ReadsAreCovered'
<1>1. loop' = location /\ plan' = NonePlan /\ building' = {}
  BY DEF EndTurn
<1>2. UpstreamFollowsHead'
  BY <1>1, PlanFacts DEF UpstreamFollowsHead, HeadWithUpstream
<1>3. NothingForgotten' /\ ReadsAreCovered'
  BY <1>1 DEF NothingForgotten, ReadsAreCovered
<1> QED
  BY <1>2, <1>3

(* The section being read leaves both the unread and the stale ones; an    *)
(* upstream read for a stale head stays stale, and is owed with the head.  *)
LEMMA ReadDomainCoverage ==
  ASSUME TypeOK, Coverage, NEW d \in RefreshDomain, ReadDomain(d)
  PROVE  Coverage'
<1>1. /\ loop = "read" /\ unread' = unread \ {d}
      /\ UNCHANGED <<backend, callback, queue, queue_overflowed, loop, plan,
                     reader, stale, missed>>
  BY DEF ReadDomain, eventVars, turnVars
<1>2. Queued' = Queued /\ InHand' = InHand
  BY <1>1 DEF Queued, InHand
<1>3. BackendMark' /\ NothingForgotten'
  BY <1>1, <1>2 DEF Coverage, BackendMark, NothingForgotten
<1>4. building \subseteq unread \cup Queued \cup missed
  BY <1>1 DEF Coverage, ReadsAreCovered
<1>5. CASE d = "Upstream" /\ "Head" \in building
  <2>1. "Head" \notin unread
    BY <1>5 DEF ReadDomain, Position
  <2>2. "Head" \in Queued \cup missed
    BY <1>4, <1>5, <2>1
  <2>3. "Upstream" \in Queued \cup missed
    BY <2>2, QueuedFacts DEF Coverage, UpstreamFollowsHead, HeadWithUpstream
  <2>4. building' = building
    BY <1>5 DEF ReadDomain
  <2>5. UpstreamFollowsHead'
    BY <1>1, <2>4 DEF Coverage, UpstreamFollowsHead
  <2>6. ReadsAreCovered'
    BY <1>1, <1>2, <1>4, <1>5, <2>3, <2>4 DEF ReadsAreCovered
  <2> QED
    BY <1>3, <2>5, <2>6 DEF Coverage
<1>6. CASE ~(d = "Upstream" /\ "Head" \in building)
  <2>1. building' = building \ {d}
    BY <1>6 DEF ReadDomain
  <2>2. UpstreamFollowsHead'
    BY <1>1, <1>6, <2>1 DEF Coverage, UpstreamFollowsHead, HeadWithUpstream
  <2>3. ReadsAreCovered'
    BY <1>1, <1>2, <1>4, <2>1 DEF ReadsAreCovered
  <2> QED
    BY <1>3, <2>2, <2>3 DEF Coverage
<1> QED
  BY <1>5, <1>6

(* A line replaces the turn; an event it found in hand is missed.          *)
LEMMA HandleLineCoverage ==
  ASSUME TypeOK, Coverage, HandleLine
  PROVE  Coverage'
<1>1. UNCHANGED <<backend, callback, queue, queue_overflowed, stale>>
  BY DEF HandleLine, eventVars
<1>2. Queued' = Queued /\ BackendMark'
  BY <1>1 DEF Queued, Coverage, BackendMark
<1>3. stale \subseteq Queued \cup missed'
  <2>1. stale \subseteq Queued \cup InHand \cup missed
    BY DEF Coverage, NothingForgotten, HandleLine
  <2>2. CASE loop = "updating"
    BY <2>1, <2>2 DEF InHand, HandleLine
  <2>3. CASE loop # "updating"
    BY <2>1, <2>3 DEF InHand, HandleLine
  <2> QED
    BY <2>2, <2>3
<1>4. HeadWithUpstream(missed') /\ HeadWithUpstream(stale')
  BY <1>1 DEF HandleLine, Coverage, UpstreamFollowsHead, HeadWithUpstream
<1>5. CASE StartRead(FullPlan, "request")
  BY <1>1, <1>2, <1>3, <1>4, <1>5, StartReadCoverage, PlanFacts,
     ClassifierAssumption DEF Coverage, HeadWithUpstream
<1>6. ASSUME NEW location \in {"select", "stopped"}, EndTurn(location)
      PROVE  Coverage'
  BY <1>1, <1>2, <1>3, <1>4, <1>6, EndTurnCoverage DEF Coverage
<1> QED
  BY <1>5, <1>6 DEF HandleLine

LEMMA NextCoverage == TypeOK /\ Coverage /\ [Next]_vars => Coverage'
<1> SUFFICES ASSUME TypeOK, Coverage, [Next]_vars
             PROVE  Coverage'
  OBVIOUS
<1> USE DEF Coverage
<1>a. HeadWithUpstream(Refreshed(FullPlan))
  BY PlanFacts, ClassifierAssumption DEF HeadWithUpstream
<1>1. ASSUME NEW e \in Event, Change(e)
      PROVE  Coverage'
  <2>1. Queued \cup Touches[e] \subseteq Queued' /\ BackendMark'
    BY <1>1, ChangeQueued
  <2>2. /\ stale' = stale \cup Touches[e]
        /\ building' = IF loop = "read" THEN building \cup Touches[e] ELSE building
        /\ UNCHANGED <<loop, plan, reader, unread, missed>>
    BY <1>1 DEF Change, turnVars
  <2>3. InHand' = InHand
    BY <2>2 DEF InHand
  <2>4. NothingForgotten' /\ ReadsAreCovered'
    BY <2>1, <2>2, <2>3 DEF NothingForgotten, ReadsAreCovered
  <2>5. UpstreamFollowsHead'
    BY <2>2, EventFacts DEF UpstreamFollowsHead, HeadWithUpstream
  <2> QED
    BY <2>1, <2>4, <2>5
<1>2. CASE Enqueue
  <2>1. Queued \subseteq Queued'
    BY <1>2, EnqueueQueued
  <2>2. UNCHANGED <<loop, plan, reader, unread, building, stale, missed>>
    BY <1>2 DEF Enqueue, turnVars, readVars
  <2>3. BackendMark'
    <3>1. backend # <<>> /\ backend' = Tail(backend)
      BY <1>2 DEF Enqueue
    <3>2. /\ Len(backend') = Len(backend) - 1
          /\ Len(backend) \in Nat
      BY <3>1, DomainsOfTail DEF TypeOK
    <3> QED
      BY <3>2, CapacityAssumption DEF BackendMark
  <2>4. InHand' = InHand
    BY <2>2 DEF InHand
  <2> QED
    BY <2>1, <2>2, <2>3, <2>4 DEF UpstreamFollowsHead, NothingForgotten, ReadsAreCovered
<1>3. CASE StoreOverflow
  <2>1. Queued \subseteq Queued'
    BY <1>3, QueuedFacts DEF StoreOverflow, Queued
  <2>2. UNCHANGED <<backend, loop, plan, reader, unread, building, stale, missed>>
    BY <1>3 DEF StoreOverflow, turnVars, readVars
  <2>3. InHand' = InHand
    BY <2>2 DEF InHand
  <2> QED
    BY <2>1, <2>2, <2>3
       DEF BackendMark, UpstreamFollowsHead, NothingForgotten, ReadsAreCovered
<1>4. CASE TakeOverflow
  <2>1. Dispatch(FullPlan) /\ UNCHANGED <<backend, stale, readVars>>
    BY <1>4 DEF TakeOverflow
  <2>2. stale \subseteq Refreshed(FullPlan)
    BY PlanFacts DEF TypeOK
  <2> QED
    BY <1>a, <2>1, <2>2, PlanFacts, DispatchCoverage DEF BackendMark
<1>5. CASE Park
  <2>1. /\ loop = "select" /\ loop' = "recv"
        /\ UNCHANGED <<eventVars, plan, readVars, stale, missed>>
    BY <1>5 DEF Park, turnVars
  <2>2. Queued' = Queued /\ InHand' = {} /\ InHand = {}
    BY <2>1 DEF Queued, InHand, eventVars
  <2> QED
    BY <2>1, <2>2 DEF BackendMark, UpstreamFollowsHead, NothingForgotten,
                      ReadsAreCovered, eventVars, readVars
<1>6. CASE Receive
  <2> DEFINE p == PlanOf[Head(queue)]
  <2>1. /\ queue # <<>> /\ queue' = Tail(queue)
        /\ UNCHANGED <<backend, callback, queue_overflowed, readVars, stale>>
        /\ loop \in {"select", "recv"}
    BY <1>6 DEF Receive
  <2>2. /\ p \in RefreshPlan /\ HeadWithUpstream(Refreshed(p))
        /\ Queued \subseteq Queued' \cup Refreshed(p)
    BY <2>1, TakeQueued
  <2>3. stale \subseteq Queued' \cup Refreshed(p) \cup missed
    BY <2>1, <2>2 DEF NothingForgotten, InHand
  <2>4. CASE Dispatch(p)
    BY <2>1, <2>2, <2>3, <2>4, DispatchCoverage DEF BackendMark
  <2>5. CASE plan' = p /\ loop' = "updating" /\ missed' = missed
    <3>1. InHand' = Refreshed(p)
      BY <2>5 DEF InHand
    <3> HIDE DEF p
    <3> QED
      BY <2>1, <2>2, <2>3, <2>5, <3>1 DEF BackendMark, UpstreamFollowsHead,
         NothingForgotten, ReadsAreCovered, readVars
  <2> QED
    BY <1>6, <2>4, <2>5 DEF Receive
<1>7. CASE FinishUpdate
  <2>1. Dispatch(plan) /\ loop = "updating" /\ UNCHANGED <<eventVars, stale, readVars>>
    BY <1>7 DEF FinishUpdate
  <2>2. Queued' = Queued /\ InHand = Refreshed(plan)
    BY <2>1 DEF Queued, InHand, eventVars
  <2>3. stale \subseteq Queued' \cup Refreshed(plan) \cup missed
    BY <2>1, <2>2 DEF NothingForgotten
  <2>4. plan \in RefreshPlan /\ HeadWithUpstream(Refreshed(plan))
    BY DEF TypeOK, UpstreamFollowsHead
  <2> QED
    BY <2>1, <2>3, <2>4, DispatchCoverage DEF BackendMark, eventVars
<1>8. CASE Debounced
  <2>1. loop = "debounce" /\ UNCHANGED <<backend, callback, queue, stale, missed>>
    BY <1>8 DEF Debounced
  <2>2. CASE queue_overflowed
    <3>1. StartRead(FullPlan, "watch")
      BY <1>8, <2>2 DEF Debounced
    <3>2. stale \subseteq Refreshed(FullPlan)
      BY PlanFacts DEF TypeOK
    <3> QED
      BY <1>a, <2>1, <3>1, <3>2, PlanFacts, StartReadCoverage
         DEF BackendMark, UpstreamFollowsHead
  <2>3. CASE ~queue_overflowed
    <3>1. loop' = "drain" /\ UNCHANGED <<plan, readVars>>
      BY <1>8, <2>3 DEF Debounced
    <3>2. Queued' = Queued /\ InHand' = InHand
      BY <1>8, <2>1, <2>3, <3>1 DEF Debounced, Queued, InHand
    <3> QED
      BY <2>1, <3>1, <3>2 DEF BackendMark, UpstreamFollowsHead,
         NothingForgotten, ReadsAreCovered, readVars
  <2> QED
    BY <2>2, <2>3
<1>9. CASE Drain
  <2> DEFINE p == PlanOf[Head(queue)]
  <2>1. /\ loop = "drain" /\ queue # <<>> /\ queue' = Tail(queue)
        /\ plan' = Combine(plan, p) /\ loop' \in {"check", "drain"}
        /\ UNCHANGED <<backend, callback, queue_overflowed, readVars, stale, missed>>
    BY <1>9 DEF Drain
  <2>2. /\ p \in RefreshPlan /\ HeadWithUpstream(Refreshed(p))
        /\ Queued \subseteq Queued' \cup Refreshed(p)
    BY <2>1, TakeQueued
  <2> HIDE DEF p
  <2>3. Refreshed(plan') = Refreshed(plan) \cup Refreshed(p)
    BY <2>1, <2>2, CombineRefreshes DEF TypeOK
  <2>4. InHand = Refreshed(plan) /\ InHand' = Refreshed(plan')
    BY <2>1 DEF InHand
  <2>5. NothingForgotten' /\ ReadsAreCovered'
    BY <2>1, <2>2, <2>3, <2>4 DEF NothingForgotten, ReadsAreCovered
  <2>6. UpstreamFollowsHead'
    BY <2>1, <2>2, <2>3 DEF UpstreamFollowsHead, HeadWithUpstream, readVars
  <2> QED
    BY <2>1, <2>5, <2>6 DEF BackendMark
<1>10. CASE DrainedAll
  <2>1. /\ loop = "drain" /\ loop' = "check"
        /\ UNCHANGED <<eventVars, plan, readVars, stale, missed>>
    BY <1>10 DEF DrainedAll, turnVars
  <2>2. Queued' = Queued /\ InHand' = InHand
    BY <2>1 DEF Queued, InHand, eventVars
  <2> QED
    BY <2>1, <2>2 DEF BackendMark, UpstreamFollowsHead, NothingForgotten,
                      ReadsAreCovered, eventVars, readVars
<1>11. CASE Check
  <2>1. loop = "check" /\ UNCHANGED <<backend, callback, queue, stale, missed>>
    BY <1>11 DEF Check
  <2>2. CASE queue_overflowed
    <3>1. StartRead(FullPlan, "watch")
      BY <1>11, <2>2 DEF Check
    <3>2. stale \subseteq Refreshed(FullPlan)
      BY PlanFacts DEF TypeOK
    <3> QED
      BY <1>a, <2>1, <3>1, <3>2, PlanFacts, StartReadCoverage
         DEF BackendMark, UpstreamFollowsHead
  <2>3. CASE ~queue_overflowed
    <3>1. StartRead(plan, "watch") /\ queue_overflowed' = queue_overflowed
      BY <1>11, <2>3 DEF Check, TypeOK
    <3>2. Queued' = Queued /\ InHand = Refreshed(plan)
      BY <2>1, <3>1 DEF Queued, InHand
    <3>3. stale \subseteq Queued' \cup Refreshed(plan) \cup missed'
      BY <2>1, <3>2 DEF NothingForgotten
    <3>4. plan \in RefreshPlan /\ HeadWithUpstream(Refreshed(plan))
      BY DEF TypeOK, UpstreamFollowsHead
    <3> QED
      BY <2>1, <3>1, <3>3, <3>4, StartReadCoverage DEF BackendMark, UpstreamFollowsHead
  <2> QED
    BY <2>2, <2>3
<1>12. ASSUME NEW d \in RefreshDomain, ReadDomain(d)
       PROVE  Coverage'
  BY <1>12, ReadDomainCoverage
<1>13. CASE FinishRead
  <2>1. /\ loop = "read" /\ unread = {} /\ stale' = building
        /\ missed' = missed \cap building
        /\ EndTurn("select") /\ UNCHANGED eventVars
    BY <1>13 DEF FinishRead
  <2>2. Queued' = Queued /\ BackendMark'
    BY <2>1 DEF Queued, BackendMark, eventVars
  <2>3. stale' \subseteq Queued' \cup missed'
    BY <2>1, <2>2 DEF ReadsAreCovered
  <2>4. HeadWithUpstream(stale') /\ HeadWithUpstream(missed')
    BY <2>1 DEF UpstreamFollowsHead, HeadWithUpstream
  <2> QED
    BY <2>1, <2>2, <2>3, <2>4, EndTurnCoverage
<1>14. CASE ReadFails
  <2>1. loop = "read" /\ UNCHANGED <<eventVars, stale, missed>>
    BY <1>14 DEF ReadFails
  <2>2. Queued' = Queued /\ BackendMark'
    BY <2>1 DEF Queued, BackendMark, eventVars
  <2>3. HeadWithUpstream(stale') /\ HeadWithUpstream(missed')
    BY <2>1 DEF UpstreamFollowsHead
  <2>4. CASE reader = "request"
    <3>1. EndTurn("select")
      BY <1>14, <2>4 DEF ReadFails
    <3>2. stale' \subseteq Queued' \cup missed'
      BY <2>1, <2>2, <2>4 DEF NothingForgotten, InHand
    <3> QED
      BY <2>2, <2>3, <3>1, <3>2, EndTurnCoverage
  <2>5. CASE reader # "request"
    <3>1. EndTurn("stopped")
      BY <1>14, <2>5 DEF ReadFails
    <3> QED
      BY <2>2, <2>3, <3>1, EndTurnCoverage
  <2> QED
    BY <2>4, <2>5
<1>15. CASE SendLine
  <2>1. UNCHANGED <<eventVars, loop, turnVars, readVars, stale, missed>>
    BY <1>15 DEF SendLine
  <2>2. Queued' = Queued /\ InHand' = InHand
    BY <2>1 DEF Queued, InHand, eventVars, turnVars, readVars
  <2> QED
    BY <2>1, <2>2 DEF BackendMark, UpstreamFollowsHead, NothingForgotten,
                      ReadsAreCovered, eventVars, turnVars, readVars
<1>16. CASE HandleLine
  BY <1>16, HandleLineCoverage
<1>17. CASE UNCHANGED vars
  <2>1. UNCHANGED <<eventVars, loop, turnVars, readVars, stale, missed>>
    BY <1>17 DEF vars
  <2>2. Queued' = Queued /\ InHand' = InHand
    BY <2>1 DEF Queued, InHand, eventVars, turnVars, readVars
  <2> QED
    BY <2>1, <2>2 DEF BackendMark, UpstreamFollowsHead, NothingForgotten,
                      ReadsAreCovered, eventVars, turnVars, readVars
<1> QED
  BY <1>1, <1>2, <1>3, <1>4, <1>5, <1>6, <1>7, <1>8, <1>9, <1>10, <1>11, <1>12,
     <1>13, <1>14, <1>15, <1>16, <1>17
     DEF Next, WriteRepository, Backend, Loop

(* The inductive invariant: types, coverage of the latest snapshot and of  *)
(* the one being read, the rescan mark of a full backend buffer, and the   *)
(* rule that the upstream is not fresher than the head.                    *)
THEOREM InvCorrect == Spec => []Inv
<1>1. Init => Inv
  BY InitTypeOK, InitCoverage DEF Inv, Coverage
<1>2. Inv /\ [Next]_vars => Inv'
  BY NextTypeOK, NextCoverage DEF Inv, Coverage
<1> QED
  BY <1>1, <1>2, PTL DEF Spec

(* No event is forgotten between the repository and the snapshot: for any  *)
(* classifier that meets ClassifierAssumption, any capacities and any      *)
(* drain budget, what is stale is queued, in hand, or was discarded while  *)
(* unsubscribed or by the select that took a line.                         *)
THEOREM NothingForgottenCorrect == Spec => []NothingForgotten
<1>1. Inv => NothingForgotten
  BY DEF Inv
<1> QED
  BY <1>1, InvCorrect, PTL

(* A read that races with changes of the repository leaves nothing behind: *)
(* a section that changed after it was read, and an upstream read for a    *)
(* head that moved, has a refresh queued.                                  *)
THEOREM ReadsAreCoveredCorrect == Spec => []ReadsAreCovered
<1>1. Inv => ReadsAreCovered
  BY DEF Inv
<1> QED
  BY <1>1, InvCorrect, PTL

(* What has been read and is stale again has its event queued: nobody but  *)
(* the loop takes events, and the loop is busy reading.                    *)
LEMMA NextReadRepairs ==
  ASSUME Inv, ReadRepairs, [Next]_vars
  PROVE  ReadRepairs'
<1> DEFINE exempt == IF "Head" \in Refreshed(plan) THEN {} ELSE {"Upstream"}
<1> USE DEF ReadRepairs
<1>1. ASSUME NEW e \in Event, Change(e)
      PROVE  ReadRepairs'
  <2>1. Queued \cup Touches[e] \subseteq Queued'
    BY <1>1, ChangeQueued DEF Inv
  <2>2. /\ building' = IF loop = "read" THEN building \cup Touches[e] ELSE building
        /\ UNCHANGED <<loop, plan, unread>>
    BY <1>1 DEF Change, turnVars
  <2> QED
    BY <2>1, <2>2
<1>2. CASE Enqueue
  <2>1. Queued \subseteq Queued'
    BY <1>2, EnqueueQueued DEF Inv
  <2>2. UNCHANGED <<loop, plan, unread, building>>
    BY <1>2 DEF Enqueue, turnVars, readVars
  <2> QED
    BY <2>1, <2>2
<1>3. CASE StoreOverflow
  <2>1. Queued \subseteq Queued'
    BY <1>3, QueuedFacts DEF Inv, StoreOverflow, Queued
  <2>2. UNCHANGED <<loop, plan, unread, building>>
    BY <1>3 DEF StoreOverflow, turnVars, readVars
  <2> QED
    BY <2>1, <2>2
<1>4. CASE TakeOverflow \/ Park \/ Receive \/ FinishUpdate \/ Drain \/ DrainedAll
           \/ FinishRead \/ ReadFails
  <2>1. loop' # "read"
    BY <1>4 DEF TakeOverflow, Park, Receive, FinishUpdate, Dispatch, Drain, DrainedAll,
                FinishRead, ReadFails, EndTurn
  <2> QED
    BY <2>1
<1>5. CASE Debounced \/ Check \/ HandleLine
  <2>1. loop' # "read" \/ unread' = Refreshed(plan')
    BY <1>5 DEF Debounced, Check, HandleLine, StartRead, EndTurn
  <2> QED
    BY <2>1
<1>6. ASSUME NEW d \in RefreshDomain, ReadDomain(d)
      PROVE  ReadRepairs'
  <2>1. /\ loop = "read" /\ d \in unread /\ unread' = unread \ {d}
        /\ UNCHANGED <<loop, plan, backend, callback, queue, queue_overflowed>>
    BY <1>6 DEF ReadDomain, turnVars, eventVars
  <2>2. Queued' = Queued
    BY <2>1 DEF Queued
  <2>3. building \cap Refreshed(plan) \subseteq unread \cup Queued \cup exempt
    BY <2>1
  <2>4. CASE d = "Upstream" /\ "Head" \in building
    <3>1. building' = building /\ "Head" \notin unread
      BY <1>6, <2>4 DEF ReadDomain, Position
    <3>2. "Head" \in Refreshed(plan) => "Upstream" \in Queued
      BY <2>3, <2>4, <3>1, QueuedFacts DEF Inv, HeadWithUpstream
    <3> QED
      BY <2>1, <2>2, <2>3, <2>4, <3>1, <3>2
  <2>5. CASE ~(d = "Upstream" /\ "Head" \in building)
    <3>1. building' = building \ {d}
      BY <1>6, <2>5 DEF ReadDomain
    <3> QED
      BY <2>1, <2>2, <2>3, <3>1
  <2> QED
    BY <2>4, <2>5
<1>7. CASE SendLine \/ UNCHANGED vars
  <2>1. UNCHANGED <<loop, plan, unread, building, backend, callback, queue, queue_overflowed>>
    BY <1>7 DEF SendLine, vars, eventVars, turnVars, readVars
  <2> QED
    BY <2>1 DEF Queued
<1> QED
  BY <1>1, <1>2, <1>3, <1>4, <1>5, <1>6, <1>7 DEF Next, Loop, Backend, WriteRepository

(* A refresh repairs the sections of its plan, also those whose events     *)
(* were discarded; a full one leaves nothing behind but what has an event  *)
(* queued.                                                                 *)
THEOREM ReadRepairsCorrect ==
  Spec => /\ []ReadRepairs
          /\ [](loop = "read" /\ plan = FullPlan => building \subseteq unread \cup Queued)
<1>1. Init => ReadRepairs
  BY DEF Init, ReadRepairs
<1>2. Inv /\ ReadRepairs /\ [Next]_vars => ReadRepairs'
  BY NextReadRepairs
<1>3. Inv /\ ReadRepairs =>
        (loop = "read" /\ plan = FullPlan => building \subseteq unread \cup Queued)
  BY PlanFacts, DomainAssumption DEF Inv, TypeOK, ReadRepairs
<1> QED
  BY <1>1, <1>2, <1>3, InvCorrect, PTL DEF Spec

(* A snapshot being built differs from the repository in nothing that the  *)
(* latest one does not differ in, once a section is read: with             *)
(* UpstreamFollowsHead, an upstream read for an old head was stale before. *)
BuildsOnStale == loop = "read" => building \ unread \subseteq stale

LEMMA NextBuildsOnStale ==
  TypeOK /\ UpstreamFollowsHead /\ BuildsOnStale /\ [Next]_vars
    => BuildsOnStale' /\ [NoneGoesStale]_vars
<1> SUFFICES ASSUME TypeOK, UpstreamFollowsHead, BuildsOnStale, [Next]_vars
             PROVE  BuildsOnStale' /\ (stale' \subseteq stale \/ WriteRepository)
  BY DEF NoneGoesStale
<1> USE DEF BuildsOnStale
<1>1. CASE WriteRepository
  BY <1>1 DEF WriteRepository, Change
<1>2. CASE Backend
  BY <1>2 DEF Backend, Enqueue, StoreOverflow, readVars
<1>3. CASE TakeOverflow \/ Receive \/ FinishUpdate
  BY <1>3 DEF TakeOverflow, Receive, FinishUpdate, Dispatch, readVars
<1>4. CASE Park \/ Drain \/ DrainedAll
  BY <1>4 DEF Park, Drain, DrainedAll, readVars
<1>5. CASE Debounced \/ Check
  BY <1>5 DEF Debounced, Check, StartRead, readVars
<1>6. ASSUME NEW d \in RefreshDomain, ReadDomain(d)
      PROVE  BuildsOnStale' /\ stale' \subseteq stale
  <2>1. /\ loop = "read" /\ d \in unread /\ unread' = unread \ {d}
        /\ stale' = stale /\ loop' = loop
    BY <1>6 DEF ReadDomain
  <2>2. CASE d = "Upstream" /\ "Head" \in building
    <3>1. building' = building
      BY <1>6, <2>2 DEF ReadDomain
    <3>2. "Head" \notin unread
      BY <1>6, <2>2 DEF ReadDomain, Position
    <3>3. "Head" \in stale
      BY <2>1, <2>2, <3>2
    <3>4. "Upstream" \in stale
      BY <3>3 DEF UpstreamFollowsHead, HeadWithUpstream
    <3> QED
      BY <2>1, <2>2, <3>1, <3>4
  <2>3. CASE ~(d = "Upstream" /\ "Head" \in building)
    <3>1. building' = building \ {d}
      BY <1>6, <2>3 DEF ReadDomain
    <3> QED
      BY <2>1, <3>1
  <2> QED
    BY <2>2, <2>3
<1>7. CASE FinishRead
  BY <1>7 DEF FinishRead, EndTurn
<1>8. CASE ReadFails
  BY <1>8 DEF ReadFails, EndTurn
<1>9. CASE SendLine
  BY <1>9 DEF SendLine, readVars
<1>10. CASE HandleLine
  BY <1>10 DEF HandleLine, StartRead, EndTurn
<1>11. CASE UNCHANGED vars
  BY <1>11 DEF vars, readVars
<1> QED
  BY <1>1, <1>2, <1>3, <1>4, <1>5, <1>6, <1>7, <1>8, <1>9, <1>10, <1>11 DEF Next, Loop

(* A snapshot only gets better, whatever the plan and however often the    *)
(* repository changes during the read.                                     *)
THEOREM RefreshesHelpCorrect == Spec => RefreshesHelp
<1>1. Init => BuildsOnStale
  BY DEF Init, BuildsOnStale
<1>2. Inv /\ BuildsOnStale /\ [Next]_vars => BuildsOnStale' /\ [NoneGoesStale]_vars
  BY NextBuildsOnStale DEF Inv
<1> QED
  BY <1>1, <1>2, InvCorrect, PTL DEF Spec, RefreshesHelp

-----------------------------------------------------------------------------
(* Progress.  Liveness itself is left to the runs; what is proved of it is *)
(* that the steps of the loop and of the backend run out.                  *)

(* There are finitely many domains.                                        *)
LEMMA DomainsAreFinite ==
  /\ IsFiniteSet(RefreshDomain) /\ Cardinality(RefreshDomain) \in Nat
  /\ \A domains \in SUBSET RefreshDomain :
       /\ IsFiniteSet(domains) /\ Cardinality(domains) \in Nat
       /\ Cardinality(domains) <= Cardinality(RefreshDomain)
       /\ \A d \in domains : Cardinality(domains \ {d}) = Cardinality(domains) - 1
<1>1. IsFiniteSet(RefreshDomain)
  <2> DEFINE place == [d \in RefreshDomain |-> Position[d]]
  <2>1. \A d \in RefreshDomain : Position[d] \in 1..11
    BY DomainAssumption DEF Position
  <2>2. \A d, e \in RefreshDomain : Position[d] = Position[e] => d = e
    BY DomainAssumption DEF Position
  <2>3. place \in Injection(RefreshDomain, 1..11)
    BY <2>1, <2>2 DEF Injection, IsInjective
  <2>4. IsFiniteSet(1..11)
    <3>1. 1 \in Int /\ 11 \in Int
      OBVIOUS
    <3> QED
      BY <3>1, FS_Interval
  <2> QED
    BY <2>3, <2>4, FS_Injection
<1> QED
  BY <1>1, FS_Subset, FS_CardinalityType, FS_RemoveElement

(* The length of a turn is a number, and so is what is left of it.         *)
LEMMA DistanceType ==
  ASSUME TypeOK
  PROVE  /\ TurnLength \in Nat
         /\ TurnLength = Cardinality(RefreshDomain) + MAX_DEBOUNCE_DRAIN_EVENTS + 5
         /\ Distance \in 0..TurnLength
         /\ loop \in Turn => Distance > 1
<1>1. /\ Cardinality(RefreshDomain) \in Nat /\ MAX_DEBOUNCE_DRAIN_EVENTS \in Nat
      /\ Cardinality(unread) \in Nat /\ Cardinality(unread) <= Cardinality(RefreshDomain)
  BY DomainsAreFinite, CapacityAssumption DEF TypeOK
<1>2. drained \in Nat /\ (loop = "drain" => drained < MAX_DEBOUNCE_DRAIN_EVENTS)
  BY DEF TypeOK
<1>3. TurnLength \in Nat /\ Distance \in 0..TurnLength
  <2>1. TurnLength \in Nat
    BY <1>1 DEF TurnLength
  <2>2. CASE loop = "read"
    BY <1>1, <2>2 DEF TurnLength, Distance
  <2>3. CASE loop = "drain"
    BY <1>1, <1>2, <2>3 DEF TurnLength, Distance
  <2>4. CASE loop \notin {"read", "drain"}
    BY <1>1, <2>4 DEF TurnLength, Distance
  <2> QED
    BY <2>1, <2>2, <2>3, <2>4
<1>4. loop \in Turn => Distance > 1
  BY <1>1, <1>2 DEF Turn, TurnLength, Distance
<1> QED
  BY <1>3, <1>4 DEF TurnLength

(* What a step does to the distance.                                       *)
LEMMA DistanceStep ==
  ASSUME TypeOK
  PROVE  /\ \A p : Dispatch(p) => Distance' <= TurnLength - 1
         /\ \A p \in RefreshPlan : \A who : StartRead(p, who) =>
              Distance' <= Cardinality(RefreshDomain) + 2
         /\ \A location \in {"select", "stopped"} : EndTurn(location) => Distance' <= 1
<1>1. Cardinality(RefreshDomain) \in Nat /\ MAX_DEBOUNCE_DRAIN_EVENTS \in Nat
  BY DomainsAreFinite, CapacityAssumption
<1>2. ASSUME NEW p, Dispatch(p)
      PROVE  Distance' <= TurnLength - 1
  BY <1>1, <1>2 DEF Dispatch, Distance, TurnLength
<1>3. ASSUME NEW p \in RefreshPlan, NEW who, StartRead(p, who)
      PROVE  Distance' <= Cardinality(RefreshDomain) + 2
  <2>1. loop' = "read" /\ unread' \in SUBSET RefreshDomain
    BY <1>3, RefreshedType DEF StartRead
  <2>2. Cardinality(unread') <= Cardinality(RefreshDomain) /\ Cardinality(unread') \in Nat
    BY <2>1, DomainsAreFinite
  <2> QED
    BY <1>1, <2>1, <2>2 DEF Distance
<1>4. ASSUME NEW location \in {"select", "stopped"}, EndTurn(location)
      PROVE  Distance' <= 1
  BY <1>4 DEF EndTurn, Distance
<1> QED
  BY <1>2, <1>3, <1>4

(* A turn goes on without its select and without an event, and ends.       *)
LEMMA TurnSteps ==
  ASSUME TypeOK, loop \in Turn, Loop \/ ReadFails
  PROVE  /\ Distance' < Distance
         /\ UNCHANGED <<backend, callback>>
         /\ queue_overflowed' \in {queue_overflowed, FALSE}
         /\ queue' = queue \/ (queue # <<>> /\ queue' = Tail(queue))
<1>1. /\ Cardinality(RefreshDomain) \in Nat /\ MAX_DEBOUNCE_DRAIN_EVENTS \in Nat \ {0}
      /\ drained \in Nat /\ (loop = "drain" => drained < MAX_DEBOUNCE_DRAIN_EVENTS)
  BY DomainsAreFinite, CapacityAssumption DEF TypeOK
<1>2. unread \in SUBSET RefreshDomain /\ Cardinality(unread) \in Nat
  BY DomainsAreFinite DEF TypeOK
<1>3. FullPlan \in RefreshPlan /\ plan \in RefreshPlan
  BY PlanFacts DEF TypeOK
<1> USE DEF Turn
<1>4. CASE Debounced
  <2>1. Distance = Cardinality(RefreshDomain) + MAX_DEBOUNCE_DRAIN_EVENTS + 4
    BY <1>1, <1>4 DEF Debounced, Distance, TurnLength
  <2>2. ASSUME queue_overflowed
        PROVE  Distance' < Distance
    <3>1. StartRead(FullPlan, "watch")
      BY <1>4, <2>2 DEF Debounced
    <3>2. Distance' <= Cardinality(RefreshDomain) + 2 /\ Distance' \in Int
      <4>1. loop' = "read" /\ unread' \in SUBSET RefreshDomain
        BY <1>3, <3>1, RefreshedType DEF StartRead
      <4> QED
        BY <1>3, <3>1, <4>1, DistanceStep, DomainsAreFinite DEF Distance
    <3> QED
      BY <1>1, <2>1, <3>2
  <2>3. ASSUME ~queue_overflowed
        PROVE  Distance' < Distance
    <3>1. loop' = "drain" /\ drained' = 0
      BY <1>4, <2>3 DEF Debounced
    <3>2. Distance' = Cardinality(RefreshDomain) + MAX_DEBOUNCE_DRAIN_EVENTS + 3
      BY <1>1, <3>1 DEF Distance, TurnLength
    <3> QED
      BY <1>1, <2>1, <3>2
  <2>4. Distance' < Distance
    BY <2>2, <2>3
  <2> QED
    BY <1>4, <2>4 DEF Debounced
<1>5. CASE Drain
  <2>1. loop = "drain" /\ drained' = drained + 1
        /\ \/ loop' = "check"
           \/ loop' = "drain" /\ drained' < MAX_DEBOUNCE_DRAIN_EVENTS
    BY <1>1, <1>5 DEF Drain
  <2>2. Distance' < Distance
    BY <1>1, <2>1 DEF Distance, TurnLength
  <2> QED
    BY <1>5, <2>2 DEF Drain
<1>6. CASE DrainedAll
  <2>1. Distance' < Distance
    BY <1>1, <1>6 DEF DrainedAll, Distance, TurnLength
  <2> QED
    BY <1>6, <2>1 DEF DrainedAll, eventVars
<1>7. CASE Check
  <2>1. PICK p \in RefreshPlan : StartRead(p, "watch")
    BY <1>3, <1>7 DEF Check
  <2>2. loop' = "read" /\ unread' \in SUBSET RefreshDomain
    BY <2>1, RefreshedType DEF StartRead
  <2>3. Distance = Cardinality(RefreshDomain) + 3
    BY <1>7 DEF Check, Distance
  <2>4. Distance' <= Cardinality(RefreshDomain) + 2 /\ Distance' \in Int
    BY <2>1, <2>2, DistanceStep, DomainsAreFinite DEF Distance
  <2>5. Distance' < Distance
    BY <1>1, <2>3, <2>4
  <2> QED
    BY <1>7, <2>5 DEF Check
<1>8. ASSUME NEW d \in RefreshDomain, ReadDomain(d)
      PROVE  Distance' < Distance /\ UNCHANGED eventVars
  <2>1. /\ loop = "read" /\ loop' = "read" /\ UNCHANGED eventVars
        /\ d \in unread /\ unread' = unread \ {d}
    BY <1>8 DEF ReadDomain
  <2>2. Cardinality(unread') = Cardinality(unread) - 1
    BY <1>2, <2>1, DomainsAreFinite
  <2> QED
    BY <1>2, <2>1, <2>2 DEF Distance
<1>9. CASE FinishRead \/ ReadFails
  <2>1. /\ loop = "read" /\ UNCHANGED eventVars
        /\ \E location \in {"select", "stopped"} : EndTurn(location)
    BY <1>9 DEF FinishRead, ReadFails
  <2>2. Distance' <= 1 /\ Distance' \in Int
    BY <2>1 DEF EndTurn, Distance
  <2>3. Distance = Cardinality(unread) + 2
    BY <2>1 DEF Distance
  <2> QED
    BY <1>2, <2>1, <2>2, <2>3 DEF eventVars
<1> QED
  BY <1>4, <1>5, <1>6, <1>7, <1>8, <1>9
     DEF Loop, TakeOverflow, Park, Receive, FinishUpdate, eventVars

(* Nobody but the loop moves the end of a turn.                            *)
LEMMA OthersLeaveTurn ==
  ASSUME TypeOK, loop \in Turn,
         WriteRepository \/ Backend \/ SendLine \/ HandleLine
  PROVE  Distance' = Distance
<1>1. UNCHANGED <<loop, drained, unread>>
  BY DEF WriteRepository, Change, Backend, Enqueue, StoreOverflow, SendLine, HandleLine,
         Turn, turnVars, readVars
<1> QED
  BY <1>1 DEF Distance

(* LineIsServed without its fairness: whatever the bounds, the events that *)
(* keep arriving and the lines that wait, the loop is back in its select   *)
(* within TurnLength steps of its own.                                     *)
THEOREM TurnsEndCorrect == Spec => [](Distance \in 0..TurnLength) /\ TurnsEnd
<1>1. TypeOK => Distance \in 0..TurnLength
  BY DistanceType
<1>2. TypeOK /\ [Next]_vars => [TurnNearsItsEnd]_vars
  <2> SUFFICES ASSUME TypeOK, Next, loop \in Turn
               PROVE  Distance' < Distance \/ (Distance' = Distance /\ ~Loop)
    BY DEF TurnNearsItsEnd
  <2>1. CASE Loop \/ ReadFails
    BY <2>1, TurnSteps
  <2>2. CASE ~Loop /\ (WriteRepository \/ Backend \/ SendLine \/ HandleLine)
    BY <2>2, OthersLeaveTurn
  <2> QED
    BY <2>1, <2>2 DEF Next
<1> QED
  BY <1>1, <1>2, TypeCorrect, PTL DEF Spec, TurnsEnd

(* Multiplication, one event at a time.                                    *)
LEMMA WorkParts ==
  ASSUME NEW cost \in Nat, NEW count \in Nat
  PROVE  /\ cost * count \in Nat
         /\ cost * (count + 1) = cost * count + cost
         /\ count > 0 => cost * (count - 1) = cost * count - cost
OBVIOUS

(* The steps of a loop in its select: it takes an overflow or an event, or *)
(* waits.                                                                  *)
LEMMA SelectSteps ==
  ASSUME TypeOK, loop \notin Turn, Loop
  PROVE  /\ UNCHANGED <<backend, callback>>
         /\ \/ /\ Distance' < Distance
               /\ UNCHANGED <<queue, queue_overflowed>>
            \/ /\ queue_overflowed /\ ~queue_overflowed'
               /\ queue' = queue /\ Distance' <= Distance + TurnLength
            \/ /\ queue # <<>> /\ queue' = Tail(queue)
               /\ queue_overflowed' = queue_overflowed
               /\ Distance' <= Distance + TurnLength
<1>1. /\ TurnLength \in Nat /\ Distance \in Nat
      /\ Cardinality(RefreshDomain) \in Nat /\ MAX_DEBOUNCE_DRAIN_EVENTS \in Nat
  BY DistanceType, DomainsAreFinite, CapacityAssumption
<1>2. \A p : Dispatch(p) => Distance' <= TurnLength - 1 /\ Distance' \in Int
  BY <1>1, DistanceStep DEF Dispatch, Distance
<1>3. CASE TakeOverflow
  <2>1. Distance' <= Distance + TurnLength
    BY <1>1, <1>2, <1>3 DEF TakeOverflow
  <2> QED
    BY <1>3, <2>1 DEF TakeOverflow
<1>4. CASE Park
  <2>1. Distance' < Distance
    BY <1>4 DEF Park, Distance
  <2> QED
    BY <1>4, <2>1 DEF Park, eventVars
<1>5. CASE Receive
  <2>1. Distance' <= TurnLength /\ Distance' \in Int
    <3>1. CASE loop' = "updating"
      BY <1>1, <3>1 DEF Distance
    <3>2. CASE Dispatch(PlanOf[Head(queue)])
      BY <1>1, <1>2, <3>2
    <3> QED
      BY <1>5, <3>1, <3>2 DEF Receive
  <2>2. Distance' <= Distance + TurnLength
    BY <1>1, <2>1
  <2> QED
    BY <1>5, <2>2 DEF Receive
<1>6. CASE FinishUpdate
  <2>1. Distance = TurnLength
    BY <1>6 DEF FinishUpdate, Distance
  <2>2. Distance' < Distance
    BY <1>1, <1>2, <1>6, <2>1 DEF FinishUpdate
  <2> QED
    BY <1>6, <2>2 DEF FinishUpdate, eventVars
<1> QED
  BY <1>3, <1>4, <1>5, <1>6
     DEF Loop, Turn, Debounced, Drain, DrainedAll, Check, ReadDomain, FinishRead

(* The parts of the work, and what taking and passing on an event does to  *)
(* them.                                                                   *)
BackendWork  == (TurnLength + 3) * Len(backend)
QueueWork    == (TurnLength + 1) * Len(queue)
CallbackWork == IF callback = "full" THEN TurnLength + 2 ELSE 0
OverflowWork == IF queue_overflowed THEN TurnLength + 1 ELSE 0

WorkIsSum ==
  /\ {BackendWork, QueueWork, CallbackWork, OverflowWork, Distance, TurnLength} \subseteq Nat
  /\ Work = BackendWork + QueueWork + CallbackWork + OverflowWork + Distance

LEMMA WorkTypes == TypeOK => WorkIsSum
<1> SUFFICES ASSUME TypeOK
             PROVE  WorkIsSum
  OBVIOUS
<1>1. /\ TurnLength \in Nat /\ Distance \in Nat
      /\ Len(backend) \in Nat /\ Len(queue) \in Nat
  BY DistanceType DEF TypeOK
<1>2. BackendWork \in Nat /\ QueueWork \in Nat
  BY <1>1, WorkParts DEF BackendWork, QueueWork
<1>3. CallbackWork \in Nat /\ OverflowWork \in Nat
  BY <1>1 DEF CallbackWork, OverflowWork
<1>4. Work = BackendWork + QueueWork + CallbackWork + OverflowWork + Distance
  BY DEF Work, BackendWork, QueueWork, CallbackWork, OverflowWork
<1> QED
  BY <1>1, <1>2, <1>3, <1>4 DEF WorkIsSum

LEMMA WorkTypesNext == TypeOK' => WorkIsSum'
BY WorkTypes, PTL

LEMMA TailWork ==
  ASSUME TypeOK
  PROVE  /\ queue # <<>> /\ queue' = Tail(queue) => QueueWork' = QueueWork - (TurnLength + 1)
         /\ backend # <<>> /\ backend' = Tail(backend)
              => BackendWork' = BackendWork - (TurnLength + 3)
         /\ queue' = Append(queue, Head(backend)) /\ backend # <<>>
              => QueueWork' = QueueWork + (TurnLength + 1)
<1>1. /\ TurnLength \in Nat /\ TurnLength' = TurnLength
      /\ Len(backend) \in Nat /\ Len(queue) \in Nat
  BY DistanceType DEF TypeOK, TurnLength
<1>2. ASSUME queue # <<>>, queue' = Tail(queue)
      PROVE  QueueWork' = QueueWork - (TurnLength + 1)
  <2>1. Len(queue') = Len(queue) - 1 /\ Len(queue) > 0
    BY <1>1, <1>2, DomainsOfTail DEF TypeOK
  <2> QED
    BY <1>1, <2>1, WorkParts DEF QueueWork
<1>3. ASSUME backend # <<>>, backend' = Tail(backend)
      PROVE  BackendWork' = BackendWork - (TurnLength + 3)
  <2>1. Len(backend') = Len(backend) - 1 /\ Len(backend) > 0
    BY <1>1, <1>3, DomainsOfTail DEF TypeOK
  <2> QED
    BY <1>1, <2>1, WorkParts DEF BackendWork
<1>4. ASSUME backend # <<>>, queue' = Append(queue, Head(backend))
      PROVE  QueueWork' = QueueWork + (TurnLength + 1)
  <2>1. Len(queue') = Len(queue) + 1
    BY <1>4, DomainsOfTail, DomainsOfAppend DEF TypeOK
  <2> QED
    BY <1>1, <2>1, WorkParts DEF QueueWork
<1> QED
  BY <1>2, <1>3, <1>4

LEMMA BackendWorks ==
  ASSUME TypeOK, TypeOK', Backend
  PROVE  Work' < Work
<1>1. Distance' = Distance
  BY DEF Backend, Enqueue, StoreOverflow, Distance, turnVars, readVars
<1>2. CASE Enqueue
  <2>1. /\ callback # "full" /\ backend # <<>> /\ backend' = Tail(backend)
        /\ queue_overflowed' = queue_overflowed
        /\ \/ queue' = Append(queue, Head(backend)) /\ callback' # "full"
           \/ queue' = queue /\ callback' = "full"
    BY <1>2 DEF Enqueue
  <2>2. BackendWork' = BackendWork - (TurnLength + 3) /\ CallbackWork = 0
    BY <2>1, TailWork DEF CallbackWork
  <2>3. OverflowWork' = OverflowWork
    BY <2>1 DEF OverflowWork, TurnLength
  <2>4. \/ QueueWork' = QueueWork + (TurnLength + 1) /\ CallbackWork' = 0
        \/ QueueWork' = QueueWork /\ CallbackWork' = TurnLength + 2
    BY <2>1, TailWork DEF CallbackWork, QueueWork, TurnLength
  <2> QED
    BY <1>1, <2>2, <2>3, <2>4, WorkTypes, WorkTypesNext DEF WorkIsSum
<1>3. CASE StoreOverflow
  <2>1. callback = "full" /\ callback' = "idle" /\ UNCHANGED <<backend, queue>>
    BY <1>3 DEF StoreOverflow
  <2>2. /\ CallbackWork = TurnLength + 2 /\ CallbackWork' = 0
        /\ BackendWork' = BackendWork /\ QueueWork' = QueueWork
    BY <2>1 DEF CallbackWork, BackendWork, QueueWork, TurnLength
  <2>3. OverflowWork' \in {0, TurnLength + 1}
    BY DEF OverflowWork, TurnLength
  <2> QED
    BY <1>1, <2>2, <2>3, WorkTypes, WorkTypesNext DEF WorkIsSum
<1> QED
  BY <1>2, <1>3 DEF Backend

LEMMA LoopWorks ==
  ASSUME TypeOK, TypeOK', Loop \/ ReadFails
  PROVE  Work' < Work
<1>1. \/ loop \in Turn
      \/ loop \notin Turn /\ Loop
  BY DEF ReadFails, Turn
<1>2. UNCHANGED <<backend, callback>>
  BY <1>1, TurnSteps, SelectSteps
<1>3. BackendWork' = BackendWork /\ CallbackWork' = CallbackWork /\ TurnLength' = TurnLength
  BY <1>2 DEF BackendWork, CallbackWork, TurnLength
<1>4. CASE loop \in Turn
  <2>1. Distance' < Distance
    BY <1>4, TurnSteps
  <2>2. OverflowWork' \in {OverflowWork, 0}
    <3>1. queue_overflowed' \in {queue_overflowed, FALSE}
      BY <1>4, TurnSteps
    <3>2. CASE queue_overflowed' = queue_overflowed
      BY <1>3, <3>2 DEF OverflowWork
    <3>3. CASE queue_overflowed' = FALSE
      BY <3>3 DEF OverflowWork
    <3> QED
      BY <3>1, <3>2, <3>3
  <2>3. QueueWork' \in {QueueWork, QueueWork - (TurnLength + 1)}
    <3>1. queue' = queue \/ (queue # <<>> /\ queue' = Tail(queue))
      BY <1>4, TurnSteps
    <3> QED
      BY <1>3, <3>1, TailWork DEF QueueWork
  <2> QED
    BY <1>3, <2>1, <2>2, <2>3, WorkTypes, WorkTypesNext DEF WorkIsSum
<1>5. CASE loop \notin Turn
  <2>1. \/ Distance' < Distance /\ QueueWork' = QueueWork /\ OverflowWork' = OverflowWork
        \/ /\ Distance' <= Distance + TurnLength /\ QueueWork' = QueueWork
           /\ OverflowWork = TurnLength + 1 /\ OverflowWork' = 0
        \/ /\ Distance' <= Distance + TurnLength
           /\ QueueWork' = QueueWork - (TurnLength + 1) /\ OverflowWork' = OverflowWork
    <3>1. \/ Distance' < Distance /\ UNCHANGED <<queue, queue_overflowed>>
          \/ /\ queue_overflowed /\ ~queue_overflowed'
             /\ queue' = queue /\ Distance' <= Distance + TurnLength
          \/ /\ queue # <<>> /\ queue' = Tail(queue)
             /\ queue_overflowed' = queue_overflowed
             /\ Distance' <= Distance + TurnLength
      BY <1>1, <1>5, SelectSteps
    <3> QED
      BY <1>3, <3>1, TailWork DEF QueueWork, OverflowWork
  <2> QED
    BY <1>3, <2>1, WorkTypes, WorkTypesNext DEF WorkIsSum
<1> QED
  BY <1>4, <1>5

(* Without changes of the repository and lines of the client, the loop and *)
(* the callback take at most Work steps, however the queue stands, whether *)
(* or not events were dropped, and whether or not reads fail: no refresh,  *)
(* overflow or drain makes work for itself.                                *)
THEOREM WorkRunsOutCorrect == Spec => [](Work \in Nat) /\ WorkRunsOut
<1>1. TypeOK => Work \in Nat
  BY WorkTypes DEF WorkIsSum
<1>2. TypeOK /\ TypeOK' /\ [Next]_vars
        => [WriteRepository \/ SendLine \/ HandleLine \/ Work' < Work]_vars
  BY LoopWorks, BackendWorks DEF Next
<1> QED
  BY <1>1, <1>2, TypeCorrect, PTL DEF Spec, WorkRunsOut

(* When nothing is left to do, the loop waits for an event and there is    *)
(* none on its way; and then the latest snapshot differs from the          *)
(* repository only where an event was discarded, unless an overflow was    *)
(* recorded behind the loop's back.                                        *)
THEOREM RestIsFresh ==
  Spec => [](/\ Work = 0 => loop = "stopped" \/ AtRest
             /\ AtRest => stale \subseteq missed \/ Stranded)
<1>1. TypeOK /\ Work = 0 => loop = "stopped" \/ AtRest
  <2> SUFFICES ASSUME TypeOK, Work = 0, loop # "stopped"
               PROVE  AtRest
    OBVIOUS
  <2>1. /\ BackendWork = 0 /\ QueueWork = 0 /\ CallbackWork = 0
        /\ Distance = 0 /\ TurnLength \in Nat
    <3>1. /\ BackendWork \in Nat /\ QueueWork \in Nat /\ CallbackWork \in Nat
          /\ OverflowWork \in Nat /\ Distance \in Nat /\ TurnLength \in Nat
      BY WorkTypes DEF WorkIsSum
    <3>2. BackendWork + QueueWork + CallbackWork + OverflowWork + Distance = 0
      BY WorkTypes DEF WorkIsSum
    <3> QED
      BY <3>1, <3>2
  <2>2. Len(backend) = 0 /\ Len(queue) = 0
    <3>1. Len(backend) \in Nat /\ Len(queue) \in Nat
      BY DEF TypeOK
    <3>2. \A n \in Nat : /\ (TurnLength + 3) * n = 0 => n = 0
                         /\ (TurnLength + 1) * n = 0 => n = 0
      BY <2>1
    <3> QED
      BY <2>1, <3>1, <3>2 DEF BackendWork, QueueWork
  <2>3. backend = <<>> /\ queue = <<>>
    BY <2>2 DEF TypeOK
  <2>4. callback = "idle"
    BY <2>1 DEF CallbackWork, TypeOK
  <2>5. loop = "recv"
    <3>1. loop \notin Turn /\ TurnLength > 0
      BY <2>1, DistanceType, CapacityAssumption, DomainsAreFinite
    <3> QED
      BY <2>1, <3>1 DEF Distance, Turn, TypeOK, Location
  <2> QED
    BY <2>3, <2>4, <2>5 DEF AtRest
<1>2. NothingForgotten /\ AtRest => stale \subseteq missed \/ Stranded
  <2> SUFFICES ASSUME NothingForgotten, AtRest, ~Stranded
               PROVE  stale \subseteq missed
    OBVIOUS
  <2>1. Queued = {} /\ InHand = {}
    BY DEF AtRest, Stranded, Queued, DomainsOf, InHand
  <2> QED
    BY <2>1 DEF NothingForgotten, AtRest
<1> QED
  BY <1>1, <1>2, TypeCorrect, NothingForgottenCorrect, PTL

=============================================================================
