----------------------------- MODULE ServeProofs -----------------------------
(***************************************************************************)
(* In every mode of the serve loop, a snapshot that may be out of date is  *)
(* owed a read.                                                            *)
(***************************************************************************)
EXTENDS Serve, TLAPS

(* StaleIsOwed says nothing while somebody reads.  The invariant does: a   *)
(* line may leave the loop without a mode until it ends, the snapshot is   *)
(* replaced by what a refresh reads, and what changes under a reader, or is*)
(* not among what it reads, waits as an event or was discarded.            *)
HasMode ==
  subscribed /\ reading # "line" => watcher \/ pending # "none" \/ polling_fallback

EventHeld ==
  /\ watcher /\ stale /\ reading \notin {"refresh", "event"} => event > 0 \/ missed
  /\ watcher /\ building => event > 0 \/ (missed /\ reading = "event")
  /\ reading = "no" => ~building

Inv == TypeOK /\ (serving => HasMode /\ EventHeld)

(* After a line the loop has a mode for a subscriber.                      *)
LEMMA EndLineFacts ==
  ASSUME TypeOK, NEW subscribes \in BOOLEAN, EndLine(subscribes)
  PROVE  /\ watcher' = watcher
         /\ pending' \in {"none", "listing", "registered", "failed"}
         /\ polling_fallback' \in BOOLEAN
         /\ watcher' => pending' = "none"
         /\ subscribes => watcher' \/ pending' # "none"
BY DEF EndLine, TypeOK, modeVars

LEMMA InitInv == Init => Inv
<1> SUFFICES ASSUME Init
             PROVE  Inv
  OBVIOUS
<1>1. event \in 0..Several
  BY DEF Init, Several
<1>2. TypeOK
  BY <1>1, Zenon DEF Init, TypeOK
<1> QED
  BY <1>2 DEF Init, Inv, HasMode, EventHeld

LEMMA NextInv ==
  ASSUME Inv, [Next]_vars
  PROVE  Inv'
<1> USE DEF Inv
<1>1. CASE Change
  <2>1. event' \in 0..Several /\ event' >= event
        /\ (watcher => event' > 0)
    BY <1>1 DEF Change, TypeOK, Several
  <2>2. /\ serving' /\ UNCHANGED <<subscribed, modeVars, reading, missed>>
        /\ stale' = TRUE /\ building' = (reading # "no")
    BY <1>1 DEF Change
  <2>3. TypeOK'
    BY <2>1, <2>2, Zenon DEF TypeOK, modeVars
  <2>4. HasMode'
    <3>1. /\ subscribed' = subscribed /\ reading' = reading /\ watcher' = watcher
          /\ pending' = pending /\ polling_fallback' = polling_fallback
      BY <2>2 DEF modeVars
    <3>2. HasMode
      BY <1>1 DEF Change
    <3> QED
      BY <3>1, <3>2, Zenon DEF HasMode
  <2>5. watcher' => event' > 0
    BY <2>1, <2>2, Zenon DEF modeVars
  <2>6. (reading = "no" => ~building)'
    BY <2>2
  <2>7. serving'
    BY <2>2
  <2>8. EventHeld'
    BY <2>5, <2>6, Zenon DEF EventHeld
  <2> QED
    BY <2>3, <2>4, <2>7, <2>8
<1>2. CASE StartWatcher
  BY <1>2 DEF StartWatcher, TypeOK, HasMode, EventHeld, dataVars
<1>3. CASE ReadingLine
  BY <1>3 DEF ReadingLine, Idle, StartRead, TypeOK, HasMode, EventHeld, modeVars
<1>4. CASE OtherLine
  <2>1. subscribed' \in BOOLEAN /\ EndLine(subscribed')
    BY <1>4 DEF OtherLine, TypeOK
  <2> QED
    BY <1>4, <2>1, EndLineFacts
       DEF OtherLine, Idle, TypeOK, HasMode, EventHeld, dataVars
<1>5. CASE EndOfLines
  BY <1>5 DEF EndOfLines, TypeOK, modeVars, dataVars
<1>6. CASE Activate
  BY <1>6 DEF Activate, Idle, RefreshSubscribed, StartRead, NoRead, Discard,
              TypeOK, HasMode, EventHeld
<1>7. CASE FallBack
  BY <1>7 DEF FallBack, Idle, RefreshSubscribed, StartRead, NoRead,
              TypeOK, HasMode, EventHeld
<1>8. CASE Tick
  BY <1>8 DEF Tick, Idle, RefreshSubscribed, StartRead, NoRead,
              TypeOK, HasMode, EventHeld, modeVars
<1>9. CASE WatchEvent
  <2>1. event' \in 0..Several
    BY <1>9 DEF WatchEvent, TypeOK, Several
  <2>2. /\ serving' /\ watcher' /\ reading = "no" /\ ~building
        /\ UNCHANGED <<subscribed, modeVars, stale>>
        /\ missed' = (missed \/ (stale /\ ~subscribed))
    BY <1>9 DEF WatchEvent, Idle, StartRead, NoRead, Discard, modeVars, EventHeld
  <2>3. CASE subscribed
    <3>1. reading' = "event" /\ building' = (event' > 0 \/ missed) /\ missed' = missed
      BY <1>9, <2>2, <2>3 DEF WatchEvent, StartRead, TypeOK
    <3>2. building' \in BOOLEAN
      BY <3>1
    <3>3. TypeOK'
      BY <2>1, <2>2, <3>1, <3>2, Zenon DEF TypeOK, modeVars
    <3> QED
      BY <1>9, <2>1, <2>2, <2>3, <3>1, <3>3 DEF HasMode, EventHeld, modeVars
  <2>4. CASE ~subscribed
    <3>1. reading' = reading /\ building' = building
      BY <1>9, <2>4 DEF WatchEvent, NoRead
    <3>2. missed' \in BOOLEAN
      BY <2>2
    <3>3. TypeOK'
      BY <2>1, <2>2, <3>1, <3>2, Zenon DEF TypeOK, modeVars
    <3> QED
      BY <2>1, <2>2, <2>4, <3>1, <3>3 DEF HasMode, EventHeld, modeVars
  <2> QED
    BY <2>3, <2>4 DEF TypeOK
<1>10. CASE FinishRead
  <2>1. CASE reading = "line"
    <3>1. EndLine(subscribed) /\ subscribed \in BOOLEAN
      BY <1>10, <2>1 DEF FinishRead, TypeOK
    <3> QED
      BY <1>10, <2>1, <3>1, EndLineFacts
         DEF FinishRead, EndRead, TypeOK, HasMode, EventHeld
  <2>2. CASE reading # "line"
    BY <1>10, <2>2 DEF FinishRead, EndRead, TypeOK, HasMode, EventHeld, modeVars
  <2> QED
    BY <2>1, <2>2
<1>11. CASE ReadFails
  <2>1. CASE reading = "line"
    <3>1. EndLine(subscribed) /\ subscribed \in BOOLEAN
      BY <1>11, <2>1 DEF ReadFails, TypeOK
    <3> QED
      BY <1>11, <2>1, <3>1, EndLineFacts
         DEF ReadFails, EndRead, TypeOK, HasMode, EventHeld
  <2>2. CASE reading # "line"
    BY <1>11, <2>2 DEF ReadFails, EndRead, TypeOK, modeVars
  <2> QED
    BY <2>1, <2>2
<1>12. CASE UNCHANGED vars
  BY <1>12 DEF vars, modeVars, dataVars, TypeOK, HasMode, EventHeld
<1> QED
  BY <1>1, <1>2, <1>3, <1>4, <1>5, <1>6, <1>7, <1>8, <1>9, <1>10, <1>11, <1>12
     DEF Next

(* The inductive invariant holds in every reachable state.                 *)
THEOREM InvCorrect == Spec => []Inv
BY InitInv, NextInv, PTL DEF Spec

(* Type correctness; there is never a second watcher in the making while   *)
(* one is active.                                                          *)
THEOREM TypeCorrect == Spec => []TypeOK
<1>1. Inv => TypeOK
  BY DEF Inv
<1> QED
  BY <1>1, InvCorrect, PTL

(* A subscribed client's snapshot that may be out of date will be read     *)
(* again, in every mode.                                                   *)
THEOREM StaleIsOwedCorrect == Spec => []StaleIsOwed
<1>1. Inv => StaleIsOwed
  BY DEF Inv, TypeOK, HasMode, EventHeld, StaleIsOwed, Idle
<1> QED
  BY <1>1, InvCorrect, PTL

=============================================================================
