-------------------------------- MODULE Serve --------------------------------
(***************************************************************************)
(* The modes of the serve loop (main.rs): no watcher, a watcher that is    *)
(* being started on a blocking task, polling because none could be         *)
(* started, and an active watcher.  What a mode must do is keep the        *)
(* snapshot of a subscribed client up to date.                             *)
(*                                                                         *)
(* One bit says whether some section of the latest snapshot may differ     *)
(* from the repository.  A full read leaves none; a read for events leaves *)
(* those whose events still wait or were discarded.  How events travel,    *)
(* and how they can be lost on the way, is the subject of Watch: here an   *)
(* event of a registered watcher stays until it is taken.                  *)
(***************************************************************************)
EXTENDS Naturals

Several == 2  \* a bound: so many waiting events are not told from more

VARIABLES
  serving,           \* the loop runs
  subscribed,        \* ProcessState::subscribed
  watcher,           \* there is an active watcher
  pending,           \* the task that starts one
  polling_fallback,  \* no watcher could be started
  reading,           \* who reads the repository: all of it, or what events name
  building,          \* the snapshot being read may differ from the repository
  stale,             \* the latest snapshot may, or there is none
  event,             \* the events the watcher holds
  missed             \* history: some section is stale and its event was discarded

modeVars == <<watcher, pending, polling_fallback>>
dataVars == <<reading, building, stale, event, missed>>
vars     == <<serving, subscribed, modeVars, dataVars>>

TypeOK ==
  /\ {serving, subscribed, watcher, polling_fallback, building, stale, missed}
       \subseteq BOOLEAN
  /\ event \in 0..Several
  /\ pending \in {"none", "listing", "registered", "failed"}
  /\ reading \in {"no", "line", "refresh", "event"}
  /\ watcher => pending = "none"

Init ==
  /\ serving = TRUE /\ subscribed = FALSE
  /\ watcher = FALSE /\ pending = "none" /\ polling_fallback = FALSE
  /\ reading = "no" /\ building = FALSE
  /\ stale = TRUE /\ event = 0 /\ missed = FALSE

-----------------------------------------------------------------------------

(* Another process changes the repository.  The watches see it once they   *)
(* are registered.                                                         *)
Change ==
  /\ serving
  /\ stale' = TRUE
  /\ building' = (reading # "no")
  /\ event' = IF (watcher \/ pending = "registered") /\ event < Several
              THEN event + 1 ELSE event
  /\ UNCHANGED <<serving, subscribed, modeVars, reading, missed>>

(* RepositoryWatcher::new on its blocking task: the targets are listed     *)
(* from a snapshot, and then registered; either step may fail.             *)
StartWatcher ==
  /\ serving
  /\ pending = "listing"
  /\ pending' \in {"registered", "failed"}
  /\ UNCHANGED <<serving, subscribed, watcher, polling_fallback, dataVars>>

-----------------------------------------------------------------------------
(* The branches of the select.                                             *)

Idle == serving /\ reading = "no"

StartRead(who, left) ==
  /\ reading' = who
  /\ building' = left
  /\ UNCHANGED stale

NoRead == UNCHANGED <<reading, building, stale>>

(* refresh_subscribed reads everything, for a subscriber only.             *)
RefreshSubscribed == IF subscribed THEN StartRead("refresh", FALSE) ELSE NoRead

(* What an unsubscribed process does not read when its watcher starts, or  *)
(* when an event says so, is not read later either.                        *)
Discard == missed' = (missed \/ (stale /\ ~subscribed))

(* Mutant of EndLine: a watcher is started whatever the mode.              *)
EndLineStarting(subscribes) ==
  /\ pending' = IF subscribes /\ pending = "none" THEN "listing" ELSE pending
  /\ polling_fallback' = IF ~watcher /\ pending = "none" /\ polling_fallback
                         THEN subscribes ELSE polling_fallback
  /\ UNCHANGED watcher

(* After a line has been handled: the idle and the polling mode start a    *)
(* watcher for a subscriber, and polling ends with the subscription.       *)
EndLine(subscribes) ==
  IF ~watcher /\ pending = "none"
  THEN /\ pending' = IF subscribes THEN "listing" ELSE "none"
       /\ polling_fallback' = (polling_fallback /\ subscribes)
       /\ UNCHANGED watcher
  ELSE UNCHANGED modeVars

(* subscribe and refresh read the repository; the line ends with the read. *)
ReadingLine ==
  /\ Idle
  /\ subscribed' \in {TRUE, subscribed}
  /\ StartRead("line", FALSE)
  /\ UNCHANGED <<serving, modeVars, event, missed>>

(* unsubscribe, and requests that only answer.                             *)
OtherLine ==
  /\ Idle
  /\ subscribed' \in {FALSE, subscribed}
  /\ EndLine(subscribed')
  /\ UNCHANGED <<serving, dataVars>>

(* End of stdin, or an error on it.                                        *)
EndOfLines ==
  /\ Idle
  /\ serving' = FALSE
  /\ UNCHANGED <<subscribed, modeVars, dataVars>>

(* Mutant of Activate: the start of the watcher is not followed by a read. *)
ActivateUnread ==
  /\ Idle
  /\ pending = "registered"
  /\ pending' = "none"
  /\ watcher' = TRUE
  /\ UNCHANGED <<serving, subscribed, polling_fallback, dataVars>>

Activate ==
  /\ Idle
  /\ pending = "registered"
  /\ pending' = "none"
  /\ watcher' = TRUE
  /\ RefreshSubscribed
  /\ Discard
  /\ UNCHANGED <<serving, subscribed, polling_fallback, event>>

(* Mutant of FallBack: polling is not switched on.                         *)
FallBackSilent ==
  /\ Idle
  /\ pending = "failed"
  /\ pending' = "none"
  /\ RefreshSubscribed
  /\ UNCHANGED <<serving, subscribed, watcher, polling_fallback, event, missed>>

FallBack ==
  /\ Idle
  /\ pending = "failed"
  /\ pending' = "none"
  /\ polling_fallback' = TRUE
  /\ RefreshSubscribed
  /\ UNCHANGED <<serving, subscribed, watcher, event, missed>>

(* poll_tick, in the two modes that wait for it.                           *)
Tick ==
  /\ Idle
  /\ ~watcher
  /\ pending # "none" \/ polling_fallback
  /\ RefreshSubscribed
  /\ UNCHANGED <<serving, subscribed, modeVars, event, missed>>

(* next_event, and for a subscriber the drain and the read of the sections *)
(* that the plan of the taken events names.  The drain may leave events.   *)
WatchEvent ==
  /\ Idle
  /\ watcher
  /\ event > 0
  /\ event' \in 0..(event - 1)
  /\ IF subscribed THEN StartRead("event", event' > 0 \/ missed) ELSE NoRead
  /\ Discard
  /\ UNCHANGED <<serving, subscribed, modeVars>>

-----------------------------------------------------------------------------
(* The end of a read.                                                      *)

EndRead == reading' = "no" /\ building' = FALSE

FinishRead ==
  /\ serving
  /\ reading # "no"
  /\ EndRead
  /\ stale' = building
  /\ missed' = (missed /\ reading = "event")
  /\ IF reading = "line" THEN EndLine(subscribed) ELSE UNCHANGED modeVars
  /\ UNCHANGED <<serving, subscribed, event>>

(* A request whose read fails is answered with an error, or only with its  *)
(* subscription; any other failed read ends the process.                   *)
ReadFails ==
  /\ serving
  /\ reading # "no"
  /\ EndRead
  /\ IF reading = "line" THEN EndLine(subscribed) /\ UNCHANGED serving
                         ELSE serving' = FALSE /\ UNCHANGED modeVars
  /\ UNCHANGED <<subscribed, stale, event, missed>>

-----------------------------------------------------------------------------

Next ==
  \/ Change \/ StartWatcher
  \/ ReadingLine \/ OtherLine \/ EndOfLines
  \/ Activate \/ FallBack \/ Tick \/ WatchEvent
  \/ FinishRead \/ ReadFails

Spec == Init /\ [][Next]_vars

(* The blocking task and every read end.  The interval ticks again and     *)
(* again, and a select polls its branches in random order: a branch that   *)
(* is ready again and again is taken, whatever the client sends.           *)
Fairness ==
  /\ WF_vars(StartWatcher) /\ WF_vars(FinishRead)
  /\ SF_vars(Activate) /\ SF_vars(FallBack) /\ SF_vars(Tick) /\ SF_vars(WatchEvent)

FairSpec == Spec /\ Fairness

-----------------------------------------------------------------------------
(* Properties.                                                             *)

(* Whenever the snapshot of a subscribed client may be out of date and     *)
(* nobody reads, something will read: the tick or the outcome of the start *)
(* of a watcher, or an event that the active watcher holds.  Exempt is     *)
(* what happened while the client was not subscribed and was not read when *)
(* it subscribed.                                                          *)
StaleIsOwed ==
  Idle /\ subscribed /\ stale =>
    IF watcher THEN event > 0 \/ missed
               ELSE pending # "none" \/ polling_fallback

(* With the repository at rest and the client subscribed for good, the     *)
(* snapshot becomes up to date in whatever mode the process is, with the   *)
(* same exemption.                                                         *)
AtRest == <>[][~Change]_vars /\ <>[]subscribed

CatchesUp == AtRest => <>[](~stale \/ ~serving \/ (watcher /\ missed))

(* README, Stream Contract: gitseer/subscribe "sends a full                *)
(* gitseer/snapshot notification and establishes a new baseline".  If so,  *)
(* there is no exemption.                                                  *)
SubscribeIsBaseline == AtRest => <>(~stale \/ ~serving)

=============================================================================
