------------------------------- MODULE Stream -------------------------------
(***************************************************************************)
(* The state stream of one gitseer process (protocol.rs, and the refresh   *)
(* half of main.rs) together with the client that mirrors it.              *)
(*                                                                         *)
(* The process keeps ProcessState: whether the client is subscribed, the   *)
(* latest snapshot, and its version.  Requests and watched refreshes       *)
(* replace the snapshot and write versioned messages to stdout, a FIFO.    *)
(* The client keeps a copy by applying what it reads.  Requests that only  *)
(* answer (initialize, gitseer/getSnapshot, unknown methods and malformed  *)
(* lines) change no state and write nothing the copy depends on, so they   *)
(* do not appear.                                                          *)
(***************************************************************************)
EXTENDS Snapshots, Sequences

CONSTANTS
  MaxVersion,     \* bound on the versions of a run
  PipeCapacity    \* bound on the messages written and not yet read

ASSUME BoundAssumption == MaxVersion \in Nat /\ PipeCapacity \in Nat \ {0}

VARIABLES
  serving,          \* the serve loop runs
  subscribed,       \* ProcessState::subscribed
  latest_snapshot,  \* ProcessState::latest_snapshot
  latest_version,   \* ProcessState::latest_version
  stdout,           \* messages written and not yet read by the client
  client,           \* the client's copy, its version, and whether it saw a gap
  published,        \* history: the snapshot recorded under each version
  silent            \* history: versions whose message was not written

state  == <<serving, subscribed, latest_snapshot, latest_version>>
ghosts == <<published, silent>>
vars   == <<state, stdout, client, ghosts>>

Version == 1..MaxVersion

PatchSet == UNION {[fields -> Value] : fields \in SUBSET Field}

SnapshotMessage(version, snapshot) ==
  [type |-> "snapshot", version |-> version, snapshot |-> snapshot]

DeltaMessage(previous_version, version, patch) ==
  [type |-> "delta", previous_version |-> previous_version,
   version |-> version, patch |-> patch]

Message ==
  [type : {"snapshot"}, version : Version, snapshot : Snapshot]
    \cup [type : {"delta"}, previous_version : Version, version : Version,
          patch : PatchSet]
    \cup [type : {"goodbye"}]

TypeOK ==
  /\ serving \in BOOLEAN
  /\ subscribed \in BOOLEAN
  /\ latest_snapshot \in Snapshot \cup {NoSnapshot}
  /\ latest_version \in 0..MaxVersion
  /\ stdout \in Seq(Message)
  /\ client \in [version : 0..MaxVersion, gap : BOOLEAN,
                 snapshot : Snapshot \cup {NoSnapshot}]
  /\ published \in [Version -> Snapshot \cup {NoSnapshot}]
  /\ silent \subseteq Version

Init ==
  /\ serving = TRUE
  /\ subscribed = FALSE
  /\ latest_snapshot = NoSnapshot
  /\ latest_version = 0
  /\ stdout = <<>>
  /\ client = [version |-> 0, gap |-> FALSE, snapshot |-> NoSnapshot]
  /\ published = [v \in Version |-> NoSnapshot]
  /\ silent = {}

-----------------------------------------------------------------------------
(* What the handlers share.  A message is written only while the pipe has  *)
(* room: the process blocks in write_all, between two lines or events.     *)

PipeHasRoom == Len(stdout) < PipeCapacity

(* Mutant of Record: the first version after an unsubscription is 1 again. *)
RecordRestarting(snapshot) ==
  /\ latest_version < MaxVersion
  /\ latest_version' = IF subscribed THEN latest_version + 1 ELSE 1
  /\ latest_snapshot' = snapshot
  /\ published' = [published EXCEPT ![latest_version'] = snapshot]

Record(snapshot) ==
  /\ latest_version < MaxVersion
  /\ latest_version' = latest_version + 1
  /\ latest_snapshot' = snapshot
  /\ published' = [published EXCEPT ![latest_version'] = snapshot]

(* A version is announced when a message carrying it reaches stdout.       *)
Announce(message) ==
  /\ PipeHasRoom
  /\ stdout' = Append(stdout, message)
  /\ silent' = silent

(* Mutant of Refresh: without an id the baseline changes under its version.*)
RefreshUnversioned ==
  \E include_ignored, is_notification \in BOOLEAN :
    \E snapshot \in Readable(include_ignored) :
      /\ serving
      /\ IF is_notification
         THEN /\ latest_snapshot # NoSnapshot /\ latest_snapshot' = snapshot
              /\ UNCHANGED <<latest_version, stdout, ghosts>>
         ELSE Record(snapshot) /\ Announce(SnapshotMessage(latest_version', snapshot))
      /\ UNCHANGED <<serving, subscribed, client>>

(* gitseer/refresh: the snapshot becomes the baseline under a new version, *)
(* announced by the response alone: a request without an id has none.      *)
Refresh ==
  \E include_ignored, is_notification \in BOOLEAN :
    \E snapshot \in Readable(include_ignored) :
      /\ serving
      /\ Record(snapshot)
      /\ IF is_notification
         THEN /\ silent' = silent \cup {latest_version'}
              /\ stdout' = stdout
         ELSE Announce(SnapshotMessage(latest_version', snapshot))
      /\ UNCHANGED <<serving, subscribed, client>>

(* Mutant of Subscribe: a failed read announces the snapshot there is.     *)
SubscribeUnread ==
  /\ serving
  /\ subscribed' = TRUE
  /\ \/ \E snapshot \in Readable(FALSE) :
          /\ Record(snapshot)
          /\ Announce(SnapshotMessage(latest_version', snapshot))
     \/ /\ Announce(SnapshotMessage(latest_version, latest_snapshot))
        /\ UNCHANGED <<latest_snapshot, latest_version, published>>
  /\ UNCHANGED <<serving, client>>

(* gitseer/subscribe: a notification announces the baseline, with or       *)
(* without an id in the request.  When the read fails the client is        *)
(* subscribed all the same, on whatever snapshot was latest.               *)
Subscribe ==
  /\ serving
  /\ subscribed' = TRUE
  /\ \/ \E snapshot \in Readable(FALSE) :
          /\ Record(snapshot)
          /\ Announce(SnapshotMessage(latest_version', snapshot))
     \/ UNCHANGED <<latest_snapshot, latest_version, stdout, ghosts>>
  /\ UNCHANGED <<serving, client>>

Unsubscribe ==
  /\ serving
  /\ subscribed' = FALSE
  /\ UNCHANGED <<serving, latest_snapshot, latest_version, stdout, client, ghosts>>

(* Mutant of Update: an update without changes takes a version too.        *)
UpdateCounting(snapshot) ==
  LET delta == Delta(latest_snapshot, snapshot)
  IN  \/ /\ latest_snapshot = NoSnapshot
         /\ Record(snapshot)
         /\ Announce(SnapshotMessage(latest_version', snapshot))
      \/ /\ latest_snapshot # NoSnapshot
         /\ ~HasChanges(delta)
         /\ Record(snapshot)
         /\ UNCHANGED <<stdout, silent>>
      \/ /\ latest_snapshot # NoSnapshot
         /\ HasChanges(delta)
         /\ Record(snapshot)
         /\ Announce(DeltaMessage(latest_version, latest_version',
                                  Patch(snapshot, delta)))

(* Mutant of Update: every update is a delta, be it empty.                 *)
UpdateAlways(snapshot) ==
  /\ Record(snapshot)
  /\ Announce(IF latest_snapshot = NoSnapshot THEN SnapshotMessage(latest_version', snapshot)
              ELSE DeltaMessage(latest_version, latest_version',
                                Patch(snapshot, Delta(latest_snapshot, snapshot))))

(* snapshot_update_messages, on the three outcomes of record_update.       *)
Update(snapshot) ==
  LET delta == Delta(latest_snapshot, snapshot)
  IN  \/ /\ latest_snapshot = NoSnapshot
         /\ Record(snapshot)
         /\ Announce(SnapshotMessage(latest_version', snapshot))
      \/ /\ latest_snapshot # NoSnapshot
         /\ ~HasChanges(delta)
         /\ latest_snapshot' = snapshot
         /\ UNCHANGED <<latest_version, stdout, ghosts>>
      \/ /\ latest_snapshot # NoSnapshot
         /\ HasChanges(delta)
         /\ Record(snapshot)
         /\ Announce(DeltaMessage(latest_version, latest_version',
                                  Patch(snapshot, delta)))

(* A watched event or a poll tick while subscribed.                        *)
WatchedRefresh ==
  \E plan \in RefreshPlan :
    /\ serving
    /\ subscribed
    /\ ShouldRefresh(plan)
    /\ \E snapshot \in Refreshes(latest_snapshot, plan) : Update(snapshot)
    /\ UNCHANGED <<serving, subscribed, client>>

(* A read error in a watched refresh, or an error on stdin, ends the serve *)
(* loop at once, without a goodbye.                                        *)
Fail ==
  /\ serving
  /\ serving' = FALSE
  /\ UNCHANGED <<subscribed, latest_snapshot, latest_version, stdout, client, ghosts>>

(* End of stdin, or of the watcher's events.                               *)
Goodbye ==
  /\ serving
  /\ PipeHasRoom
  /\ stdout' = Append(stdout, [type |-> "goodbye"])
  /\ serving' = FALSE
  /\ UNCHANGED <<subscribed, latest_snapshot, latest_version, client, ghosts>>

-----------------------------------------------------------------------------
(* The client: a snapshot replaces its copy; a delta extends it when it    *)
(* starts at the client's version and otherwise reveals a gap, after which *)
(* the copy is left alone until the next snapshot.                         *)

Extends(message) ==
  /\ client.snapshot # NoSnapshot
  /\ ~client.gap
  /\ message.previous_version = client.version

ReceiveSnapshot ==
  /\ Head(stdout).type = "snapshot"
  /\ client' = [version |-> Head(stdout).version, gap |-> FALSE,
                snapshot |-> Head(stdout).snapshot]

ReceiveDelta ==
  /\ Head(stdout).type = "delta"
  /\ client' = IF Extends(Head(stdout))
               THEN [version |-> Head(stdout).version, gap |-> FALSE,
                     snapshot |-> Apply(client.snapshot, Head(stdout).patch)]
               ELSE [version |-> client.version, gap |-> TRUE,
                     snapshot |-> client.snapshot]

ReceiveGoodbye == Head(stdout).type = "goodbye" /\ client' = client

Receive ==
  /\ stdout # <<>>
  /\ ReceiveSnapshot \/ ReceiveDelta \/ ReceiveGoodbye
  /\ stdout' = Tail(stdout)
  /\ UNCHANGED <<state, ghosts>>

-----------------------------------------------------------------------------

Next ==
  \/ Refresh \/ Subscribe \/ Unsubscribe
  \/ WatchedRefresh \/ Fail \/ Goodbye
  \/ Receive

Spec == Init /\ [][Next]_vars

-----------------------------------------------------------------------------
(* Properties.                                                             *)

AgreesWith(snapshot, version) ==
  \A f \in ComparedField : snapshot[f] = published[version][f]

(* The copy a client builds by applying patches is, in every section a     *)
(* delta compares, the snapshot the process recorded under the version the *)
(* client holds: nothing is lost by sending changed sections only, by      *)
(* replacing the baseline without a version when nothing changed, or by    *)
(* rebasing it under explicit refreshes.                                   *)
MirrorIsPublished ==
  client.snapshot # NoSnapshot =>
    /\ client.version \in 1..latest_version
    /\ AgreesWith(client.snapshot, client.version)

(* A version reaches the client unless an id-less gitseer/refresh took it. *)
(* Once stdout is read to its end, the client is at the latest version, or *)
(* every version it misses was silent, or it has seen the gap and knows.   *)
(* And a client that sees a gap is right: a silent version lies ahead of   *)
(* its copy.                                                               *)
LagIsSilent ==
  /\ stdout = <<>> /\ ~client.gap =>
       (client.version + 1)..latest_version \subseteq silent
  /\ client.gap => \E v \in silent : client.version < v

(* What all this is for: a client that has read everything, and that no    *)
(* silent version has overtaken, holds the latest snapshot of the process  *)
(* in every section a delta compares, although updates without changes     *)
(* replace that snapshot and tell nobody.                                  *)
CopyIsLatest ==
  /\ stdout = <<>> /\ latest_snapshot # NoSnapshot
  /\ (client.version + 1)..latest_version \cap silent = {}
  => /\ client.snapshot # NoSnapshot
     /\ \A f \in ComparedField : client.snapshot[f] = latest_snapshot[f]

(* README, Stream Contract: an observed change is a delta.  A delta says   *)
(* neither less nor more: it carries the sections in which the snapshots   *)
(* published under its two versions differ, and there is one at least.     *)
DeltasAreExact ==
  \A i \in DOMAIN stdout :
    LET m == stdout[i]
    IN  m.type = "delta" =>
          /\ DOMAIN m.patch = PatchFields(Delta(published[m.previous_version],
                                                published[m.version]))
          /\ DOMAIN m.patch # {}

(* README, Stream Contract: monotonic versions.  The client's version      *)
(* never goes back, and its copy never changes under the same version.     *)
Advances ==
  client.version' > client.version \/ UNCHANGED <<client.version, client.snapshot>>

ClientNeverGoesBack == [][Advances]_vars

(* README, Stream Contract: a recovery "encodes every observed change as a *)
(* versioned delta against that baseline".  If so, the latest snapshot is  *)
(* the one recorded under the latest version.                              *)
EveryChangeIsEncoded ==
  latest_snapshot # NoSnapshot => latest_snapshot = published[latest_version]

-----------------------------------------------------------------------------
(* The stream implements StateStream: what the client can tell apart is    *)
(* the compared part of a snapshot.                                        *)

NoState == [f \in {} |-> NoIgnored]

Compared(snapshot) ==
  IF snapshot = NoSnapshot THEN NoState ELSE [f \in ComparedField |-> snapshot[f]]

Abstract ==
  INSTANCE StateStream WITH
    State  <- [ComparedField -> Value],
    log    <- [v \in Version |-> Compared(published[v])],
    latest <- latest_version,
    seen   <- client.version,
    copy   <- Compared(client.snapshot)

AbstractSpec == Abstract!Spec

=============================================================================
