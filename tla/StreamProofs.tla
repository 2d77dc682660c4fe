---------------------------- MODULE StreamProofs ----------------------------
(***************************************************************************)
(* The stream delivers what it records: the client's copy is the snapshot  *)
(* published under its version, its version only grows, and what it misses *)
(* was recorded silently, for every set of domains and values and every    *)
(* number of versions.                                                     *)
(***************************************************************************)
EXTENDS Stream, PlansProofs, TLAPS

-----------------------------------------------------------------------------
(* Facts about snapshots, deltas and patches.                              *)

(* A PathState has its three parts, and all but the conflicts are compared.*)
LEMMA FieldFacts ==
  /\ PathField \subseteq Field
  /\ ComparedField \subseteq Field
  /\ NoSnapshot \notin Snapshot
<1>1. "Paths" \in RefreshDomain
  BY DomainAssumption
<1>2. PathField \subseteq Field
  BY <1>1 DEF Field, FieldsOf
<1> QED
  BY <1>2, ValueAssumption DEF ComparedField

(* A refresh returns a snapshot.                                           *)
LEMMA RefreshesType ==
  ASSUME NEW previous, NEW plan
  PROVE  Refreshes(previous, plan) \subseteq Snapshot
BY DEF Refreshes, Readable

(* A patch carries fields of the snapshot it is taken from.                *)
LEMMA PatchType ==
  ASSUME NEW previous \in Snapshot, NEW current \in Snapshot
  PROVE  /\ PatchFields(Delta(previous, current)) \subseteq Field
         /\ Patch(current, Delta(previous, current)) \in PatchSet
         /\ DOMAIN Patch(current, Delta(previous, current))
              = PatchFields(Delta(previous, current))
<1> DEFINE fields == PatchFields(Delta(previous, current))
           patch  == Patch(current, Delta(previous, current))
<1>1. fields \subseteq Field
  BY FieldFacts DEF PatchFields, Delta
<1>2. patch = [f \in fields |-> current[f]]
  BY DEF Patch
<1>3. patch \in [fields -> Value]
  BY <1>1, <1>2 DEF Snapshot
<1> QED
  BY <1>1, <1>2, <1>3 DEF PatchSet

(* A patch says the new value of each field it carries, and the fields a   *)
(* delta compares that it does not carry are the same as before.           *)
LEMMA PatchCarriesChanges ==
  ASSUME NEW previous \in Snapshot, NEW current \in Snapshot,
         NEW f \in ComparedField
  PROVE  LET patch == Patch(current, Delta(previous, current))
         IN  IF f \in DOMAIN patch THEN patch[f] = current[f]
                                   ELSE previous[f] = current[f]
BY PatchType DEF Patch, PatchFields, Delta

(* Applying a patch to a snapshot gives a snapshot.                        *)
LEMMA ApplyType ==
  ASSUME NEW snapshot \in Snapshot, NEW patch \in PatchSet
  PROVE  Apply(snapshot, patch) \in Snapshot
<1>1. PICK fields \in SUBSET Field : patch \in [fields -> Value]
  BY DEF PatchSet
<1>2. \A f \in Field :
        (IF f \in DOMAIN patch THEN patch[f] ELSE snapshot[f]) \in Value
  BY <1>1 DEF Snapshot
<1> QED
  BY <1>2 DEF Apply, Snapshot

(* A client that holds the compared part of the previous snapshot and      *)
(* applies the patch holds the compared part of the current one, whatever  *)
(* its conflict-stage metadata was.                                        *)
THEOREM PatchRestores ==
  ASSUME NEW previous \in Snapshot, NEW current \in Snapshot,
         NEW copy \in Snapshot,
         \A f \in ComparedField : copy[f] = previous[f]
  PROVE  \A f \in ComparedField :
           Apply(copy, Patch(current, Delta(previous, current)))[f] = current[f]
<1> DEFINE patch == Patch(current, Delta(previous, current))
<1> SUFFICES ASSUME NEW f \in ComparedField
             PROVE  Apply(copy, patch)[f] = current[f]
  OBVIOUS
<1>1. f \in Field
  BY FieldFacts
<1>2. Apply(copy, patch)[f] = IF f \in DOMAIN patch THEN patch[f] ELSE copy[f]
  BY <1>1 DEF Apply
<1>3. IF f \in DOMAIN patch THEN patch[f] = current[f]
                            ELSE previous[f] = current[f]
  BY PatchCarriesChanges
<1> QED
  BY <1>2, <1>3

(* README, Refresh Contract: "Unaffected libgit2-backed state sections are *)
(* retained from the previous snapshot."  A delta compares equal what a    *)
(* plan does not name, and its patch carries sections of the plan alone.   *)
PlannedField(plan) == UNION {FieldsOf(d) : d \in Refreshed(plan)}

THEOREM RefreshRetains ==
  ASSUME NEW previous \in Snapshot, NEW plan \in RefreshPlan,
         NEW current \in Refreshes(previous, plan)
  PROVE  /\ \A f \in Field \ PlannedField(plan) : current[f] = previous[f]
         /\ PatchFields(Delta(previous, current)) \subseteq PlannedField(plan)
<1>1. current \in Snapshot /\ previous # NoSnapshot
  BY RefreshesType, FieldFacts
<1>2. \A f \in Field \ PlannedField(plan) : current[f] = previous[f]
  <2>1. CASE plan.kind = "Full"
    BY <2>1 DEF PlannedField, Refreshed, Field
  <2>2. CASE plan.kind # "Full"
    BY <1>1, <2>2 DEF Refreshes, PlannedField
  <2> QED
    BY <2>1, <2>2
<1>3. Delta(previous, current) \subseteq PlannedField(plan)
  BY <1>2, FieldFacts DEF Delta
<1>4. PlannedField(plan) \cap PathField # {} => PathField \subseteq PlannedField(plan)
  <2> SUFFICES ASSUME NEW f \in PlannedField(plan) \cap PathField
               PROVE  PathField \subseteq PlannedField(plan)
    OBVIOUS
  <2>1. PICK d \in Refreshed(plan) : f \in FieldsOf(d)
    BY DEF PlannedField
  <2>2. d = "Paths"
    <3>1. d \in DOMAIN Position
      BY <2>1, RefreshedType, DomainAssumption
    <3>2. d \notin PathField
      BY <3>1 DEF Position, PathField
    <3> QED
      BY <2>1, <3>2 DEF FieldsOf
  <2> QED
    BY <2>1, <2>2 DEF PlannedField, FieldsOf
<1> QED
  BY <1>2, <1>3, <1>4 DEF PatchFields

-----------------------------------------------------------------------------
(* Facts about messages and the pipe.                                      *)

LEMMA MessageTypes ==
  ASSUME NEW version \in Version
  PROVE  /\ \A s \in Snapshot : SnapshotMessage(version, s) \in Message
         /\ \A previous_version \in Version, patch \in PatchSet :
              DeltaMessage(previous_version, version, patch) \in Message
         /\ [type |-> "goodbye"] \in Message
BY DEF SnapshotMessage, DeltaMessage, Message

(* What a message of each type holds.                                      *)
LEMMA MessageFacts ==
  ASSUME NEW m \in Message
  PROVE  /\ m.type \in {"snapshot", "delta", "goodbye"}
         /\ m.type = "snapshot" => m.version \in Version /\ m.snapshot \in Snapshot
         /\ m.type = "delta" => /\ m.version \in Version
                               /\ m.previous_version \in Version
                               /\ m.patch \in PatchSet
BY DEF Message

LEMMA AppendFacts ==
  ASSUME NEW messages \in Seq(Message), NEW m \in Message
  PROVE  /\ Append(messages, m) \in Seq(Message)
         /\ DOMAIN messages = 1..Len(messages)
         /\ DOMAIN Append(messages, m) = 1..(Len(messages) + 1)
         /\ Len(messages) \in Nat
         /\ Append(messages, m)[Len(messages) + 1] = m
         /\ \A i \in 1..Len(messages) :
              messages[i] \in Message /\ Append(messages, m)[i] = messages[i]
OBVIOUS

LEMMA TailFacts ==
  ASSUME NEW messages \in Seq(Message), messages # <<>>
  PROVE  /\ Tail(messages) \in Seq(Message)
         /\ Head(messages) \in Message
         /\ Head(messages) = messages[1]
         /\ Len(messages) \in Nat \ {0}
         /\ DOMAIN messages = 1..Len(messages)
         /\ DOMAIN Tail(messages) = 1..(Len(messages) - 1)
         /\ \A i \in 1..Len(messages) : messages[i] \in Message
         /\ \A i \in 1..(Len(messages) - 1) : Tail(messages)[i] = messages[i + 1]
OBVIOUS

(* Recording gives the snapshot the next version and leaves what is        *)
(* published under earlier versions alone.                                 *)
LEMMA RecordFacts ==
  ASSUME TypeOK, NEW snapshot \in Snapshot, Record(snapshot)
  PROVE  /\ latest_version' = latest_version + 1
         /\ latest_version' \in Version
         /\ latest_snapshot' = snapshot
         /\ published' \in [Version -> Snapshot \cup {NoSnapshot}]
         /\ published'[latest_version'] = snapshot
         /\ \A v \in 1..latest_version : v \in Version /\ published'[v] = published[v]
<1>1. latest_version + 1 \in Version /\ latest_version' = latest_version + 1
  BY BoundAssumption DEF TypeOK, Record, Version
<1>2. published' = [published EXCEPT ![latest_version'] = snapshot]
  BY DEF Record
<1>3. published \in [Version -> Snapshot \cup {NoSnapshot}]
  BY DEF TypeOK
<1>4. \A v \in 1..latest_version : v \in Version /\ v # latest_version'
  BY <1>1, BoundAssumption DEF TypeOK, Version
<1>5. latest_snapshot' = snapshot
  BY DEF Record
<1> QED
  BY <1>1, <1>2, <1>3, <1>4, <1>5

-----------------------------------------------------------------------------
(* What a step does to the stream.  The requests and refreshes come down   *)
(* to six effects; the serve loop's own flags do not matter to them.       *)

AnnounceSnapshot ==
  \E snapshot \in Snapshot :
    /\ Record(snapshot)
    /\ Announce(SnapshotMessage(latest_version', snapshot))
    /\ UNCHANGED client

AnnounceDelta ==
  \E snapshot \in Snapshot :
    /\ latest_snapshot # NoSnapshot
    /\ HasChanges(Delta(latest_snapshot, snapshot))
    /\ Record(snapshot)
    /\ Announce(DeltaMessage(latest_version, latest_version',
                            Patch(snapshot, Delta(latest_snapshot, snapshot))))
    /\ UNCHANGED client

RecordSilently ==
  \E snapshot \in Snapshot :
    /\ Record(snapshot)
    /\ silent' = silent \cup {latest_version'}
    /\ UNCHANGED <<stdout, client>>

Rebase ==
  \E snapshot \in Snapshot :
    /\ latest_snapshot # NoSnapshot
    /\ ~HasChanges(Delta(latest_snapshot, snapshot))
    /\ latest_snapshot' = snapshot
    /\ UNCHANGED <<latest_version, stdout, client, ghosts>>

SayGoodbye ==
  /\ stdout' = Append(stdout, [type |-> "goodbye"])
  /\ UNCHANGED <<latest_snapshot, latest_version, client, ghosts>>

Unnoticed == UNCHANGED <<latest_snapshot, latest_version, stdout, client, ghosts>>

LEMMA Effects ==
  ASSUME Next
  PROVE  \/ AnnounceSnapshot \/ AnnounceDelta \/ RecordSilently \/ Rebase
         \/ SayGoodbye \/ Unnoticed \/ Receive
<1>1. CASE Refresh
  BY <1>1 DEF Refresh, Readable, RecordSilently, AnnounceSnapshot
<1>2. CASE Subscribe
  BY <1>2 DEF Subscribe, Readable, AnnounceSnapshot, Unnoticed
<1>3. CASE Unsubscribe
  BY <1>3 DEF Unsubscribe, Unnoticed
<1>4. CASE WatchedRefresh
  <2>1. PICK plan \in RefreshPlan :
          /\ \E snapshot \in Refreshes(latest_snapshot, plan) : Update(snapshot)
          /\ UNCHANGED client
    BY <1>4 DEF WatchedRefresh
  <2>2. PICK snapshot \in Snapshot : Update(snapshot)
    BY <2>1, RefreshesType
  <2> QED
    BY <2>1, <2>2 DEF Update, AnnounceSnapshot, AnnounceDelta, Rebase
<1>5. CASE Fail
  BY <1>5 DEF Fail, Unnoticed
<1>6. CASE Goodbye
  BY <1>6 DEF Goodbye, SayGoodbye
<1> QED
  BY <1>1, <1>2, <1>3, <1>4, <1>5, <1>6 DEF Next

-----------------------------------------------------------------------------
(* Types.                                                                  *)

(* Versions are in use exactly when there is a snapshot.  Without it, an   *)
(* update before any baseline could number a delta from version 0.         *)
Numbered == latest_version = 0 <=> latest_snapshot = NoSnapshot

TypeInv == TypeOK /\ Numbered

LEMMA InitTypes == Init => TypeInv
<1> SUFFICES ASSUME Init PROVE TypeInv
  OBVIOUS
<1>1. 0 \in 0..MaxVersion
  BY BoundAssumption
<1>2. stdout \in Seq(Message)
  BY DEF Init
<1> QED
  BY <1>1, <1>2 DEF Init, TypeInv, TypeOK, Numbered

(* The flags of the serve loop stay Boolean.                               *)
LEMMA FlagTypes ==
  ASSUME TypeOK, [Next]_vars
  PROVE  serving' \in BOOLEAN /\ subscribed' \in BOOLEAN
<1> USE DEF TypeOK
<1>1. CASE Refresh
  BY <1>1 DEF Refresh
<1>2. CASE Subscribe
  BY <1>2 DEF Subscribe
<1>3. CASE Unsubscribe
  BY <1>3 DEF Unsubscribe
<1>4. CASE WatchedRefresh
  BY <1>4 DEF WatchedRefresh
<1>5. CASE Fail
  BY <1>5 DEF Fail
<1>6. CASE Goodbye
  BY <1>6 DEF Goodbye
<1>7. CASE Receive
  BY <1>7 DEF Receive, state
<1>8. CASE UNCHANGED vars
  BY <1>8 DEF vars, state
<1> QED
  BY <1>1, <1>2, <1>3, <1>4, <1>5, <1>6, <1>7, <1>8 DEF Next

(* What the client holds after it has read a message.                      *)
LEMMA ClientTypes ==
  ASSUME TypeOK, Receive
  PROVE  /\ client' \in [version : 0..MaxVersion, gap : BOOLEAN,
                         snapshot : Snapshot \cup {NoSnapshot}]
         /\ stdout' \in Seq(Message)
<1>1. /\ Head(stdout) \in Message
      /\ stdout' \in Seq(Message)
  BY TailFacts DEF TypeOK, Receive
<1>2. Version \subseteq 0..MaxVersion
  BY BoundAssumption DEF Version
<1>3. CASE ReceiveSnapshot
  <2>1. Head(stdout).version \in Version /\ Head(stdout).snapshot \in Snapshot
    BY <1>1, <1>3, MessageFacts DEF ReceiveSnapshot
  <2> QED
    BY <1>1, <1>2, <1>3, <2>1 DEF ReceiveSnapshot
<1>4. CASE ReceiveDelta /\ Extends(Head(stdout))
  <2>1. Head(stdout).version \in Version /\ Head(stdout).patch \in PatchSet
    BY <1>1, <1>4, MessageFacts DEF ReceiveDelta
  <2>2. client.snapshot \in Snapshot
    BY <1>4 DEF Extends, TypeOK
  <2>3. Apply(client.snapshot, Head(stdout).patch) \in Snapshot
    BY <2>1, <2>2, ApplyType
  <2> QED
    BY <1>1, <1>2, <1>4, <2>1, <2>3 DEF ReceiveDelta
<1>5. CASE ReceiveDelta /\ ~Extends(Head(stdout))
  BY <1>1, <1>5 DEF ReceiveDelta, TypeOK
<1>6. CASE ReceiveGoodbye
  BY <1>1, <1>6 DEF ReceiveGoodbye, TypeOK
<1> QED
  BY <1>3, <1>4, <1>5, <1>6 DEF Receive

LEMMA NextTypes ==
  ASSUME TypeInv, [Next]_vars
  PROVE  TypeInv'
<1> USE DEF TypeInv
<1>1. serving' \in BOOLEAN /\ subscribed' \in BOOLEAN
  BY FlagTypes
<1>2. CASE AnnounceSnapshot
  <2>1. PICK snapshot \in Snapshot :
          /\ Record(snapshot)
          /\ Announce(SnapshotMessage(latest_version', snapshot))
          /\ UNCHANGED client
    BY <1>2 DEF AnnounceSnapshot
  <2>2. stdout' \in Seq(Message) /\ silent' = silent
    BY <2>1, RecordFacts, MessageTypes, AppendFacts DEF Announce, TypeOK
  <2> QED
    BY <1>1, <2>1, <2>2, RecordFacts, FieldFacts DEF TypeOK, Numbered, Version
<1>3. CASE AnnounceDelta
  <2>1. PICK snapshot \in Snapshot :
          /\ latest_snapshot # NoSnapshot
          /\ Record(snapshot)
          /\ Announce(DeltaMessage(latest_version, latest_version',
                                  Patch(snapshot, Delta(latest_snapshot, snapshot))))
          /\ UNCHANGED client
    BY <1>3 DEF AnnounceDelta
  <2>2. latest_snapshot \in Snapshot /\ latest_version \in Version
    BY <2>1 DEF TypeOK, Numbered, Version
  <2>3. Patch(snapshot, Delta(latest_snapshot, snapshot)) \in PatchSet
    BY <2>2, PatchType
  <2>4. stdout' \in Seq(Message) /\ silent' = silent
    BY <2>1, <2>2, <2>3, RecordFacts, MessageTypes, AppendFacts DEF Announce, TypeOK
  <2> QED
    BY <1>1, <2>1, <2>4, RecordFacts, FieldFacts DEF TypeOK, Numbered, Version
<1>4. CASE RecordSilently
  <2>1. PICK snapshot \in Snapshot :
          /\ Record(snapshot)
          /\ silent' = silent \cup {latest_version'}
          /\ UNCHANGED <<stdout, client>>
    BY <1>4 DEF RecordSilently
  <2>2. /\ latest_version' \in Version
        /\ latest_snapshot' = snapshot
        /\ published' \in [Version -> Snapshot \cup {NoSnapshot}]
    BY <2>1, RecordFacts
  <2>3. silent' \subseteq Version
    BY <2>1, <2>2 DEF TypeOK
  <2>4. stdout' = stdout /\ client' = client
    BY <2>1
  <2>5. latest_version' # 0 /\ latest_version' \in 0..MaxVersion
    BY <2>2, BoundAssumption DEF Version
  <2>6. latest_snapshot' # NoSnapshot
    BY <2>2, FieldFacts
  <2> QED
    BY <1>1, <2>2, <2>3, <2>4, <2>5, <2>6 DEF TypeOK, Numbered
<1>5. CASE Rebase
  BY <1>1, <1>5, FieldFacts DEF Rebase, TypeOK, Numbered, ghosts
<1>6. CASE SayGoodbye
  <2>1. stdout' \in Seq(Message)
    BY <1>6, BoundAssumption, AppendFacts DEF SayGoodbye, TypeOK, Message
  <2> QED
    BY <1>1, <1>6, <2>1 DEF SayGoodbye, TypeOK, Numbered, ghosts
<1>7. CASE Unnoticed
  BY <1>1, <1>7 DEF Unnoticed, TypeOK, Numbered, ghosts
<1>8. CASE Receive
  BY <1>1, <1>8, ClientTypes DEF Receive, TypeOK, Numbered, state, ghosts
<1>9. CASE UNCHANGED vars
  BY <1>9 DEF vars, state, ghosts, TypeOK, Numbered
<1> QED
  BY <1>2, <1>3, <1>4, <1>5, <1>6, <1>7, <1>8, <1>9, Effects

(* The types of the process, the pipe and the client hold in every         *)
(* reachable state.                                                        *)
THEOREM TypeCorrect == Spec => []TypeOK
<1>1. Init => TypeInv
  BY InitTypes
<1>2. TypeInv /\ [Next]_vars => TypeInv'
  BY NextTypes
<1>3. TypeInv => TypeOK
  BY DEF TypeInv
<1> QED
  BY <1>1, <1>2, <1>3, PTL DEF Spec

-----------------------------------------------------------------------------
(* The copy is what was published.                                         *)

(* The baseline of the next delta is the snapshot published last, in every *)
(* field a delta compares.                                                 *)
LatestIsPublished ==
  latest_snapshot # NoSnapshot => AgreesWith(latest_snapshot, latest_version)

(* A message tells the truth about the log: a snapshot is the one that was *)
(* published, and a delta leads from one published snapshot to the next.   *)
Truthful(m, log, last) ==
  /\ m.type = "snapshot" => m.version \in 1..last /\ m.snapshot = log[m.version]
  /\ m.type = "delta" =>
       /\ m.version \in 1..last
       /\ m.previous_version \in 1..last
       /\ m.version = m.previous_version + 1
       /\ \A f \in ComparedField :
            IF f \in DOMAIN m.patch
            THEN m.patch[f] = log[m.version][f]
            ELSE log[m.previous_version][f] = log[m.version][f]

TruthfulPipe ==
  \A i \in DOMAIN stdout : Truthful(stdout[i], published, latest_version)

CopyHasVersion == client.snapshot = NoSnapshot <=> client.version = 0

ContentInv ==
  TypeInv /\ LatestIsPublished /\ TruthfulPipe /\ CopyHasVersion /\ MirrorIsPublished

(* Recording another version makes no message in the pipe untrue, and no   *)
(* copy of an earlier version.                                             *)
LEMMA RecordKeepsTruth ==
  ASSUME TypeOK, NEW snapshot \in Snapshot, Record(snapshot)
  PROVE  /\ \A m \in Message : Truthful(m, published, latest_version)
                               => Truthful(m, published', latest_version')
         /\ 1..latest_version \subseteq 1..latest_version'
         /\ \A v \in 1..latest_version : published'[v] = published[v]
         /\ (LatestIsPublished)'
<1>1. /\ latest_version' = latest_version + 1
      /\ latest_version \in Nat
      /\ published'[latest_version'] = snapshot
      /\ latest_snapshot' = snapshot
      /\ \A v \in 1..latest_version : published'[v] = published[v]
  BY RecordFacts, BoundAssumption DEF TypeOK
<1>2. 1..latest_version \subseteq 1..latest_version'
  BY <1>1
<1>3. ASSUME NEW m \in Message, Truthful(m, published, latest_version)
      PROVE  Truthful(m, published', latest_version')
  BY <1>1, <1>2, <1>3 DEF Truthful
<1>4. (LatestIsPublished)'
  BY <1>1 DEF LatestIsPublished, AgreesWith
<1> QED
  BY <1>1, <1>2, <1>3, <1>4

(* Appending a true message to a true pipe.                                *)
LEMMA TruthfulAppend ==
  ASSUME NEW messages \in Seq(Message), NEW m \in Message, NEW log, NEW last,
         \A i \in DOMAIN messages : Truthful(messages[i], log, last),
         Truthful(m, log, last)
  PROVE  \A i \in DOMAIN Append(messages, m) :
           Truthful(Append(messages, m)[i], log, last)
<1> SUFFICES ASSUME NEW i \in DOMAIN Append(messages, m)
             PROVE  Truthful(Append(messages, m)[i], log, last)
  OBVIOUS
<1>1. i \in 1..Len(messages) \/ i = Len(messages) + 1
  BY AppendFacts
<1> QED
  BY <1>1, AppendFacts

LEMMA ContentAnnounceSnapshot ==
  ASSUME ContentInv, AnnounceSnapshot
  PROVE  (LatestIsPublished /\ TruthfulPipe /\ CopyHasVersion /\ MirrorIsPublished)'
<1> USE DEF ContentInv, TypeInv
<1>1. PICK snapshot \in Snapshot :
        /\ Record(snapshot)
        /\ Announce(SnapshotMessage(latest_version', snapshot))
        /\ UNCHANGED client
  BY DEF AnnounceSnapshot
<1> DEFINE m == SnapshotMessage(latest_version', snapshot)
<1>2. m \in Message /\ stdout \in Seq(Message) /\ stdout' = Append(stdout, m)
  BY <1>1, RecordFacts, MessageTypes DEF Announce, TypeOK
<1>3. Truthful(m, published', latest_version')
  BY <1>1, RecordFacts, BoundAssumption DEF Truthful, SnapshotMessage, Version, TypeOK
<1>4. \A i \in DOMAIN stdout : Truthful(stdout[i], published', latest_version')
  BY <1>1, <1>2, RecordKeepsTruth DEF TruthfulPipe
<1>5. TruthfulPipe'
  <2> HIDE DEF m
  <2> QED
    BY <1>2, <1>3, <1>4, TruthfulAppend DEF TruthfulPipe
<1>6. (CopyHasVersion /\ MirrorIsPublished)'
  BY <1>1, RecordKeepsTruth DEF CopyHasVersion, MirrorIsPublished, AgreesWith
<1> QED
  BY <1>1, <1>5, <1>6, RecordKeepsTruth

LEMMA ContentAnnounceDelta ==
  ASSUME ContentInv, AnnounceDelta
  PROVE  (LatestIsPublished /\ TruthfulPipe /\ CopyHasVersion /\ MirrorIsPublished)'
<1> USE DEF ContentInv, TypeInv
<1>1. PICK snapshot \in Snapshot :
        /\ latest_snapshot # NoSnapshot
        /\ Record(snapshot)
        /\ Announce(DeltaMessage(latest_version, latest_version',
                                Patch(snapshot, Delta(latest_snapshot, snapshot))))
        /\ UNCHANGED client
  BY DEF AnnounceDelta
<1> DEFINE patch == Patch(snapshot, Delta(latest_snapshot, snapshot))
           m     == DeltaMessage(latest_version, latest_version', patch)
<1>2. latest_snapshot \in Snapshot /\ latest_version \in Version
  BY <1>1 DEF TypeOK, Numbered, Version
<1>3. m \in Message /\ stdout \in Seq(Message) /\ stdout' = Append(stdout, m)
  BY <1>1, <1>2, RecordFacts, MessageTypes, PatchType DEF Announce, TypeOK
<1>4. /\ m.type = "delta"
      /\ m.previous_version = latest_version
      /\ m.version = latest_version'
      /\ m.patch = patch
  BY DEF DeltaMessage
<1>5. /\ m.version = m.previous_version + 1
      /\ m.version \in 1..latest_version'
      /\ m.previous_version \in 1..latest_version'
  BY <1>1, <1>2, <1>4, RecordFacts, BoundAssumption DEF Version
<1>6. ASSUME NEW f \in ComparedField
      PROVE  IF f \in DOMAIN patch
             THEN patch[f] = published'[latest_version'][f]
             ELSE published'[latest_version][f] = published'[latest_version'][f]
  <2>1. published'[latest_version'] = snapshot
    BY <1>1, RecordFacts
  <2>2. latest_version \in 1..latest_version
    BY <1>2, BoundAssumption DEF Version
  <2>3. published'[latest_version] = published[latest_version]
    BY <1>1, <2>2, RecordFacts
  <2>4. latest_snapshot[f] = published[latest_version][f]
    BY <1>1 DEF LatestIsPublished, AgreesWith
  <2>5. IF f \in DOMAIN patch THEN patch[f] = snapshot[f]
                             ELSE latest_snapshot[f] = snapshot[f]
    BY <1>2, PatchCarriesChanges
  <2> HIDE DEF patch
  <2> QED
    BY <2>1, <2>3, <2>4, <2>5
<1> HIDE DEF m, patch
<1>7. Truthful(m, published', latest_version')
  BY <1>4, <1>5, <1>6 DEF Truthful
<1>8. \A i \in DOMAIN stdout : Truthful(stdout[i], published', latest_version')
  BY <1>1, <1>3, RecordKeepsTruth DEF TruthfulPipe
<1>9. TruthfulPipe'
  BY <1>3, <1>7, <1>8, TruthfulAppend DEF TruthfulPipe
<1>10. (CopyHasVersion /\ MirrorIsPublished)'
  BY <1>1, RecordKeepsTruth DEF CopyHasVersion, MirrorIsPublished, AgreesWith
<1> QED
  BY <1>1, <1>9, <1>10, RecordKeepsTruth

LEMMA ContentReceive ==
  ASSUME ContentInv, Receive
  PROVE  (LatestIsPublished /\ TruthfulPipe /\ CopyHasVersion /\ MirrorIsPublished)'
<1> USE DEF ContentInv, TypeInv
<1> DEFINE m == Head(stdout)
<1>1. UNCHANGED <<latest_snapshot, latest_version, published>>
  BY DEF Receive, state, ghosts
<1>2. LatestIsPublished'
  BY <1>1 DEF LatestIsPublished, AgreesWith
<1>3. stdout \in Seq(Message) /\ stdout # <<>> /\ stdout' = Tail(stdout)
  BY DEF Receive, TypeOK
<1>4. TruthfulPipe'
  <2> SUFFICES ASSUME NEW i \in DOMAIN Tail(stdout)
               PROVE  Truthful(Tail(stdout)[i], published, latest_version)
    BY <1>1, <1>3 DEF TruthfulPipe
  <2>1. Tail(stdout)[i] = stdout[i + 1] /\ i + 1 \in DOMAIN stdout
    BY <1>3, TailFacts
  <2> QED
    BY <2>1 DEF TruthfulPipe
<1>5. m \in Message /\ Truthful(m, published, latest_version)
  <2>1. m = stdout[1] /\ 1 \in DOMAIN stdout /\ m \in Message
    BY <1>3, TailFacts
  <2> QED
    BY <2>1 DEF TruthfulPipe
<1> HIDE DEF m
<1>6. CASE ReceiveSnapshot
  <2>1. /\ m.type = "snapshot"
        /\ client' = [version |-> m.version, gap |-> FALSE, snapshot |-> m.snapshot]
    BY <1>6 DEF ReceiveSnapshot, m
  <2>2. /\ m.version \in 1..latest_version
        /\ m.snapshot = published[m.version]
        /\ m.snapshot \in Snapshot
    BY <1>5, <2>1, MessageFacts DEF Truthful
  <2>3. client'.version # 0 /\ client'.snapshot # NoSnapshot
    BY <2>1, <2>2, FieldFacts DEF TypeOK
  <2>4. (MirrorIsPublished)'
    BY <1>1, <2>1, <2>2 DEF MirrorIsPublished, AgreesWith
  <2> QED
    BY <1>2, <1>4, <2>3, <2>4 DEF CopyHasVersion
<1>7. CASE ReceiveDelta /\ Extends(m)
  <2>1. /\ m.type = "delta"
        /\ client' = [version |-> m.version, gap |-> FALSE,
                      snapshot |-> Apply(client.snapshot, m.patch)]
    BY <1>7 DEF ReceiveDelta, m
  <2>2. /\ client.snapshot \in Snapshot
        /\ m.previous_version = client.version
        /\ AgreesWith(client.snapshot, client.version)
    BY <1>7 DEF Extends, TypeOK, MirrorIsPublished
  <2>3. m.patch \in PatchSet
    BY <1>5, <2>1, MessageFacts
  <2>4. /\ m.version \in 1..latest_version
        /\ \A f \in ComparedField :
             IF f \in DOMAIN m.patch
             THEN m.patch[f] = published[m.version][f]
             ELSE published[client.version][f] = published[m.version][f]
    BY <1>5, <2>1, <2>2 DEF Truthful
  <2>5. Apply(client.snapshot, m.patch) \in Snapshot
    BY <2>2, <2>3, ApplyType
  <2>6. AgreesWith(Apply(client.snapshot, m.patch), m.version)
    BY <2>2, <2>4, FieldFacts DEF AgreesWith, Apply
  <2>7. client'.version # 0 /\ client'.snapshot # NoSnapshot
    BY <2>1, <2>4, <2>5, FieldFacts DEF TypeOK
  <2>8. (MirrorIsPublished)'
    BY <1>1, <2>1, <2>4, <2>6 DEF MirrorIsPublished, AgreesWith
  <2> QED
    BY <1>2, <1>4, <2>7, <2>8 DEF CopyHasVersion
<1>8. CASE /\ client'.version = client.version
           /\ client'.snapshot = client.snapshot
  BY <1>1, <1>2, <1>4, <1>8 DEF CopyHasVersion, MirrorIsPublished, AgreesWith
<1>9. CASE ReceiveDelta /\ ~Extends(m)
  <2>1. client'.version = client.version /\ client'.snapshot = client.snapshot
    BY <1>9 DEF ReceiveDelta, m
  <2> QED
    BY <1>8, <2>1
<1> QED
  BY <1>6, <1>7, <1>8, <1>9 DEF Receive, ReceiveGoodbye

LEMMA NextContent ==
  ASSUME ContentInv, [Next]_vars
  PROVE  ContentInv'
<1>1. TypeInv'
  BY NextTypes DEF ContentInv
<1>2. SUFFICES (LatestIsPublished /\ TruthfulPipe /\ CopyHasVersion /\ MirrorIsPublished)'
  BY <1>1 DEF ContentInv
<1> USE DEF ContentInv, TypeInv
<1>3. CASE RecordSilently
  <2>1. PICK snapshot \in Snapshot : Record(snapshot) /\ UNCHANGED <<stdout, client>>
    BY <1>3 DEF RecordSilently
  <2>2. \A i \in DOMAIN stdout : stdout[i] \in Message
    BY DEF TypeOK
  <2>3. TruthfulPipe'
    BY <2>1, <2>2, RecordKeepsTruth DEF TruthfulPipe
  <2>4. (CopyHasVersion /\ MirrorIsPublished)'
    BY <2>1, RecordKeepsTruth DEF CopyHasVersion, MirrorIsPublished, AgreesWith
  <2> QED
    BY <2>1, <2>3, <2>4, RecordKeepsTruth
<1>4. CASE Rebase
  <2>1. PICK snapshot \in Snapshot :
          /\ latest_snapshot # NoSnapshot
          /\ ~HasChanges(Delta(latest_snapshot, snapshot))
          /\ latest_snapshot' = snapshot
          /\ UNCHANGED <<latest_version, stdout, client, published>>
    BY <1>4 DEF Rebase, ghosts
  <2>2. \A f \in ComparedField : latest_snapshot[f] = snapshot[f]
    BY <2>1 DEF HasChanges, Delta
  <2>3. LatestIsPublished'
    BY <2>1, <2>2 DEF LatestIsPublished, AgreesWith
  <2> QED
    BY <2>1, <2>3 DEF TruthfulPipe, CopyHasVersion, MirrorIsPublished, AgreesWith
<1>5. CASE SayGoodbye
  <2> DEFINE m == [type |-> "goodbye"]
  <2>1. /\ stdout' = Append(stdout, m)
        /\ UNCHANGED <<latest_snapshot, latest_version, client, published>>
    BY <1>5 DEF SayGoodbye, ghosts
  <2>2. m \in Message /\ stdout \in Seq(Message) /\ m.type = "goodbye"
    BY DEF Message, TypeOK
  <2>3. Truthful(m, published, latest_version)
    BY <2>2 DEF Truthful
  <2> HIDE DEF m
  <2>4. TruthfulPipe'
    BY <2>1, <2>2, <2>3, TruthfulAppend DEF TruthfulPipe
  <2> QED
    BY <2>1, <2>4 DEF LatestIsPublished, CopyHasVersion, MirrorIsPublished, AgreesWith
<1>6. CASE Unnoticed \/ UNCHANGED vars
  <2>1. UNCHANGED <<latest_snapshot, latest_version, stdout, client, published>>
    BY <1>6 DEF Unnoticed, vars, state, ghosts
  <2> QED
    BY <2>1 DEF LatestIsPublished, TruthfulPipe, CopyHasVersion,
                MirrorIsPublished, AgreesWith
<1> QED
  BY <1>3, <1>4, <1>5, <1>6, Effects,
     ContentAnnounceSnapshot, ContentAnnounceDelta, ContentReceive

LEMMA InitContent ==
  ASSUME Init
  PROVE  ContentInv
<1>1. stdout = <<>> /\ DOMAIN stdout = {}
  BY DEF Init
<1>2. TypeInv
  BY InitTypes
<1>3. /\ client.snapshot = NoSnapshot /\ client.version = 0
      /\ latest_snapshot = NoSnapshot
  BY DEF Init
<1> QED
  BY <1>1, <1>2, <1>3 DEF ContentInv, LatestIsPublished, TruthfulPipe,
                          CopyHasVersion, MirrorIsPublished

(* The inductive invariant holds in every reachable state: the pipe tells  *)
(* the truth about the log, and the baseline is published.                 *)
THEOREM ContentCorrect == Spec => []ContentInv
<1>1. Init => ContentInv
  BY InitContent
<1>2. ContentInv /\ [Next]_vars => ContentInv'
  BY NextContent
<1> QED
  BY <1>1, <1>2, PTL DEF Spec

(* The client's copy is the snapshot published under the client's version, *)
(* in every field a delta compares.                                        *)
THEOREM MirrorIsPublishedCorrect == Spec => []MirrorIsPublished
<1>1. ContentInv => MirrorIsPublished
  BY DEF ContentInv
<1> QED
  BY <1>1, ContentCorrect, PTL

-----------------------------------------------------------------------------
(* What the client misses was silent.                                      *)

IsState(m) == m.type # "goodbye"

Announced(messages, v) ==
  \E i \in DOMAIN messages : IsState(messages[i]) /\ messages[i].version = v

(* The versions in the pipe increase, and lie ahead of the client's.       *)
Increasing(messages, floor) ==
  \A i \in DOMAIN messages : IsState(messages[i]) =>
    /\ floor < messages[i].version
    /\ \A j \in DOMAIN messages :
         i < j /\ IsState(messages[j]) => messages[i].version < messages[j].version

(* Each version after a given one is silent, or is still in the pipe.      *)
Accounted(from, last, messages, quiet) ==
  \A v \in (from + 1)..last : v \in quiet \/ Announced(messages, v)

(* This holds of what follows the client's copy, and of what follows each  *)
(* message: a snapshot that ends a gap leaves no other gap behind it.      *)
AllAccounted ==
  /\ ~client.gap => Accounted(client.version, latest_version, stdout, silent)
  /\ \A i \in DOMAIN stdout :
       IsState(stdout[i]) =>
         Accounted(stdout[i].version, latest_version, stdout, silent)

GapIsSilent == client.gap => \E v \in silent : client.version < v

OrderInv ==
  ContentInv /\ Increasing(stdout, client.version) /\ AllAccounted /\ GapIsSilent

LEMMA StateFacts ==
  ASSUME NEW m \in Message, IsState(m)
  PROVE  m.version \in Version /\ m.type \in {"snapshot", "delta"}
BY MessageFacts DEF IsState

(* An appended message announces its version and hides no other.           *)
LEMMA AnnouncedAppend ==
  ASSUME NEW messages \in Seq(Message), NEW m \in Message, NEW v
  PROVE  /\ Announced(messages, v) => Announced(Append(messages, m), v)
         /\ IsState(m) /\ m.version = v => Announced(Append(messages, m), v)
<1> DEFINE longer == Append(messages, m)
<1>1. /\ DOMAIN messages = 1..Len(messages)
      /\ DOMAIN longer = 1..(Len(messages) + 1)
      /\ Len(messages) \in Nat
      /\ longer[Len(messages) + 1] = m
      /\ \A i \in 1..Len(messages) : longer[i] = messages[i]
  BY AppendFacts
<1> HIDE DEF longer
<1>2. Len(messages) + 1 \in DOMAIN longer
  BY <1>1
<1>3. ASSUME Announced(messages, v) PROVE Announced(longer, v)
  <2>1. PICK i \in DOMAIN messages : IsState(messages[i]) /\ messages[i].version = v
    BY <1>3 DEF Announced
  <2>2. i \in DOMAIN longer /\ longer[i] = messages[i]
    BY <1>1
  <2> QED
    BY <2>1, <2>2 DEF Announced
<1>4. ASSUME IsState(m), m.version = v PROVE Announced(longer, v)
  BY <1>1, <1>2, <1>4 DEF Announced
<1> QED
  BY <1>3, <1>4 DEF longer

(* Taking a message hides its version only.                                *)
LEMMA AnnouncedTail ==
  ASSUME NEW messages \in Seq(Message), messages # <<>>, NEW v,
         Announced(messages, v),
         ~(IsState(Head(messages)) /\ Head(messages).version = v)
  PROVE  Announced(Tail(messages), v)
<1>1. PICK i \in DOMAIN messages : IsState(messages[i]) /\ messages[i].version = v
  BY DEF Announced
<1>2. i # 1 /\ i \in 1..Len(messages) /\ Len(messages) \in Nat
  BY <1>1, TailFacts
<1>3. i - 1 \in DOMAIN Tail(messages) /\ Tail(messages)[i - 1] = messages[i]
  BY <1>2, TailFacts
<1> QED
  BY <1>1, <1>3 DEF Announced

(* The order survives an append at the end and the loss of the head.       *)
LEMMA IncreasingAppend ==
  ASSUME NEW messages \in Seq(Message), NEW m \in Message, NEW floor \in Nat,
         Increasing(messages, floor),
         IsState(m) => /\ floor < m.version
                       /\ \A i \in DOMAIN messages :
                            IsState(messages[i]) => messages[i].version < m.version
  PROVE  Increasing(Append(messages, m), floor)
<1> DEFINE longer == Append(messages, m)
<1>1. /\ DOMAIN messages = 1..Len(messages)
      /\ DOMAIN longer = 1..(Len(messages) + 1)
      /\ Len(messages) \in Nat
      /\ longer[Len(messages) + 1] = m
      /\ \A i \in 1..Len(messages) : longer[i] = messages[i]
  BY AppendFacts
<1> HIDE DEF longer
<1> SUFFICES ASSUME NEW i \in DOMAIN longer, IsState(longer[i])
             PROVE  /\ floor < longer[i].version
                    /\ \A j \in DOMAIN longer :
                         i < j /\ IsState(longer[j])
                           => longer[i].version < longer[j].version
  BY DEF Increasing, longer
<1>2. CASE i = Len(messages) + 1
  BY <1>1, <1>2
<1>3. CASE i \in 1..Len(messages)
  <2>1. floor < longer[i].version
    BY <1>1, <1>3 DEF Increasing
  <2>2. ASSUME NEW j \in DOMAIN longer, i < j, IsState(longer[j])
        PROVE  longer[i].version < longer[j].version
    <3>1. CASE j \in 1..Len(messages)
      BY <1>1, <1>3, <2>2, <3>1 DEF Increasing
    <3>2. CASE j = Len(messages) + 1
      BY <1>1, <1>3, <2>2, <3>2
    <3> QED
      BY <1>1, <3>1, <3>2
  <2> QED
    BY <2>1, <2>2
<1> QED
  BY <1>1, <1>2, <1>3

LEMMA IncreasingTail ==
  ASSUME NEW messages \in Seq(Message), messages # <<>>, NEW floor \in Nat,
         Increasing(messages, floor)
  PROVE  /\ Increasing(Tail(messages), floor)
         /\ IsState(Head(messages)) =>
              Increasing(Tail(messages), Head(messages).version)
<1>1. /\ DOMAIN messages = 1..Len(messages)
      /\ DOMAIN Tail(messages) = 1..(Len(messages) - 1)
      /\ Len(messages) \in Nat \ {0}
      /\ Head(messages) = messages[1]
      /\ \A i \in 1..(Len(messages) - 1) : Tail(messages)[i] = messages[i + 1]
  BY TailFacts
<1>2. \A i \in DOMAIN Tail(messages) : i + 1 \in DOMAIN messages /\ 1 < i + 1
  BY <1>1
<1>3. 1 \in DOMAIN messages
  BY <1>1
<1>4. Increasing(Tail(messages), floor)
  BY <1>1, <1>2 DEF Increasing
<1>5. ASSUME IsState(Head(messages))
      PROVE  Increasing(Tail(messages), Head(messages).version)
  BY <1>1, <1>2, <1>3, <1>4, <1>5 DEF Increasing
<1> QED
  BY <1>4, <1>5

(* No version in the pipe, nor the client's, is beyond the latest.         *)
LEMMA LatestIsLast ==
  ASSUME ContentInv
  PROVE  /\ latest_version \in Nat
         /\ client.version \in Nat /\ client.version <= latest_version
         /\ \A i \in DOMAIN stdout : IsState(stdout[i]) =>
              stdout[i].version \in Nat /\ stdout[i].version <= latest_version
<1>1. latest_version \in Nat /\ client.version \in Nat
  BY BoundAssumption DEF ContentInv, TypeInv, TypeOK
<1>2. client.version <= latest_version
  BY <1>1 DEF ContentInv, CopyHasVersion, MirrorIsPublished
<1>3. ASSUME NEW i \in DOMAIN stdout, IsState(stdout[i])
      PROVE  stdout[i].version \in 1..latest_version
  <2>1. stdout[i] \in Message
    BY DEF ContentInv, TypeInv, TypeOK
  <2>2. stdout[i].type \in {"snapshot", "delta"}
    BY <1>3, <2>1, StateFacts
  <2> QED
    BY <2>2 DEF ContentInv, TruthfulPipe, Truthful
<1> QED
  BY <1>1, <1>2, <1>3

(* Writing a message that announces the new version, or none.              *)
LEMMA OrderWrite ==
  ASSUME OrderInv, NEW m \in Message,
         stdout' = Append(stdout, m),
         UNCHANGED <<client, silent>>,
         \/ ~IsState(m) /\ UNCHANGED latest_version
         \/ /\ IsState(m)
            /\ m.version = latest_version + 1
            /\ latest_version' = latest_version + 1
  PROVE  (Increasing(stdout, client.version) /\ AllAccounted /\ GapIsSilent)'
<1>1. stdout \in Seq(Message)
  BY DEF OrderInv, ContentInv, TypeInv, TypeOK
<1>2. /\ latest_version \in Nat
      /\ client.version \in Nat /\ client.version <= latest_version
      /\ \A i \in DOMAIN stdout : IsState(stdout[i]) =>
           stdout[i].version \in Nat /\ stdout[i].version <= latest_version
  BY LatestIsLast DEF OrderInv
<1>3. Increasing(Append(stdout, m), client.version)
  BY <1>1, <1>2, IncreasingAppend DEF OrderInv
<1>4. ASSUME NEW from \in Nat, Accounted(from, latest_version, stdout, silent)
      PROVE  Accounted(from, latest_version', stdout', silent)
  <2> SUFFICES ASSUME NEW v \in (from + 1)..latest_version'
               PROVE  v \in silent \/ Announced(stdout', v)
    BY DEF Accounted
  <2>1. CASE v \in (from + 1)..latest_version
    BY <1>1, <1>4, <2>1, AnnouncedAppend DEF Accounted
  <2>2. CASE v \notin (from + 1)..latest_version
    <3>1. IsState(m) /\ m.version = v
      BY <1>2, <2>2
    <3> QED
      BY <1>1, <3>1, AnnouncedAppend
  <2> QED
    BY <2>1, <2>2
<1>5. ~client.gap => Accounted(client.version, latest_version', stdout', silent)
  BY <1>2, <1>4 DEF OrderInv, AllAccounted
<1>6. ASSUME NEW i \in DOMAIN stdout', IsState(stdout'[i])
      PROVE  Accounted(stdout'[i].version, latest_version', stdout', silent)
  <2>1. CASE i \in DOMAIN stdout
    <3>1. stdout'[i] = stdout[i]
      BY <1>1, <2>1, AppendFacts
    <3> QED
      BY <1>2, <1>4, <1>6, <2>1, <3>1 DEF OrderInv, AllAccounted
  <2>2. CASE i \notin DOMAIN stdout
    <3>1. stdout'[i] = m
      BY <1>1, <1>6, <2>2, AppendFacts
    <3> QED
      BY <1>2, <1>6, <3>1 DEF Accounted
  <2> QED
    BY <2>1, <2>2
<1>7. GapIsSilent'
  BY DEF OrderInv, GapIsSilent
<1>8. Increasing(stdout, client.version)'
  BY <1>3 DEF Increasing
<1>9. AllAccounted'
  BY <1>5, <1>6 DEF AllAccounted, Accounted
<1> QED
  BY <1>7, <1>8, <1>9

LEMMA OrderRecordSilently ==
  ASSUME OrderInv, RecordSilently
  PROVE  (Increasing(stdout, client.version) /\ AllAccounted /\ GapIsSilent)'
<1>1. /\ latest_version' = latest_version + 1
      /\ silent' = silent \cup {latest_version'}
      /\ UNCHANGED <<stdout, client>>
  BY RecordFacts DEF RecordSilently, OrderInv, ContentInv, TypeInv
<1>2. /\ latest_version \in Nat
      /\ client.version \in Nat
      /\ \A i \in DOMAIN stdout : IsState(stdout[i]) => stdout[i].version \in Nat
  BY LatestIsLast DEF OrderInv
<1>3. ASSUME NEW from \in Nat, Accounted(from, latest_version, stdout, silent)
      PROVE  Accounted(from, latest_version', stdout, silent')
  BY <1>1, <1>2, <1>3 DEF Accounted
<1>4. ~client.gap => Accounted(client.version, latest_version', stdout, silent')
  BY <1>2, <1>3 DEF OrderInv, AllAccounted
<1>5. \A i \in DOMAIN stdout : IsState(stdout[i]) =>
        Accounted(stdout[i].version, latest_version', stdout, silent')
  BY <1>2, <1>3 DEF OrderInv, AllAccounted
<1>6. AllAccounted'
  BY <1>1, <1>4, <1>5 DEF AllAccounted
<1>7. GapIsSilent'
  BY <1>1 DEF OrderInv, GapIsSilent
<1>8. Increasing(stdout, client.version)'
  BY <1>1 DEF OrderInv, Increasing
<1> QED
  BY <1>6, <1>7, <1>8

LEMMA OrderReceive ==
  ASSUME OrderInv, Receive
  PROVE  /\ (Increasing(stdout, client.version) /\ AllAccounted /\ GapIsSilent)'
         /\ client'.version > client.version
              \/ UNCHANGED <<client.version, client.snapshot>>
<1> DEFINE m == Head(stdout)
<1>1. /\ stdout \in Seq(Message) /\ stdout # <<>>
      /\ stdout' = Tail(stdout)
      /\ UNCHANGED <<latest_version, silent>>
  BY DEF Receive, OrderInv, ContentInv, TypeInv, TypeOK, state, ghosts
<1>2. /\ latest_version \in Nat
      /\ client.version \in Nat
      /\ \A i \in DOMAIN stdout : IsState(stdout[i]) =>
           stdout[i].version \in Nat /\ stdout[i].version <= latest_version
  BY LatestIsLast DEF OrderInv
<1>3. m = stdout[1] /\ 1 \in DOMAIN stdout /\ m \in Message
  BY <1>1, TailFacts
<1>4. Increasing(stdout, client.version)
  BY DEF OrderInv
<1>5. \A i \in DOMAIN stdout' : /\ stdout'[i] = stdout[i + 1]
                                /\ i + 1 \in DOMAIN stdout /\ 1 < i + 1
  BY <1>1, TailFacts
<1> HIDE DEF m
<1>6. ASSUME NEW from \in Nat, Accounted(from, latest_version, stdout, silent),
             IsState(m) => m.version <= from
      PROVE  Accounted(from, latest_version, stdout', silent)
  <2> SUFFICES ASSUME NEW v \in (from + 1)..latest_version, v \notin silent
               PROVE  Announced(stdout', v)
    BY DEF Accounted
  <2>1. Announced(stdout, v)
    BY <1>6 DEF Accounted
  <2>2. ~(IsState(m) /\ m.version = v)
    BY <1>2, <1>3, <1>6
  <2> QED
    BY <1>1, <2>1, <2>2, AnnouncedTail DEF m
<1>7. ASSUME NEW i \in DOMAIN stdout', IsState(stdout'[i])
      PROVE  Accounted(stdout'[i].version, latest_version, stdout', silent)
  <2>1. /\ stdout'[i].version \in Nat
        /\ Accounted(stdout'[i].version, latest_version, stdout, silent)
    BY <1>2, <1>5, <1>7 DEF OrderInv, AllAccounted
  <2>2. IsState(m) => m.version <= stdout'[i].version
    BY <1>2, <1>3, <1>4, <1>5, <1>7 DEF Increasing
  <2> QED
    BY <1>6, <2>1, <2>2
<1>8. CASE IsState(m) /\ client'.version = m.version /\ client'.gap = FALSE
  <2>1. client.version < m.version
    BY <1>3, <1>4, <1>8 DEF Increasing
  <2>2. Increasing(stdout', client'.version)
    BY <1>1, <1>2, <1>4, <1>8, IncreasingTail DEF m
  <2>3. Accounted(m.version, latest_version, stdout', silent)
    BY <1>2, <1>3, <1>6, <1>8 DEF OrderInv, AllAccounted
  <2>4. AllAccounted'
    BY <1>1, <1>7, <1>8, <2>3 DEF AllAccounted, Accounted
  <2>5. GapIsSilent'
    BY <1>8 DEF GapIsSilent
  <2> QED
    BY <1>2, <1>8, <2>1, <2>2, <2>4, <2>5 DEF Increasing
<1>9. CASE /\ m.type = "delta" /\ ~Extends(m)
           /\ client'.gap = TRUE
           /\ UNCHANGED <<client.version, client.snapshot>>
  <2>1. Increasing(stdout', client'.version)
    BY <1>1, <1>2, <1>4, <1>9, IncreasingTail
  <2>2. AllAccounted'
    BY <1>1, <1>7, <1>9 DEF AllAccounted, Accounted
  <2>3. \E v \in silent : client.version < v
    <3>1. CASE client.gap
      BY <3>1 DEF OrderInv, GapIsSilent
    <3>2. CASE ~client.gap
      <4> DEFINE p == m.previous_version
      <4>1. p \in 1..latest_version /\ m.version = p + 1
        BY <1>3, <1>9 DEF OrderInv, ContentInv, TruthfulPipe, Truthful
      <4> HIDE DEF p
      <4>2. client.version < m.version
        BY <1>3, <1>4, <1>9 DEF Increasing, IsState
      <4>3. client.version # p
        <5>1. client.snapshot = NoSnapshot => client.version = 0
          BY DEF OrderInv, ContentInv, CopyHasVersion
        <5> QED
          BY <1>9, <3>2, <4>1, <5>1 DEF Extends, p
      <4>4. p \in (client.version + 1)..latest_version
        BY <1>2, <4>1, <4>2, <4>3
      <4>5. ~Announced(stdout, p)
        <5> SUFFICES ASSUME NEW j \in DOMAIN stdout,
                            IsState(stdout[j]), stdout[j].version = p
                     PROVE  FALSE
          BY DEF Announced
        <5>1. j # 1
          BY <1>3, <4>1
        <5>2. 1 < j
          BY <1>1, <5>1, TailFacts
        <5>3. m.version < stdout[j].version
          BY <1>3, <1>4, <1>9, <5>2 DEF Increasing, IsState
        <5> QED
          BY <4>1, <5>3
      <4>6. p \in silent
        BY <3>2, <4>4, <4>5 DEF OrderInv, AllAccounted, Accounted
      <4> QED
        BY <1>2, <4>4, <4>6
    <3> QED
      BY <3>1, <3>2
  <2>4. GapIsSilent'
    BY <1>1, <1>9, <2>3 DEF GapIsSilent
  <2> QED
    BY <1>9, <2>1, <2>2, <2>4 DEF Increasing
<1>10. CASE ~IsState(m) /\ client' = client
  <2>1. Increasing(stdout', client.version)
    BY <1>1, <1>2, <1>4, IncreasingTail
  <2>2. ~client.gap => Accounted(client.version, latest_version, stdout', silent)
    BY <1>2, <1>6, <1>10 DEF OrderInv, AllAccounted
  <2>3. AllAccounted'
    BY <1>1, <1>7, <1>10, <2>2 DEF AllAccounted, Accounted
  <2>4. GapIsSilent'
    BY <1>1, <1>10 DEF OrderInv, GapIsSilent
  <2> QED
    BY <1>10, <2>1, <2>3, <2>4 DEF Increasing
<1>11. CASE ReceiveSnapshot
  BY <1>8, <1>11 DEF ReceiveSnapshot, IsState, m
<1>12. CASE ReceiveDelta /\ Extends(m)
  BY <1>8, <1>12 DEF ReceiveDelta, IsState, m
<1>13. CASE ReceiveDelta /\ ~Extends(m)
  BY <1>9, <1>13 DEF ReceiveDelta, m
<1>14. CASE ReceiveGoodbye
  BY <1>10, <1>14 DEF ReceiveGoodbye, IsState, m
<1> QED
  BY <1>11, <1>12, <1>13, <1>14 DEF Receive

LEMMA NextOrder ==
  ASSUME OrderInv, [Next]_vars
  PROVE  /\ OrderInv'
         /\ client'.version > client.version
              \/ UNCHANGED <<client.version, client.snapshot>>
<1>1. ContentInv'
  BY NextContent DEF OrderInv
<1> SUFFICES /\ (Increasing(stdout, client.version) /\ AllAccounted /\ GapIsSilent)'
             /\ client'.version > client.version
                  \/ UNCHANGED <<client.version, client.snapshot>>
  BY <1>1 DEF OrderInv
<1>2. TypeOK /\ Numbered
  BY DEF OrderInv, ContentInv, TypeInv
<1>3. CASE AnnounceSnapshot
  <2>1. PICK snapshot \in Snapshot :
          /\ Record(snapshot)
          /\ Announce(SnapshotMessage(latest_version', snapshot))
          /\ UNCHANGED client
    BY <1>3 DEF AnnounceSnapshot
  <2> DEFINE m == SnapshotMessage(latest_version', snapshot)
  <2>2. latest_version' = latest_version + 1 /\ latest_version' \in Version
    BY <1>2, <2>1, RecordFacts
  <2>3. m \in Message
    BY <2>2, MessageTypes
  <2>4. stdout' = Append(stdout, m) /\ silent' = silent
    BY <2>1 DEF Announce
  <2>5. IsState(m) /\ m.version = latest_version + 1
    BY <2>2 DEF SnapshotMessage, IsState
  <2> HIDE DEF m
  <2> QED
    BY <2>1, <2>2, <2>3, <2>4, <2>5, OrderWrite
<1>4. CASE AnnounceDelta
  <2>1. PICK snapshot \in Snapshot :
          /\ latest_snapshot # NoSnapshot
          /\ Record(snapshot)
          /\ Announce(DeltaMessage(latest_version, latest_version',
                                  Patch(snapshot, Delta(latest_snapshot, snapshot))))
          /\ UNCHANGED client
    BY <1>4 DEF AnnounceDelta
  <2> DEFINE m == DeltaMessage(latest_version, latest_version',
                               Patch(snapshot, Delta(latest_snapshot, snapshot)))
  <2>2. latest_version' = latest_version + 1 /\ latest_version' \in Version
    BY <1>2, <2>1, RecordFacts
  <2>3. latest_snapshot \in Snapshot /\ latest_version \in Version
    BY <1>2, <2>1 DEF TypeOK, Numbered, Version
  <2>4. m \in Message
    BY <2>2, <2>3, PatchType, MessageTypes
  <2>5. stdout' = Append(stdout, m) /\ silent' = silent
    BY <2>1 DEF Announce
  <2>6. IsState(m) /\ m.version = latest_version + 1
    BY <2>2 DEF DeltaMessage, IsState
  <2> HIDE DEF m
  <2> QED
    BY <2>1, <2>2, <2>4, <2>5, <2>6, OrderWrite
<1>5. CASE RecordSilently
  BY <1>5, OrderRecordSilently DEF RecordSilently
<1>6. CASE SayGoodbye
  <2> DEFINE m == [type |-> "goodbye"]
  <2>1. m \in Message /\ ~IsState(m)
    BY DEF Message, IsState
  <2>2. /\ stdout' = Append(stdout, m)
        /\ UNCHANGED <<client, silent, latest_version>>
    BY <1>6 DEF SayGoodbye, ghosts
  <2> HIDE DEF m
  <2> QED
    BY <2>1, <2>2, OrderWrite
<1>7. CASE Rebase \/ Unnoticed \/ UNCHANGED vars
  <2>1. UNCHANGED <<latest_version, stdout, client, silent>>
    BY <1>7 DEF Rebase, Unnoticed, vars, state, ghosts
  <2> QED
    BY <2>1 DEF OrderInv, Increasing, AllAccounted, Accounted, Announced, GapIsSilent
<1> QED
  BY <1>3, <1>4, <1>5, <1>6, <1>7, Effects, OrderReceive

LEMMA InitOrder ==
  ASSUME Init
  PROVE  OrderInv
<1>1. DOMAIN stdout = {}
  BY DEF Init
<1>2. client.version = 0 /\ latest_version = 0 /\ client.gap = FALSE
  BY DEF Init
<1>3. ContentInv
  BY InitContent
<1> QED
  BY <1>1, <1>2, <1>3
     DEF OrderInv, Increasing, AllAccounted, Accounted, GapIsSilent

(* The inductive invariant of the order: versions in the pipe increase     *)
(* towards the latest, and every version is silent or on its way.          *)
THEOREM OrderCorrect == Spec => []OrderInv
<1>1. Init => OrderInv
  BY InitOrder
<1>2. OrderInv /\ [Next]_vars => OrderInv'
  BY NextOrder
<1> QED
  BY <1>1, <1>2, PTL DEF Spec

(* A client that has read everything misses silent versions only, and a    *)
(* client that sees a gap is right.                                        *)
THEOREM LagIsSilentCorrect == Spec => []LagIsSilent
<1>1. ASSUME OrderInv PROVE LagIsSilent
  <2>1. GapIsSilent
    BY <1>1 DEF OrderInv
  <2>2. ASSUME stdout = <<>>, ~client.gap
        PROVE  (client.version + 1)..latest_version \subseteq silent
    <3>1. Accounted(client.version, latest_version, stdout, silent)
      BY <1>1, <2>2 DEF OrderInv, AllAccounted
    <3>2. DOMAIN stdout = {}
      BY <2>2
    <3> QED
      BY <3>1, <3>2 DEF Accounted, Announced
  <2> QED
    BY <2>1, <2>2 DEF LagIsSilent, GapIsSilent
<1> QED
  BY <1>1, OrderCorrect, PTL

(* The client's version never goes back, and its copy never changes under  *)
(* the same version.                                                       *)
THEOREM ClientNeverGoesBackCorrect == Spec => ClientNeverGoesBack
<1>1. OrderInv /\ [Next]_vars => [Advances]_vars
  BY NextOrder DEF Advances
<1> QED
  BY <1>1, OrderCorrect, PTL DEF Spec, ClientNeverGoesBack

-----------------------------------------------------------------------------
(* What a client holds that has read everything.                           *)

SilentIsRecorded == silent \subseteq 1..latest_version

LEMMA NextSilent ==
  ASSUME TypeInv, SilentIsRecorded, [Next]_vars
  PROVE  SilentIsRecorded'
<1>1. latest_version \in Nat
  BY BoundAssumption DEF TypeInv, TypeOK
<1>2. CASE RecordSilently \/ AnnounceSnapshot \/ AnnounceDelta
  <2>1. /\ latest_version' = latest_version + 1
        /\ silent' \subseteq silent \cup {latest_version'}
    BY <1>2 DEF RecordSilently, AnnounceSnapshot, AnnounceDelta, Record, Announce
  <2>2. 1..latest_version \subseteq 1..latest_version' /\ latest_version' \in 1..latest_version'
    BY <1>1, <2>1
  <2> QED
    BY <2>1, <2>2 DEF SilentIsRecorded
<1>3. CASE Rebase \/ SayGoodbye \/ Unnoticed \/ Receive \/ UNCHANGED vars
  BY <1>3 DEF Rebase, SayGoodbye, Unnoticed, Receive, vars, state, ghosts, SilentIsRecorded
<1> QED
  BY <1>2, <1>3, Effects

(* A client that has read everything and that no silent version has        *)
(* overtaken holds the latest snapshot of the process: it sees no gap, so  *)
(* that each version after its own would be in the empty pipe; it is at    *)
(* the latest version, and the snapshot published under that agrees with   *)
(* the baseline, however often updates without changes replaced it.        *)
THEOREM CopyIsLatestCorrect == Spec => []CopyIsLatest
<1>1. Init => SilentIsRecorded
  BY DEF Init, SilentIsRecorded
<1>2. OrderInv /\ SilentIsRecorded /\ [Next]_vars => SilentIsRecorded'
  BY NextSilent DEF OrderInv, ContentInv
<1>3. OrderInv /\ SilentIsRecorded => CopyIsLatest
  <2> SUFFICES ASSUME OrderInv, SilentIsRecorded, stdout = <<>>, latest_snapshot # NoSnapshot,
                      (client.version + 1)..latest_version \cap silent = {}
               PROVE  /\ client.snapshot # NoSnapshot
                      /\ \A f \in ComparedField : client.snapshot[f] = latest_snapshot[f]
    BY DEF CopyIsLatest
  <2>1. /\ latest_version \in Nat /\ client.version \in Nat /\ client.gap \in BOOLEAN
        /\ latest_version # 0
    BY BoundAssumption DEF OrderInv, ContentInv, TypeInv, TypeOK, Numbered
  <2>2. ~client.gap
    BY <2>1 DEF OrderInv, GapIsSilent, SilentIsRecorded
  <2>3. (client.version + 1)..latest_version = {}
    <3>1. Accounted(client.version, latest_version, stdout, silent)
      BY <2>2 DEF OrderInv, AllAccounted
    <3>2. DOMAIN stdout = {}
      OBVIOUS
    <3> QED
      BY <3>1, <3>2 DEF Accounted, Announced
  <2>4. client.version >= latest_version
    <3>1. latest_version \notin (client.version + 1)..latest_version
      BY <2>3
    <3> QED
      BY <2>1, <3>1
  <2>5. client.version # 0 /\ client.snapshot # NoSnapshot
    BY <2>1, <2>4 DEF OrderInv, ContentInv, CopyHasVersion
  <2>6. client.version = latest_version
    BY <2>1, <2>4, <2>5 DEF OrderInv, ContentInv, MirrorIsPublished
  <2> QED
    BY <2>5, <2>6 DEF OrderInv, ContentInv, MirrorIsPublished, LatestIsPublished, AgreesWith
<1> QED
  BY <1>1, <1>2, <1>3, OrderCorrect, PTL DEF Spec

-----------------------------------------------------------------------------
(* What a delta carries.                                                   *)

Exact(m, log) ==
  m.type = "delta" =>
    /\ DOMAIN m.patch = PatchFields(Delta(log[m.previous_version], log[m.version]))
    /\ DOMAIN m.patch # {}

ExactPipe == \A i \in DOMAIN stdout : Exact(stdout[i], published)

(* What a delta carries depends on the log up to its version only.         *)
LEMMA RecordKeepsExact ==
  ASSUME ContentInv, ExactPipe, NEW snapshot \in Snapshot, Record(snapshot)
  PROVE  \A i \in DOMAIN stdout : Exact(stdout[i], published')
<1> SUFFICES ASSUME NEW i \in DOMAIN stdout, stdout[i].type = "delta"
             PROVE  Exact(stdout[i], published')
  BY DEF Exact
<1> DEFINE m == stdout[i]
<1>1. m.version \in 1..latest_version /\ m.previous_version \in 1..latest_version
  BY DEF ContentInv, TruthfulPipe, Truthful
<1>2. /\ published'[m.version] = published[m.version]
      /\ published'[m.previous_version] = published[m.previous_version]
  BY <1>1, RecordFacts DEF ContentInv, TypeInv
<1> QED
  BY <1>2 DEF ExactPipe, Exact

LEMMA ExactAppend ==
  ASSUME NEW messages \in Seq(Message), NEW m \in Message, NEW log,
         \A i \in DOMAIN messages : Exact(messages[i], log),
         Exact(m, log)
  PROVE  \A i \in DOMAIN Append(messages, m) : Exact(Append(messages, m)[i], log)
<1> SUFFICES ASSUME NEW i \in DOMAIN Append(messages, m)
             PROVE  Exact(Append(messages, m)[i], log)
  OBVIOUS
<1>1. i \in 1..Len(messages) \/ i = Len(messages) + 1
  BY AppendFacts
<1> QED
  BY <1>1, AppendFacts

(* The patch of an update is taken against the baseline, which agrees with *)
(* what was published last in every field a delta compares.                *)
LEMMA ExactAnnounceDelta ==
  ASSUME ContentInv, ExactPipe, AnnounceDelta
  PROVE  ExactPipe'
<1> USE DEF ContentInv, TypeInv
<1>1. PICK snapshot \in Snapshot :
        /\ latest_snapshot # NoSnapshot
        /\ HasChanges(Delta(latest_snapshot, snapshot))
        /\ Record(snapshot)
        /\ Announce(DeltaMessage(latest_version, latest_version',
                                Patch(snapshot, Delta(latest_snapshot, snapshot))))
  BY DEF AnnounceDelta
<1> DEFINE delta == Delta(latest_snapshot, snapshot)
           patch == Patch(snapshot, delta)
           m     == DeltaMessage(latest_version, latest_version', patch)
<1>2. latest_snapshot \in Snapshot /\ latest_version \in Version
  BY <1>1 DEF TypeOK, Numbered, Version
<1>3. m \in Message /\ stdout \in Seq(Message) /\ stdout' = Append(stdout, m)
  BY <1>1, <1>2, RecordFacts, MessageTypes, PatchType DEF Announce, TypeOK
<1>4. Delta(published'[latest_version], published'[latest_version']) = delta
  <2>1. published'[latest_version'] = snapshot
    BY <1>1, RecordFacts
  <2>2. latest_version \in 1..latest_version
    BY <1>2, BoundAssumption DEF Version
  <2>3. published'[latest_version] = published[latest_version]
    BY <1>1, <2>2, RecordFacts
  <2>4. \A f \in ComparedField : latest_snapshot[f] = published[latest_version][f]
    BY <1>1 DEF LatestIsPublished, AgreesWith
  <2> QED
    BY <2>1, <2>3, <2>4 DEF Delta
<1>5. DOMAIN patch = PatchFields(delta) /\ DOMAIN patch # {}
  <2>1. delta # {} /\ delta \subseteq PatchFields(delta)
    BY <1>1 DEF PatchFields, HasChanges
  <2>2. patch = [f \in PatchFields(delta) |-> snapshot[f]]
    BY DEF Patch
  <2> QED
    BY <2>1, <2>2
<1>6. Exact(m, published')
  <2> HIDE DEF delta, patch
  <2> QED
    BY <1>4, <1>5 DEF Exact, DeltaMessage
<1>7. \A i \in DOMAIN stdout : Exact(stdout[i], published')
  BY <1>1, RecordKeepsExact
<1> HIDE DEF m
<1> QED
  BY <1>3, <1>6, <1>7, ExactAppend DEF ExactPipe

LEMMA NextExact ==
  ASSUME ContentInv, ExactPipe, [Next]_vars
  PROVE  ExactPipe'
<1>1. stdout \in Seq(Message)
  BY DEF ContentInv, TypeInv, TypeOK
<1>2. CASE AnnounceSnapshot
  <2>1. PICK snapshot \in Snapshot :
          Record(snapshot) /\ Announce(SnapshotMessage(latest_version', snapshot))
    BY <1>2 DEF AnnounceSnapshot
  <2> DEFINE m == SnapshotMessage(latest_version', snapshot)
  <2>2. m \in Message /\ stdout' = Append(stdout, m)
    BY <2>1, RecordFacts, MessageTypes DEF Announce, ContentInv, TypeInv
  <2>3. Exact(m, published')
    BY DEF Exact, SnapshotMessage
  <2>4. \A i \in DOMAIN stdout : Exact(stdout[i], published')
    BY <2>1, RecordKeepsExact
  <2> HIDE DEF m
  <2> QED
    BY <1>1, <2>2, <2>3, <2>4, ExactAppend DEF ExactPipe
<1>3. CASE AnnounceDelta
  BY <1>3, ExactAnnounceDelta
<1>4. CASE RecordSilently
  BY <1>4, RecordKeepsExact DEF RecordSilently, ExactPipe
<1>5. CASE SayGoodbye
  <2> DEFINE m == [type |-> "goodbye"]
  <2>1. m \in Message /\ stdout' = Append(stdout, m)
    BY <1>5 DEF SayGoodbye, Message
  <2>3. Exact(m, published')
    BY DEF Exact
  <2>2. \A i \in DOMAIN stdout : Exact(stdout[i], published')
    BY <1>5 DEF SayGoodbye, ghosts, ExactPipe
  <2> HIDE DEF m
  <2> QED
    BY <1>1, <2>1, <2>2, <2>3, ExactAppend DEF ExactPipe
<1>6. CASE Rebase \/ Unnoticed \/ UNCHANGED vars
  BY <1>6 DEF Rebase, Unnoticed, vars, state, ghosts, ExactPipe
<1>7. CASE Receive
  <2>1. stdout # <<>> /\ stdout' = Tail(stdout) /\ UNCHANGED published
    BY <1>7 DEF Receive, ghosts
  <2> SUFFICES ASSUME NEW i \in DOMAIN Tail(stdout)
               PROVE  Exact(Tail(stdout)[i], published)
    BY <2>1 DEF ExactPipe
  <2>2. Tail(stdout)[i] = stdout[i + 1] /\ i + 1 \in DOMAIN stdout
    BY <1>1, <2>1, TailFacts
  <2> QED
    BY <2>2 DEF ExactPipe
<1> QED
  BY <1>2, <1>3, <1>4, <1>5, <1>6, <1>7, Effects

(* A delta carries the sections in which the two snapshots it leads from   *)
(* and to differ, all of them and no others, and it is never empty.        *)
THEOREM DeltasAreExactCorrect == Spec => []DeltasAreExact
<1>1. Init => ExactPipe
  BY DEF Init, ExactPipe
<1>2. ContentInv /\ ExactPipe /\ [Next]_vars => ExactPipe'
  BY NextExact
<1>3. ExactPipe => DeltasAreExact
  BY DEF ExactPipe, Exact, DeltasAreExact
<1> QED
  BY <1>1, <1>2, <1>3, ContentCorrect, PTL DEF Spec

-----------------------------------------------------------------------------
(* The stream implements StateStream.                                      *)

LogIsWritten == \A v \in 1..latest_version : published[v] \in Snapshot

LEMMA NextLog ==
  ASSUME TypeInv, LogIsWritten, [Next]_vars
  PROVE  LogIsWritten'
<1>1. ASSUME NEW snapshot \in Snapshot, Record(snapshot)
      PROVE  LogIsWritten'
  <2>1. /\ latest_version \in Nat
        /\ latest_version' = latest_version + 1
        /\ published'[latest_version'] = snapshot
        /\ \A v \in 1..latest_version : published'[v] = published[v]
    BY <1>1, RecordFacts, BoundAssumption DEF TypeInv, TypeOK
  <2> SUFFICES ASSUME NEW v \in 1..latest_version'
               PROVE  published'[v] \in Snapshot
    BY DEF LogIsWritten
  <2>2. v \in 1..latest_version \/ v = latest_version'
    BY <2>1
  <2> QED
    BY <2>1, <2>2 DEF LogIsWritten
<1>2. CASE UNCHANGED <<latest_version, published>>
  BY <1>2 DEF LogIsWritten
<1>3. CASE AnnounceSnapshot \/ AnnounceDelta \/ RecordSilently
  BY <1>1, <1>3 DEF AnnounceSnapshot, AnnounceDelta, RecordSilently
<1>4. CASE \/ Rebase \/ SayGoodbye \/ Unnoticed \/ Receive \/ UNCHANGED vars
  BY <1>2, <1>4 DEF Rebase, SayGoodbye, Unnoticed, Receive, vars, state, ghosts
<1> QED
  BY <1>3, <1>4, Effects

(* Recording a snapshot publishes what a client can tell apart of it.      *)
LEMMA RecordPublishes ==
  ASSUME TypeOK, NEW snapshot \in Snapshot, Record(snapshot), UNCHANGED client
  PROVE  Abstract!Publish
<1> DEFINE s == [f \in ComparedField |-> snapshot[f]]
           log == [v \in Version |-> Compared(published[v])]
<1>1. s \in [ComparedField -> Value]
  BY FieldFacts DEF Snapshot
<1>2. /\ latest_version < MaxVersion
      /\ latest_version' = latest_version + 1
  BY DEF Record
<1>3. Compared(snapshot) = s
  BY FieldFacts DEF Compared
<1>4. published' = [published EXCEPT ![latest_version'] = snapshot]
  BY DEF Record
<1>5. published \in [Version -> Snapshot \cup {NoSnapshot}]
  BY DEF TypeOK
<1>6. log' = [log EXCEPT ![latest_version'] = s]
  <2> SUFFICES ASSUME NEW v \in Version
               PROVE  Compared(published'[v])
                        = IF v = latest_version' THEN s ELSE Compared(published[v])
    OBVIOUS
  <2>1. published'[v] = IF v = latest_version' THEN snapshot ELSE published[v]
    BY <1>4, <1>5
  <2> HIDE DEF s
  <2> QED
    BY <1>3, <2>1
<1>7. UNCHANGED <<client.version, Compared(client.snapshot)>>
  BY DEF Compared
<1> QED
  BY <1>1, <1>2, <1>6, <1>7 DEF Abstract!Publish

(* A client that moves on observes the version it moves to.                *)
LEMMA ReceiveObserves ==
  ASSUME ContentInv', LogIsWritten', UNCHANGED <<latest_version, published>>,
         client'.version > client.version, client.version \in Nat
  PROVE  Abstract!Observe
<1>1. client'.version # 0 /\ client'.snapshot # NoSnapshot
  BY DEF ContentInv, CopyHasVersion, TypeInv, TypeOK
<1>2. /\ client'.version \in 1..latest_version
      /\ \A f \in ComparedField :
           client'.snapshot[f] = published[client'.version][f]
  BY <1>1 DEF ContentInv, MirrorIsPublished, AgreesWith
<1>3. published[client'.version] \in Snapshot
  BY <1>2 DEF LogIsWritten
<1>4. Compared(client'.snapshot) = Compared(published[client'.version])
  BY <1>1, <1>2, <1>3, FieldFacts DEF Compared
<1>5. latest_version \in 0..MaxVersion
  BY DEF ContentInv, TypeInv, TypeOK
<1>6. client'.version \in Version
  BY <1>2, <1>5, BoundAssumption DEF Version
<1>7. client'.version \in (client.version + 1)..latest_version
  BY <1>2, <1>5, BoundAssumption
<1> QED
  BY <1>4, <1>6, <1>7 DEF Abstract!Observe

RefineInv == OrderInv /\ LogIsWritten

LEMMA NextRefine ==
  ASSUME RefineInv, [Next]_vars
  PROVE  /\ RefineInv'
         /\ Abstract!Next \/ UNCHANGED Abstract!vars
<1>1. RefineInv'
  BY NextOrder, NextLog DEF RefineInv, OrderInv, ContentInv
<1>2. TypeOK /\ client.version \in Nat
  BY LatestIsLast DEF RefineInv, OrderInv, ContentInv, TypeInv
<1>3. CASE AnnounceSnapshot \/ AnnounceDelta \/ RecordSilently
  <2>1. PICK snapshot \in Snapshot : Record(snapshot) /\ UNCHANGED client
    BY <1>3 DEF AnnounceSnapshot, AnnounceDelta, RecordSilently
  <2>2. Abstract!Publish
    BY <1>2, <2>1, RecordPublishes
  <2> QED
    BY <1>1, <2>2 DEF Abstract!Next
<1>4. CASE \/ Rebase \/ SayGoodbye \/ Unnoticed \/ UNCHANGED vars
  <2>1. UNCHANGED <<latest_version, published, client>>
    BY <1>4 DEF Rebase, SayGoodbye, Unnoticed, vars, state, ghosts
  <2> QED
    BY <1>1, <2>1 DEF Abstract!vars, Compared
<1>5. CASE Receive
  <2>1. UNCHANGED <<latest_version, published>>
    BY <1>5 DEF Receive, state, ghosts
  <2>2. CASE client'.version > client.version
    <3>1. Abstract!Observe
      BY <1>1, <1>2, <2>1, <2>2, ReceiveObserves DEF RefineInv, OrderInv
    <3> QED
      BY <1>1, <3>1 DEF Abstract!Next
  <2>3. CASE UNCHANGED <<client.version, client.snapshot>>
    BY <1>1, <2>1, <2>3 DEF Abstract!vars, Compared
  <2> QED
    BY <1>5, <2>2, <2>3, OrderReceive DEF RefineInv
<1> QED
  BY <1>3, <1>4, <1>5, Effects

(* Every behaviour of the stream is one of StateStream: recording a        *)
(* snapshot publishes its compared part, and a message that moves the      *)
(* client's copy makes it observe a published state; nothing else shows.   *)
THEOREM StreamImplementsStateStream == Spec => AbstractSpec
<1>1. Init => RefineInv /\ Abstract!Init
  <2> SUFFICES ASSUME Init PROVE RefineInv /\ Abstract!Init
    OBVIOUS
  <2>1. OrderInv
    BY InitOrder
  <2>2. LogIsWritten
    BY DEF Init, LogIsWritten
  <2>3. /\ latest_version = 0 /\ client.version = 0
        /\ Compared(client.snapshot) = NoState
        /\ [v \in Version |-> Compared(published[v])]
              = [v \in 1..MaxVersion |-> NoState]
    BY DEF Init, Compared, Version
  <2> QED
    BY <2>1, <2>2, <2>3 DEF RefineInv, Abstract!Init
<1>2. RefineInv /\ [Next]_vars
        => RefineInv' /\ [Abstract!Next]_(Abstract!vars)
  BY NextRefine
<1> QED
  BY <1>1, <1>2, PTL DEF Spec, AbstractSpec, Abstract!Spec

=============================================================================
