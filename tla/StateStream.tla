----------------------------- MODULE StateStream -----------------------------
(***************************************************************************)
(* What gitseer promises the client of its stream, without requests,       *)
(* deltas or messages: the process publishes a sequence of repository      *)
(* states, each under the next version, and the client's copy is always    *)
(* one of the published states and only ever moves forward.                *)
(***************************************************************************)
EXTENDS Naturals

CONSTANTS
  State,        \* the states a client can tell apart
  NoState,      \* no state has been published, or seen
  MaxVersion    \* bound on the versions of a run

VARIABLES
  log,          \* log[v] is the state published under version v
  latest,       \* the last version published
  seen,         \* the version of the client's copy, 0 when it has none
  copy          \* the client's copy

vars == <<log, latest, seen, copy>>

TypeOK ==
  /\ log \in [1..MaxVersion -> State \cup {NoState}]
  /\ latest \in 0..MaxVersion
  /\ seen \in 0..latest
  /\ copy \in State \cup {NoState}

Init ==
  /\ log = [v \in 1..MaxVersion |-> NoState]
  /\ latest = 0
  /\ seen = 0
  /\ copy = NoState

Publish ==
  \E s \in State :
    /\ latest < MaxVersion
    /\ latest' = latest + 1
    /\ log' = [log EXCEPT ![latest'] = s]
    /\ UNCHANGED <<seen, copy>>

(* Versions may be skipped: a snapshot replaces the copy outright.         *)
Observe ==
  \E v \in (seen + 1)..latest :
    /\ seen' = v
    /\ copy' = log[v]
    /\ UNCHANGED <<log, latest>>

Next == Publish \/ Observe

Spec == Init /\ [][Next]_vars

=============================================================================
