--------------------------- MODULE PathStatesProofs ---------------------------
(***************************************************************************)
(* The delta of two path states and the summary of changed lines, for any  *)
(* number of paths and lines.                                              *)
(***************************************************************************)
EXTENDS PathStates, WellFoundedInduction, TLAPS

(* Path states of any entries and conflict stages.                        *)
PathStatesOver(Conflicts, Entry) ==
  [staged : SUBSET Nat, unstaged : SUBSET Nat, untracked : SUBSET Nat,
   ignored : SUBSET Nat, conflicted : SUBSET Nat,
   conflicts : Conflicts, entries : Seq(Entry)]

HavePaths(Entry) == \A e \in Entry : e.path \in Nat

(* The least-number principle, which stands for induction here.            *)
LEMMA LeastNumber ==
  ASSUME NEW S, S \subseteq Nat, S # {}
  PROVE  \E n \in S : \A m \in S : n <= m
<1> DEFINE Less == {ss \in Nat \X Nat : ss[1] < ss[2]}
<1>1. IsWellFoundedOn(Less, Nat)
  BY NatLessThanWellFounded DEF OpToRel, IsWellFoundedOn
<1>2. \A x, y \in Nat : x < y => <<x, y>> \in Less
  OBVIOUS
<1>3. \E x \in S : \A y \in S : ~ (<<y, x>> \in Less)
  <2> HIDE DEF Less
  <2> QED
    BY <1>1, WFMin, Zenon
<1>4. PICK x \in S : \A y \in S : ~ (<<y, x>> \in Less)
  BY <1>3
<1>5. \A y \in S : ~(y < x)
  <2> HIDE DEF Less
  <2> QED
    BY <1>2, <1>4
<1> QED
  BY <1>5

(* A summary accounts for every line added and removed, however many there *)
(* are: the arithmetic of summarize_raw_diff never falls below zero.       *)
THEOREM SummariesAreExact == SummaryTellsCounts(Nat)
BY DEF SummaryTellsCounts, Summarize

-----------------------------------------------------------------------------
(* Lists of entries in the order of their paths, no path twice.            *)

Ascending(entries) ==
  \A i, j \in DOMAIN entries : i < j => entries[i].path < entries[j].path

LEMMA OrderedAndDistinct ==
  ASSUME NEW Entry, HavePaths(Entry), NEW Conflicts,
         NEW s \in PathStatesOver(Conflicts, Entry),
         InOrderOfPaths({s}), DistinctPaths(s)
  PROVE  s.entries \in Seq(Entry) /\ Ascending(s.entries)
<1>1. s.entries \in Seq(Entry)
  BY DEF PathStatesOver
<1>2. ASSUME NEW i \in DOMAIN s.entries, NEW j \in DOMAIN s.entries, i < j
      PROVE  s.entries[i].path < s.entries[j].path
  <2>1. i \in Nat /\ j \in Nat /\ s.entries[i] \in Entry /\ s.entries[j] \in Entry
    BY <1>1
  <2>2. s.entries[i].path \in Nat /\ s.entries[j].path \in Nat
    BY <2>1 DEF HavePaths
  <2>3. s.entries[i].path <= s.entries[j].path
    BY <1>2, <2>1 DEF InOrderOfPaths
  <2>4. s.entries[i].path # s.entries[j].path
    BY <1>2, <2>1 DEF DistinctPaths
  <2> QED
    BY <2>2, <2>3, <2>4
<1> QED
  BY <1>1, <1>2 DEF Ascending

(* No entry hides another one in the map of such a list.                   *)
LEMMA MapShowsEntries ==
  ASSUME NEW Entry, HavePaths(Entry), NEW e \in Seq(Entry), Ascending(e),
         NEW i \in DOMAIN e
  PROVE  e[i].path \in DOMAIN EntryMap(e) /\ EntryMap(e)[e[i].path] = e[i]
<1> DEFINE last == CHOOSE k \in DOMAIN e :
                     /\ e[k].path = e[i].path
                     /\ \A j \in DOMAIN e : e[j].path = e[i].path => j <= k
<1>1. \A j \in DOMAIN e : j \in Nat /\ e[j].path \in Nat
  BY DEF HavePaths
<1>2. \A j \in DOMAIN e : e[j].path = e[i].path => j = i
  <2> SUFFICES ASSUME NEW j \in DOMAIN e, e[j].path = e[i].path, j # i
               PROVE  FALSE
    OBVIOUS
  <2>1. j < i \/ i < j
    BY <1>1
  <2>2. e[j].path < e[i].path \/ e[i].path < e[j].path
    BY <2>1 DEF Ascending
  <2> QED
    BY <1>1, <2>2
<1>3. last = i
  BY <1>1, <1>2
<1>4. e[i].path \in {e[j].path : j \in DOMAIN e}
  OBVIOUS
<1>5. EntryMap(e)[e[i].path] = e[last]
  BY <1>4 DEF EntryMap
<1>6. DOMAIN EntryMap(e) = {e[j].path : j \in DOMAIN e}
  BY DEF EntryMap
<1> QED
  BY <1>3, <1>4, <1>5, <1>6

(* So lists with the same map have the same entries, ...                   *)
LEMMA MapShowsOnlyEntries ==
  ASSUME NEW Entry, HavePaths(Entry), NEW e \in Seq(Entry), NEW f \in Seq(Entry),
         Ascending(e), Ascending(f), EntryMap(e) = EntryMap(f)
  PROVE  \A i \in DOMAIN e : \E j \in DOMAIN f : f[j] = e[i]
<1> SUFFICES ASSUME NEW i \in DOMAIN e PROVE \E j \in DOMAIN f : f[j] = e[i]
  OBVIOUS
<1>1. e[i].path \in DOMAIN EntryMap(f) /\ EntryMap(f)[e[i].path] = e[i]
  BY MapShowsEntries
<1>2. PICK j \in DOMAIN f : f[j].path = e[i].path
  BY <1>1 DEF EntryMap
<1>3. EntryMap(f)[f[j].path] = f[j]
  BY MapShowsEntries
<1> QED
  BY <1>1, <1>2, <1>3

(* ... in the same places: the first place where they differ would hold    *)
(* an entry that comes later in both.                                      *)
LEMMA SameMapSamePlaces ==
  ASSUME NEW Entry, HavePaths(Entry), NEW e \in Seq(Entry), NEW f \in Seq(Entry),
         Ascending(e), Ascending(f), EntryMap(e) = EntryMap(f)
  PROVE  \A i \in DOMAIN e : i \in DOMAIN f /\ e[i] = f[i]
<1> DEFINE Differ == {i \in DOMAIN e : ~(i \in DOMAIN f /\ e[i] = f[i])}
<1> SUFFICES ASSUME Differ # {} PROVE FALSE
  OBVIOUS
<1>1. Differ \subseteq Nat
  OBVIOUS
<1>2. PICK i \in Differ : \A m \in Differ : i <= m
  <2> HIDE DEF Differ
  <2> QED
    BY <1>1, LeastNumber
<1>3. i \in DOMAIN e /\ \A k \in DOMAIN e : k < i => k \in DOMAIN f /\ e[k] = f[k]
  BY <1>1, <1>2
<1>4. /\ \A k \in DOMAIN e : k \in Nat /\ e[k].path \in Nat
      /\ \A k \in DOMAIN f : k \in Nat /\ f[k].path \in Nat
  BY DEF HavePaths
<1>5. PICK j \in DOMAIN f : f[j] = e[i]
  BY <1>3, MapShowsOnlyEntries
<1>6. ~(j < i)
  <2> SUFFICES ASSUME j < i PROVE FALSE
    OBVIOUS
  <2>1. j \in DOMAIN e
    BY <1>3, <1>4
  <2>2. e[j] = e[i] /\ e[j].path < e[i].path
    BY <1>3, <1>5, <2>1 DEF Ascending
  <2> QED
    BY <1>3, <1>4, <2>2
<1>7. i \in DOMAIN f
  BY <1>3, <1>4, <1>6
<1>8. PICK k \in DOMAIN e : e[k] = f[i]
  BY <1>7, MapShowsOnlyEntries
<1>9. ~(k < i)
  <2> SUFFICES ASSUME k < i PROVE FALSE
    OBVIOUS
  <2>1. f[k] = f[i] /\ k \in DOMAIN f /\ f[k].path < f[i].path
    BY <1>3, <1>7, <1>8 DEF Ascending
  <2> QED
    BY <1>4, <1>7, <2>1
<1>10. f[i].path <= e[i].path /\ e[i].path <= f[i].path
  <2>1. f[i].path <= f[j].path
    BY <1>4, <1>6, <1>7 DEF Ascending
  <2>2. e[i].path <= e[k].path
    BY <1>3, <1>4, <1>9 DEF Ascending
  <2> QED
    BY <1>5, <1>8, <2>1, <2>2
<1>11. k = i
  <2>1. e[k].path = e[i].path
    BY <1>3, <1>4, <1>7, <1>8, <1>10
  <2>2. ~(i < k)
    BY <1>3, <1>4, <2>1 DEF Ascending
  <2> QED
    BY <1>3, <1>4, <1>9, <2>2
<1> QED
  BY <1>2, <1>7, <1>8, <1>11

LEMMA SameMapSameEntries ==
  ASSUME NEW Entry, HavePaths(Entry), NEW e \in Seq(Entry), NEW f \in Seq(Entry),
         Ascending(e), Ascending(f), EntryMap(e) = EntryMap(f)
  PROVE  e = f
<1>1. /\ \A i \in DOMAIN e : i \in DOMAIN f /\ e[i] = f[i]
      /\ \A i \in DOMAIN f : i \in DOMAIN e /\ f[i] = e[i]
  BY SameMapSamePlaces
<1>2. DOMAIN e = DOMAIN f
  BY <1>1
<1>3. Len(e) = Len(f)
  BY <1>2
<1> QED
  BY <1>1, <1>3

-----------------------------------------------------------------------------
(* The delta compares the maps, and that is enough to compare the entries. *)
LEMMA NoEntryChanged ==
  ASSUME NEW m, NEW n
  PROVE  m = n => EntriesChanged(m, n) = {}
BY DEF EntriesChanged

LEMMA SameEntriesChangedNothing ==
  ASSUME NEW Entry, NEW e \in Seq(Entry), NEW f \in Seq(Entry),
         EntriesChanged(EntryMap(e), EntryMap(f)) = {}
  PROVE  EntryMap(e) = EntryMap(f)
<1> DEFINE m == EntryMap(e)
           n == EntryMap(f)
<1>1. DOMAIN m = DOMAIN n /\ \A p \in DOMAIN m : m[p] = n[p]
  BY DEF EntriesChanged
<1>2. m = [p \in DOMAIN m |-> m[p]] /\ n = [p \in DOMAIN n |-> n[p]]
  BY DEF EntryMap
<1> HIDE DEF m, n
<1>3. m = n
  BY <1>1, <1>2
<1> QED
  BY <1>3 DEF m, n

LEMMA SetDeltaIsExact ==
  ASSUME NEW previous, NEW current
  PROVE  (SetDelta(previous, current).added # {} \/ SetDelta(previous, current).removed # {})
           <=> previous # current
BY DEF SetDelta

LEMMA ChangesAreExact ==
  ASSUME NEW Entry, HavePaths(Entry), NEW Conflicts,
         NEW s \in PathStatesOver(Conflicts, Entry), NEW t \in PathStatesOver(Conflicts, Entry),
         InOrderOfPaths({s, t}), DistinctPaths(s), DistinctPaths(t)
  PROVE  PathsHaveChanges(PathDelta(s, t)) <=> [s EXCEPT !.conflicts = t.conflicts] # t
<1> DEFINE delta == PathDelta(s, t)
           same == [s EXCEPT !.conflicts = t.conflicts]
<1>1. InOrderOfPaths({s}) /\ InOrderOfPaths({t})
  BY DEF InOrderOfPaths
<1>2. /\ s.entries \in Seq(Entry) /\ Ascending(s.entries)
      /\ t.entries \in Seq(Entry) /\ Ascending(t.entries)
  BY <1>1, OrderedAndDistinct
<1>3. delta.entries_changed = {} <=> s.entries = t.entries
  <2>1. delta.entries_changed = EntriesChanged(EntryMap(s.entries), EntryMap(t.entries))
    BY DEF PathDelta
  <2>2. s.entries = t.entries => delta.entries_changed = {}
    BY <2>1, NoEntryChanged
  <2>3. ASSUME delta.entries_changed = {}
        PROVE  EntryMap(s.entries) = EntryMap(t.entries)
    BY <1>2, <2>1, <2>3, SameEntriesChangedNothing
  <2>4. EntryMap(s.entries) = EntryMap(t.entries) => s.entries = t.entries
    BY <1>2, SameMapSameEntries
  <2> QED
    BY <2>2, <2>3, <2>4
<1>4. /\ (delta.staged.added # {} \/ delta.staged.removed # {}) <=> s.staged # t.staged
      /\ (delta.unstaged.added # {} \/ delta.unstaged.removed # {})
           <=> s.unstaged # t.unstaged
      /\ (delta.untracked.added # {} \/ delta.untracked.removed # {})
           <=> s.untracked # t.untracked
      /\ (delta.ignored.added # {} \/ delta.ignored.removed # {}) <=> s.ignored # t.ignored
      /\ (delta.conflicted.added # {} \/ delta.conflicted.removed # {})
           <=> s.conflicted # t.conflicted
  <2>1. /\ delta.staged = SetDelta(s.staged, t.staged)
        /\ delta.unstaged = SetDelta(s.unstaged, t.unstaged)
        /\ delta.untracked = SetDelta(s.untracked, t.untracked)
        /\ delta.ignored = SetDelta(s.ignored, t.ignored)
        /\ delta.conflicted = SetDelta(s.conflicted, t.conflicted)
    BY DEF PathDelta
  <2> QED
    BY <2>1, SetDeltaIsExact
<1>5. same = t <=> /\ s.staged = t.staged /\ s.unstaged = t.unstaged
                   /\ s.untracked = t.untracked /\ s.ignored = t.ignored
                   /\ s.conflicted = t.conflicted /\ s.entries = t.entries
  BY DEF PathStatesOver
<1>6. PathsHaveChanges(delta) <=>
        \/ delta.entries_changed # {}
        \/ delta.staged.added # {} \/ delta.staged.removed # {}
        \/ delta.unstaged.added # {} \/ delta.unstaged.removed # {}
        \/ delta.untracked.added # {} \/ delta.untracked.removed # {}
        \/ delta.ignored.added # {} \/ delta.ignored.removed # {}
        \/ delta.conflicted.added # {} \/ delta.conflicted.removed # {}
  BY DEF PathsHaveChanges, PathDelta
<1> HIDE DEF delta, same
<1>7. PathsHaveChanges(delta) <=> same # t
  BY <1>3, <1>4, <1>5, <1>6
<1> QED
  BY <1>7 DEF delta, same

(* path_delta misses no difference but one of the conflict stages, however *)
(* many paths there are: of states with one entry for a path, listed in    *)
(* the order path_state lists them, the delta is empty exactly when all    *)
(* else is equal.                                                          *)
THEOREM DeltaIsExact ==
  ASSUME NEW Entry, HavePaths(Entry), NEW Conflicts,
         NEW states, states \subseteq PathStatesOver(Conflicts, Entry), InOrderOfPaths(states)
  PROVE  DeltaIsComplete(states)
<1> SUFFICES ASSUME NEW previous \in states, NEW current \in states,
                    DistinctPaths(previous), DistinctPaths(current)
             PROVE  PathsHaveChanges(PathDelta(previous, current))
                      <=> [previous EXCEPT !.conflicts = current.conflicts] # current
  BY DEF DeltaIsComplete
<1>1. InOrderOfPaths({previous, current})
  BY DEF InOrderOfPaths
<1>2. /\ previous \in PathStatesOver(Conflicts, Entry)
      /\ current \in PathStatesOver(Conflicts, Entry)
  OBVIOUS
<1> QED
  BY <1>1, <1>2, ChangesAreExact
=============================================================================
