\* Directories come, go and change their rules while the watch set follows.
CONSTANTS
  root = root
  outer = outer
  inner = inner
  excludes = excludes
  Dir <- Dirs
  Root = root
  Parent <- ParentOf
  Above <- AboveOf
  NestedRepo = {}
  Excludes = excludes
  Rule <- SomeRules
  MaxQueue = 2
  MayCancel = {TRUE, FALSE}
SPECIFICATION FairSpec
INVARIANTS TypeOK Covered IgnoredAreOmitted NoLeakedWatch
PROPERTIES Settles KeepsRelevant WorkRunsOut
\* Without events an idle process waits for ever.
CHECK_DEADLOCK FALSE
