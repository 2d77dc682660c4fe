\* A directory is removed and made again.
CONSTANTS
  root = root
  outer = outer
  inner = inner
  excludes = excludes
  Dir <- FewDirs
  Root = root
  Parent <- FewParent
  Above <- FewAbove
  NestedRepo = {}
  Excludes = excludes
  Rule <- SomeRules
  MaxQueue = 3
  MayCancel = {FALSE}
SPECIFICATION Spec
INVARIANT WatchedRootsAreWatched
\* Without events an idle process waits for ever.
CHECK_DEADLOCK FALSE
