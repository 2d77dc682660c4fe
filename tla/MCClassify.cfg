\* Changes of every row, classified one after the other.
CONSTANTS
  main = main
  detached = detached
  nested = nested
  noOwner = noOwner
  RefreshDomain <- Domains
  Branch <- Branches
  Detached = detached
  File <- Files
  Tracked <- TrackedFiles
  Nested <- NestedFiles
  NoOwner = noOwner
  Changing <- RowFiles
  MaxPending = 2
SPECIFICATION Spec
INVARIANTS TypeOK EveryChangeIsOwed UpstreamFitsHead RulesAreFollowed
