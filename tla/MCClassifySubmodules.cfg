\* A commit, a checkout or a staged submodule moves what the submodules section shows.
CONSTANTS
  main = main
  detached = detached
  nested = nested
  noOwner = noOwner
  RefreshDomain <- Domains
  Branch <- Branches
  Detached = detached
  File <- Files
  Tracked <- TrackedFiles
  Nested <- NestedFiles
  NoOwner = noOwner
  Changing <- RowFiles
  MaxPending = 2
SPECIFICATION Spec
INVARIANT SubmodulesFollow
