\* A request that changes nothing, answered while an event updates the watches.
CONSTANTS
  head = head
  fetch = fetch
  worktree = worktree
  ignored = ignored
  rescan = rescan
  RefreshDomain <- Domains
  Event <- Events
  Rescan <- rescan
  Touches <- TouchedBy
  PlanOf <- Plan
  MaySuspend <- Suspending
  Line = {"other"}
  MAX_PENDING_WATCH_EVENTS = 2
  MAX_DEBOUNCE_DRAIN_EVENTS = 1
  BackendCapacity = 1
SPECIFICATION Spec
INVARIANT NothingMissed
\* The process stops on a failed refresh.
CHECK_DEADLOCK FALSE
