\* The event path with state-changing requests, cancellations and overflows.
CONSTANTS
  head = head
  fetch = fetch
  worktree = worktree
  ignored = ignored
  rescan = rescan
  RefreshDomain <- Domains
  Event <- Events
  Rescan <- rescan
  Touches <- TouchedBy
  PlanOf <- Plan
  MaySuspend <- Suspending
  Line = {"subscribe", "unsubscribe", "refresh"}
  MAX_PENDING_WATCH_EVENTS = 2
  MAX_DEBOUNCE_DRAIN_EVENTS = 1
  BackendCapacity = 1
SPECIFICATION Spec
INVARIANTS TypeOK NothingForgotten ReadsAreCovered ReadRepairs
PROPERTIES RefreshesHelp
\* The process stops at the end of stdin or on a failed refresh.
CHECK_DEADLOCK FALSE
