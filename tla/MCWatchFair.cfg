\* Liveness of the event path: any line may cancel, any event may overflow.
CONSTANTS
  head = head
  fetch = fetch
  worktree = worktree
  ignored = ignored
  rescan = rescan
  RefreshDomain <- Domains
  Event <- FewEvents
  Rescan <- rescan
  Touches <- TouchedBy
  PlanOf <- Plan
  MaySuspend <- Suspending
  Line = {"other", "eof"}
  MAX_PENDING_WATCH_EVENTS = 2
  MAX_DEBOUNCE_DRAIN_EVENTS = 1
  BackendCapacity = 1
SPECIFICATION FairSpec
PROPERTIES Converges LineIsServed TurnsEnd WorkRunsOut
\* The process stops at the end of stdin or on a failed refresh.
CHECK_DEADLOCK FALSE
