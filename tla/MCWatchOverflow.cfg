\* An overflow recorded after the loop has drained the queue and parked.
CONSTANTS
  head = head
  fetch = fetch
  worktree = worktree
  ignored = ignored
  rescan = rescan
  RefreshDomain <- Domains
  Event <- FewEvents
  Rescan <- rescan
  Touches <- TouchedBy
  PlanOf <- Plan
  MaySuspend <- Suspending
  Line = {}
  MAX_PENDING_WATCH_EVENTS = 2
  MAX_DEBOUNCE_DRAIN_EVENTS = 1
  BackendCapacity = 1
SPECIFICATION FairSpec
PROPERTY OverflowRecovers
\* The process stops on a failed refresh.
CHECK_DEADLOCK FALSE
