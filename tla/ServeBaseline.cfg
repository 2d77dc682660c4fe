\* A subscription to an active watcher whose read fails.
SPECIFICATION FairSpec
PROPERTY SubscribeIsBaseline
\* The process stops at the end of stdin or on a failed refresh.
CHECK_DEADLOCK FALSE
