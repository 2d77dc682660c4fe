\* The modes of the serve loop.
SPECIFICATION FairSpec
INVARIANTS TypeOK StaleIsOwed
PROPERTY CatchesUp
\* The process stops at the end of stdin or on a failed refresh.
CHECK_DEADLOCK FALSE
