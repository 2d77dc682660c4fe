\* A change of the conflict-stage metadata alone.
CONSTANTS
  RefreshDomain <- SmallDomains
  Value = {none, some}
  NoIgnored = none
  NoSnapshot = NoSnapshot
  MaxVersion = 3
  PipeCapacity = 2
SPECIFICATION Spec
INVARIANT EveryChangeIsEncoded
\* The process stops after its goodbye or on a failed refresh.
CHECK_DEADLOCK FALSE
