\* The stream and its client: three versions, two messages in flight.
CONSTANTS
  RefreshDomain <- SmallDomains
  Value = {none, some}
  NoIgnored = none
  NoSnapshot = NoSnapshot
  MaxVersion = 3
  PipeCapacity = 2
SPECIFICATION Spec
INVARIANTS TypeOK MirrorIsPublished LagIsSilent CopyIsLatest DeltasAreExact
PROPERTIES ClientNeverGoesBack AbstractSpec
\* The process stops after its goodbye or on a failed refresh.
CHECK_DEADLOCK FALSE
