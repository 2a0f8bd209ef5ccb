\* T1 and a dangerous T2, one request of each attacker under either run id, every option.
CONSTANTS
  NoName = NoName
  NoRun = NoRun
  Catalog <- PlainCatalog
  Names <- MCNames
  RunIDs <- MCRunIDs
  ValidRunIDs <- MCRunIDs
  Offered <- Beacons
  Requests <- OneEach
  OptionSet <- MCOptions
SPECIFICATION MCFairSpec
INVARIANTS RunnerTypeOK SandboxesAuthorised ReturnedResultValid EvidenceBehindGate
  BreachHasEvidence LeakReported SandboxesOverlapOnlyAfterError HeardEvidenceCounted
PROPERTIES ImplementsBenchmark RunReturns
