CONSTANTS
  NoName = NoName
  NoRun = NoRun
  Catalog <- PlainCatalog
  Names <- MCNames
  RunIDs <- MCRunIDs
  ValidRunIDs <- MCRunIDs
  Offered <- Beacons
  Requests <- OneEach
  OptionSet <- OneOption
SPECIFICATION MCSpec
INVARIANT EvidenceOfOwnProbe
