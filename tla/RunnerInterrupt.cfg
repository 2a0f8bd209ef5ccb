CONSTANTS
  NoName = NoName
  NoRun = NoRun
  Catalog <- PlainCatalog
  Names <- MCNames
  RunIDs <- MCRunIDs
  ValidRunIDs <- MCRunIDs
  Offered <- Posts
  Requests <- FirstOnly
  OptionSet <- OneOption
SPECIFICATION InterruptSpec
INVARIANT InterruptLeavesOneSandbox
CHECK_DEADLOCK FALSE
