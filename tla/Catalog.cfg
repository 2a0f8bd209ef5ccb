\* Developer and operator may stop at any time, and their edits are bounded;
\* a task ends with its verdict, an address with a listener or without one.
CONSTANTS
  Paths <- MCPaths
  Contents <- MCContents
  MaxFiles = 2
  MaxCopyEdits = 2
  OriginalFile <- MCOriginalFile
  NewLines <- MCNewLines
  Files <- MCFiles
  MaxLineEdits = 2
  Digests = {"d1", "d2"}
  Original <- MCOriginal
  Suites = {"smoke-v0", "x"}
  Images = {"i1", "i2"}
  MaxClock = 2
  MaxEdits = 2
  Judged <- TaskNames
  TaskLevel <- MCLevels
  Bytes <- MCBytes
SPECIFICATION MCSpec
INVARIANTS
  DigestIdentifiesMaterials CheckoutKeepsDigest DigestInPathOrder
  AcceptedDangerIsMarked AcceptedIDsUsable
  StrictMeansTheseMaterials PartialNeverStrict ValidateForetells
  VerdictsAccepted JudgedAsItIs ListensPrivately
CHECK_DEADLOCK FALSE
