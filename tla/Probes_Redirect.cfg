\* A task ends with its verdict.
CONSTANTS
  Judged <- Redirect
  TaskLevel <- MCLevels
SPECIFICATION ProbeSpec
INVARIANT OracleTellsFaultyFromRight
CHECK_DEADLOCK FALSE
