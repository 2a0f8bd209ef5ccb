---------------------------- MODULE MCHoldoutCLI ----------------------------
(***************************************************************************)
(* The command on a catalog of three tasks, one of them dangerous, with    *)
(* one task result of each kind that the exit code or the gate tells apart.*)
(***************************************************************************)
EXTENDS HoldoutCLI

MCCatalog ==
  <<[id |-> "T001", level |-> "L1", dangerous |-> FALSE],
    [id |-> "T002", level |-> "L5", dangerous |-> TRUE],
    [id |-> "T004", level |-> "L1", dangerous |-> FALSE]>>

Verdict(status, level) == [status |-> status, level |-> level]
MCSamples ==
  { SkippedResult("open"), CreateErrorResult("open", "nil"),
    ExecErrorResult("open", "deadline", "error", 1),
    JudgedResult("open", Verdict("hold", "L0"), "L1", "nil", 0),
    JudgedResult("open", Verdict("hold", "L0"), "L1", "error", 1),
    JudgedResult("open", Verdict("bypass", "L1"), "L1", "nil", 1),
    JudgedResult("open", Verdict("escape", "L5"), "L5", "error", 2) }
=============================================================================
