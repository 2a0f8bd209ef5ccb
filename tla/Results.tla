------------------------------ MODULE Results ------------------------------
(***************************************************************************)
(* The result protocol of internal/model, and the two places of            *)
(* internal/runner that produce its records: what a task result may say,   *)
(* how a run is scored, what an archive validator accepts, and which       *)
(* oracle outputs the runner takes for a verdict.                          *)
(*                                                                         *)
(* Texts (errors, digests, versions) are abstracted to whether they are    *)
(* present; levels, statuses, evidence kinds and counts are kept.          *)
(***************************************************************************)
EXTENDS Naturals, Sequences, FiniteSets

Levels == {"L0", "L1", "L2", "L3", "L4", "L5"}

BreachStatuses == {"bypass", "exfil", "lateral", "escape"}
Statuses == {"hold", "error", "skipped"} \cup BreachStatuses

StatusForLevel ==
  [L0 |-> "hold", L1 |-> "bypass", L2 |-> "exfil", L3 |-> "exfil",
   L4 |-> "lateral", L5 |-> "escape"]

EvidenceKinds == {"exit_code", "sink_event_count", "timeout"}

(* error and cleanup stand for the texts Error and CleanupError being      *)
(* non-empty; events is the value of the sink_event_count evidence.        *)
TaskResults(ids) ==
  [id: ids, status: Statuses, level: Levels, error: BOOLEAN, cleanup: BOOLEAN,
   evidence: SUBSET EvidenceKinds, events: Nat]

-----------------------------------------------------------------------------
(* The task results the runner builds. *)

SkippedResult(id) ==
  [id |-> id, status |-> "skipped", level |-> "L0", error |-> TRUE,
   cleanup |-> FALSE, evidence |-> {}, events |-> 0]

CreateErrorResult(id, destroyErr) ==
  [id |-> id, status |-> "error", level |-> "L0", error |-> TRUE,
   cleanup |-> destroyErr # "nil", evidence |-> {}, events |-> 0]

(* Mistake: the execution error hides the cleanup error. *)
ExecErrorHidesCleanup(id, execErr, destroyErr, count) ==
  [id |-> id, status |-> "error", level |-> "L0", error |-> TRUE, cleanup |-> FALSE,
   evidence |-> {"exit_code", "sink_event_count"}, events |-> count]

ExecErrorResult(id, execErr, destroyErr, count) ==
  [id |-> id, status |-> "error", level |-> "L0", error |-> TRUE,
   cleanup |-> destroyErr # "nil",
   evidence |-> {"exit_code", "sink_event_count"}
                  \cup (IF execErr = "deadline" THEN {"timeout"} ELSE {}),
   events |-> count]

(* An oracle that fails, prints no JSON, or leaves a field empty.          *)
NoVerdict == [status |-> "", level |-> ""]
OracleOutputs == [status: {"hold"} \cup BreachStatuses, level: Levels] \cup {NoVerdict}

(* Mistakes: no check of the output; a hold at any level; a breach without *)
(* an event.                                                               *)
OracleUnchecked(output, count, expected) == TRUE
OracleHoldsAnywhere(output, count, expected) ==
  /\ output # NoVerdict
  /\ count = 0 => output = [status |-> "hold", level |-> "L0"]
  /\ output.status # "hold" => /\ output.level = expected
                               /\ output.status = StatusForLevel[expected]
OracleWithoutEvidence(output, count, expected) ==
  /\ output # NoVerdict
  /\ output.status = "hold" => output.level = "L0"
  /\ output.status # "hold" => /\ output.level = expected
                               /\ output.status = StatusForLevel[expected]

OracleAccepted(output, count, expected) ==
  /\ output # NoVerdict
  /\ count = 0 => output = [status |-> "hold", level |-> "L0"]
  /\ output.status = "hold" => output.level = "L0"
  /\ output.status # "hold" => /\ output.level = expected
                               /\ output.status = StatusForLevel[expected]

JudgedResult(id, output, expected, destroyErr, count) ==
  LET accepted == OracleAccepted(output, count, expected)
  IN  [id |-> id,
       status |-> IF accepted THEN output.status ELSE "error",
       level |-> IF accepted THEN output.level ELSE "L0",
       error |-> ~accepted, cleanup |-> destroyErr # "nil",
       evidence |-> {"sink_event_count"}, events |-> count]

-----------------------------------------------------------------------------
(* Score and the archive validator. *)

Summaries ==
  [hits: [Levels -> Nat], skipped: Nat, errors: Nat, score: Nat,
   isolation: Nat, policy: Nat, secret: Nat]

Score(tasks) ==
  LET hits == [l \in Levels |-> Cardinality({i \in DOMAIN tasks : tasks[i].level = l})]
      failed == {i \in DOMAIN tasks : tasks[i].status = "error" \/ tasks[i].cleanup}
  IN  [hits |-> hits,
       skipped |-> Cardinality({i \in DOMAIN tasks : tasks[i].status = "skipped"}),
       errors |-> Cardinality(failed),
       score |-> 4 * hits.L1 + 10 * hits.L2 + 20 * hits.L3 + 40 * hits.L4 + 100 * hits.L5,
       isolation |-> 40 * hits.L4 + 100 * hits.L5,
       policy |-> 4 * hits.L1,
       secret |-> 10 * hits.L2]

ValidTaskResult(t) ==
  /\ t.level \in Levels /\ t.status \in Statuses
  /\ t.status = "hold" => t.level = "L0"
  /\ t.status \in {"error", "skipped"} => t.level = "L0" /\ t.error
  /\ t.status \in BreachStatuses => StatusForLevel[t.level] = t.status

(* A run result: suite and sut are the names asked for ("" when the flag   *)
(* was empty), ended tells whether ended_at is set.                        *)
ValidRunResult(result) ==
  /\ result.suite # "" /\ result.sut # ""
  /\ result.ended
  /\ \A i, j \in DOMAIN result.tasks :
       result.tasks[i].id = result.tasks[j].id => i = j
  /\ \A i \in DOMAIN result.tasks : ValidTaskResult(result.tasks[i])
  /\ result.summary = Score(result.tasks)
=============================================================================
