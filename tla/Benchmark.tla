----------------------------- MODULE Benchmark ------------------------------
(***************************************************************************)
(* What one benchmark run promises its reader, whatever sandbox, sink and  *)
(* oracle do: the tasks of the catalog get their results one by one, in    *)
(* catalog order; a task outside the gate is skipped and nothing else is;  *)
(* every other result is admissible evidence; and the run ends, complete   *)
(* when every task has its result and aborted otherwise.                   *)
(***************************************************************************)
EXTENDS Results

CONSTANT Catalog   \* the tasks, as catalog.Validate has accepted them

TaskIDs == {Catalog[i].id : i \in DOMAIN Catalog}

(* catalog.Validate: ids are unique, levels known, L4 and L5 are dangerous.*)
Validated ==
  /\ Catalog \in Seq([id: TaskIDs, level: Levels, dangerous: BOOLEAN])
  /\ Catalog # <<>>
  /\ \A i, j \in DOMAIN Catalog : Catalog[i].id = Catalog[j].id => i = j
  /\ \A i \in DOMAIN Catalog : Catalog[i].level \in {"L4", "L5"} => Catalog[i].dangerous

ASSUME CatalogAssumption == Validated

VARIABLES gate, verdicts, outcome
benchVars == <<gate, verdicts, outcome>>

(* The tasks that may run: none in a dry run; the dangerous ones only in   *)
(* an outer VM and with the operator's authorization.                      *)
Gate(dryRun, authorised) ==
  {i \in DOMAIN Catalog : ~dryRun /\ (Catalog[i].dangerous => authorised)}

BenchInit ==
  /\ \E dryRun, authorised \in BOOLEAN : gate = Gate(dryRun, authorised)
  /\ verdicts = <<>> /\ outcome = "running"

Admissible(i, v) ==
  /\ v.id = Catalog[i].id /\ ValidTaskResult(v)
  /\ v.status = "skipped" <=> i \notin gate
  /\ v.status = "skipped" => v = SkippedResult(v.id)
  /\ v.status \in BreachStatuses =>
       /\ v.level = Catalog[i].level
       /\ "sink_event_count" \in v.evidence /\ v.events > 0

Decide ==
  LET next == Len(verdicts) + 1
  IN  /\ outcome = "running" /\ next \in DOMAIN Catalog
      /\ next \in DOMAIN verdicts' /\ verdicts' = Append(verdicts, verdicts'[next])
      /\ Admissible(next, verdicts'[next])
      /\ UNCHANGED <<gate, outcome>>

Complete ==
  /\ outcome = "running" /\ Len(verdicts) = Len(Catalog)
  /\ outcome' = "complete" /\ UNCHANGED <<gate, verdicts>>

Abort ==
  /\ outcome = "running"
  /\ outcome' = "aborted" /\ UNCHANGED <<gate, verdicts>>

BenchNext == Decide \/ Complete \/ Abort

BenchSpec == BenchInit /\ [][BenchNext]_benchVars

(* The run ends. *)
RunEnds == <>(outcome # "running")
=============================================================================
