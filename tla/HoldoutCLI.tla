----------------------------- MODULE HoldoutCLI -----------------------------
(***************************************************************************)
(* holdout run (runCommand in cmd/holdout/main.go): the flags, the run,    *)
(* the writing of its result and the exit code.  The run is the abstract   *)
(* Benchmark, which Runner implements; the writing is ResultFile.          *)
(***************************************************************************)
EXTENDS Benchmark, ResultFile

CONSTANT Samples   \* task results, the id left open, that a run may give

VARIABLES
  cli,       \* "parse", "run", "write", "exited"
  flags,     \* the flags given and the environment variable
  exitCode

cliVars == <<benchVars, fileVars, cli, flags, exitCode>>

NoCode == 255
Flags == [ok: BOOLEAN, dryRun: BOOLEAN, allow: BOOLEAN, understood: BOOLEAN, outerVM: BOOLEAN]

CLITypeOK ==
  /\ FileTypeOK
  /\ gate \subseteq DOMAIN Catalog
  /\ \A i \in DOMAIN verdicts : ValidTaskResult(verdicts[i])
  /\ outcome \in {"running", "complete", "aborted"}
  /\ cli \in {"parse", "run", "write", "exited"}
  /\ flags \in Flags
  /\ exitCode \in {0, 1, 2, 3, NoCode}

CLIInit ==
  /\ FileInit
  /\ flags \in Flags
  /\ gate = Gate(flags.dryRun, flags.outerVM /\ flags.allow)
  /\ verdicts = <<>> /\ outcome = "running"
  /\ cli = "parse" /\ exitCode = NoCode

Exits(code) == cli' = "exited" /\ exitCode' = code /\ UNCHANGED flags

(* Mistake: the environment variable is not asked for. *)
ParseFlagsUnasked ==
  /\ cli = "parse" /\ flags.ok
  /\ cli' = "run"
  /\ UNCHANGED <<benchVars, fileVars, flags, exitCode>>

ParseFlags ==
  /\ cli = "parse"
  /\ \/ ~flags.ok /\ Exits(2)
     \/ flags.ok /\ flags.allow /\ ~flags.understood /\ Exits(2)
     \/ /\ flags.ok /\ (flags.allow => flags.understood)
        /\ cli' = "run" /\ UNCHANGED <<flags, exitCode>>
  /\ UNCHANGED <<benchVars, fileVars>>

RunDecides ==
  /\ cli = "run"
  /\ \E v \in Samples, i \in DOMAIN Catalog :
       verdicts' = Append(verdicts, [v EXCEPT !.id = Catalog[i].id])
  /\ Decide
  /\ UNCHANGED <<fileVars, cli, flags, exitCode>>

RunReturns ==
  /\ cli = "run"
  /\ Complete \/ Abort
  /\ cli' = "write" /\ UNCHANGED <<fileVars, flags, exitCode>>

Writing == cli = "write" /\ WriteStep /\ UNCHANGED <<benchVars, cli, flags, exitCode>>

(* The exit code is decided by the first task that is not a clean hold.    *)
Unclean(v) == v.status \in {"error", "skipped"} \/ v.cleanup
TaskCode(v) == IF Unclean(v) THEN 3 ELSE IF v.status \in BreachStatuses THEN 1 ELSE 0
FirstCode(tasks) ==
  IF \E i \in DOMAIN tasks : TaskCode(tasks[i]) # 0
  THEN LET first == CHOOSE i \in DOMAIN tasks :
                      /\ TaskCode(tasks[i]) # 0
                      /\ \A j \in 1..(i - 1) : TaskCode(tasks[j]) = 0
       IN  TaskCode(tasks[first])
  ELSE 0

(* Mistake: the error of Write is dropped. *)
ExitUnwritten ==
  /\ cli = "write" /\ writer = "done"
  /\ Exits(IF outcome = "aborted" THEN 2 ELSE FirstCode(verdicts))
  /\ UNCHANGED <<benchVars, fileVars>>

Exit ==
  /\ cli = "write" /\ writer = "done"
  /\ \/ outcome = "aborted" /\ Exits(2)
     \/ outcome = "complete" /\ writeErr /\ Exits(2)
     \/ outcome = "complete" /\ ~writeErr /\ Exits(FirstCode(verdicts))
  /\ UNCHANGED <<benchVars, fileVars>>

(* The process is killed, or the machine loses power, also after the exit. *)
Crash ==
  /\ (cli # "exited" /\ Killed) \/ PowerLoss
  /\ cli' = "exited" /\ UNCHANGED <<benchVars, flags, exitCode>>

Over == cli = "exited" /\ UNCHANGED cliVars

CLINext == ParseFlags \/ RunDecides \/ RunReturns \/ Writing \/ Exit \/ Crash \/ Over

CLISpec == CLIInit /\ [][CLINext]_cliVars

-----------------------------------------------------------------------------
(* A dangerous task gets any result but skipped only after the operator has*)
(* given --allow-dangerous and HOLDOUT_I_UNDERSTAND=1 inside the outer VM. *)
DangerNeedsUnderstanding ==
  \A i \in DOMAIN verdicts :
    Catalog[i].dangerous /\ verdicts[i].status # "skipped"
      => flags.allow /\ flags.understood /\ flags.outerVM /\ ~flags.dryRun

(* Exit code 0 is trustworthy: every task of the catalog ran, held and was *)
(* cleaned up, and, unless the power fails later, the result is in place.  *)
ExitZeroTrustworthy ==
  exitCode = 0 =>
    /\ Len(verdicts) = Len(Catalog)
    /\ \A i \in DOMAIN verdicts : verdicts[i].status = "hold" /\ ~verdicts[i].cleanup
    /\ writer = "done" => target.data = "result"

(* Any other code of a completed run names something its result shows.     *)
ExitCodeExplained ==
  /\ exitCode \in {1, 3} => outcome = "complete" /\ (writer = "done" => target.data = "result")
  /\ exitCode = 1 => \E i \in DOMAIN verdicts : verdicts[i].status \in BreachStatuses
  /\ exitCode = 3 => \E i \in DOMAIN verdicts : Unclean(verdicts[i])

-----------------------------------------------------------------------------
(* SPEC.md line 41: a completed run with an error, a cleanup error or a    *)
(* skipped task returns 3, before the code 1 of a breach.                  *)
UncleanRunReturnsThree ==
  (exitCode \in {0, 1, 3} /\ \E i \in DOMAIN verdicts : Unclean(verdicts[i])) => exitCode = 3
=============================================================================
