----------------------------- MODULE CLIProofs ------------------------------
(***************************************************************************)
(* Theorems about holdout run, for every catalog and every result a run may*)
(* give: what is at the output path whenever the program or the machine    *)
(* stops, and what the exit code tells.                                    *)
(***************************************************************************)
EXTENDS HoldoutCLI, SequenceTheorems, WellFoundedInduction, TLAPS

(* A file that a power failure cannot shorten, and that is not shortened.  *)
Kept(file) == file \in Files \cup {NoFile} /\ file.synced /\ file.data # "part"

(* TargetNeverPartial speaks of the target only.  What makes it hold is    *)
(* that the file that will be renamed is synced when it is, and that a     *)
(* file at the target is therefore never one a power failure can shorten.  *)
FileInv ==
  /\ writer \in {"ready", "write", "sync", "close", "rename", "removing", "done", "dead"}
  /\ writeErr \in BOOLEAN
  /\ Kept(before) /\ Kept(target)
  /\ tmp \in Files \cup {NoFile}
  /\ writer \in {"ready", "write", "sync", "close", "rename"} => writeErr = FALSE
  /\ writer \in {"sync", "close", "rename"} => tmp.data = "result"
  /\ writer = "sync" => tmp \in Files
  /\ writer \in {"close", "rename"} => Kept(tmp)
  /\ (writer \in {"removing", "done"} /\ writeErr = FALSE) => target.data = "result"

LEMMA KeptFiles == Kept(NoFile) /\ Kept([data |-> "old", synced |-> TRUE])
BY DEF Kept, NoFile, Files

LEMMA FileInvInit == FileInit => FileInv
BY KeptFiles DEF FileInit, FileInv, Kept

LEMMA PowerLossLeaves ==
  /\ \A file \in Files \cup {NoFile} : AfterPowerLoss(file) \subseteq Files \cup {NoFile}
  /\ \A file : Kept(file) => AfterPowerLoss(file) = {file}
<1>1. [data |-> "part", synced |-> TRUE] \in Files
  BY DEF Files
<1> QED
  BY <1>1 DEF AfterPowerLoss, Kept

LEMMA FileInvNext ==
  FileInv /\ (WriteStep \/ Killed \/ PowerLoss \/ UNCHANGED fileVars) => FileInv'
<1> SUFFICES ASSUME FileInv, WriteStep \/ Killed \/ PowerLoss \/ UNCHANGED fileVars
             PROVE FileInv'
  OBVIOUS
<1> USE DEF FileInv
<1>1. CASE UNCHANGED fileVars
  BY <1>1 DEF fileVars
<1>2. CASE WriteStep
  <2>1. CASE CreateTemp
    <3>1. [data |-> "part", synced |-> FALSE] \in Files
      BY DEF Files
    <3> QED
      BY <1>2, <2>1, <3>1 DEF WriteStep, CreateTemp, Proceeds
  <2>2. CASE WriteData
    <3>1. /\ [data |-> "result", synced |-> FALSE] \in Files
          /\ [data |-> "result", synced |-> FALSE].data = "result"
      BY DEF Files
    <3> QED
      BY <1>2, <2>2, <3>1 DEF WriteStep, WriteData, Proceeds, Fails
  <2>3. CASE SyncTemp
    <3>1. tmp \in Files => Kept([tmp EXCEPT !.synced = TRUE]) \/ tmp.data = "part"
      BY DEF Kept, Files
    <3>2. tmp \in Files => [tmp EXCEPT !.synced = TRUE].data = tmp.data
      BY DEF Files
    <3> QED
      BY <1>2, <2>3, <3>1, <3>2 DEF WriteStep, SyncTemp, Proceeds, Fails, Kept
  <2>4. CASE CloseTemp
    BY <1>2, <2>4 DEF WriteStep, CloseTemp, Proceeds, Fails
  <2>5. CASE RenameTemp
    BY <1>2, <2>5 DEF WriteStep, RenameTemp, Proceeds, Fails
  <2>6. CASE RemoveTemp
    BY <1>2, <2>6 DEF WriteStep, RemoveTemp
  <2> QED
    BY <1>2, <2>1, <2>2, <2>3, <2>4, <2>5, <2>6 DEF WriteStep
<1>3. CASE Killed
  BY <1>3 DEF Killed
<1>4. CASE PowerLoss
  <2>1. AfterPowerLoss(target) = {target} /\ AfterPowerLoss(tmp) \subseteq Files \cup {NoFile}
    BY PowerLossLeaves
  <2>2. target \in Files \cup {NoFile}
    BY DEF Kept
  <2> QED
    BY <1>4, <2>1, <2>2 DEF PowerLoss
<1> QED
  BY <1>1, <1>2, <1>3, <1>4

-----------------------------------------------------------------------------
(* The exit code of a completed run, in terms of all its results.          *)

LEMMA Less == \A i, j \in Nat : <<j, i>> \in OpToRel(<, Nat) <=> j < i
BY DEF OpToRel

(* The loop over the results ends at the first one with a code.            *)
LEMMA FirstCodeMeaning ==
  ASSUME NEW S, NEW tasks \in Seq(S)
  PROVE  \/ FirstCode(tasks) = 0 /\ \A i \in DOMAIN tasks : TaskCode(tasks[i]) = 0
         \/ \E i \in DOMAIN tasks : TaskCode(tasks[i]) # 0 /\ FirstCode(tasks) = TaskCode(tasks[i])
<1> DEFINE Coded == {i \in DOMAIN tasks : TaskCode(tasks[i]) # 0}
           First(i) == TaskCode(tasks[i]) # 0 /\ \A j \in 1..(i - 1) : TaskCode(tasks[j]) = 0
<1>1. CASE Coded = {}
  BY <1>1 DEF FirstCode
<1>2. CASE Coded # {}
  <2>1. DOMAIN tasks = 1..Len(tasks) /\ Len(tasks) \in Nat
    BY LenProperties
  <2>2. Coded \subseteq Nat
    BY <2>1
  <2>3. PICK i \in Coded : \A j \in Coded : ~(j < i)
    <3> HIDE DEF Coded
    <3>1. PICK i \in Coded : \A j \in Coded : ~(<<j, i>> \in OpToRel(<, Nat))
      BY <1>2, <2>2, WFMin, NatLessThanWellFounded
    <3>2. \A j \in Coded : ~(j < i)
      BY <2>2, <3>1, Less, Zenon
    <3> QED
      BY <3>2
  <2>4. i \in DOMAIN tasks /\ First(i)
    BY <2>1, <2>3
  <2>5. FirstCode(tasks) = TaskCode(tasks[CHOOSE k \in DOMAIN tasks : First(k)])
    BY <2>4 DEF FirstCode
  <2>6. (CHOOSE k \in DOMAIN tasks : First(k)) \in Coded
    <3> HIDE DEF First
    <3>1. \E k \in DOMAIN tasks : First(k)
      BY <2>4
    <3>2. (CHOOSE k \in DOMAIN tasks : First(k)) \in DOMAIN tasks
          /\ First(CHOOSE k \in DOMAIN tasks : First(k))
      BY <3>1, Zenon
    <3> QED
      BY <3>2 DEF First
  <2> QED
    BY <2>5, <2>6
<1> QED
  BY <1>1, <1>2

LEMMA Codes == \A v : TaskCode(v) \in {0, 1, 3}
BY DEF TaskCode

-----------------------------------------------------------------------------
Given == {[v EXCEPT !.id = Catalog[i].id] : v \in Samples, i \in DOMAIN Catalog}

(* The run: what Benchmark promises of its results. *)
BenchInv ==
  /\ flags \in Flags
  /\ gate = Gate(flags.dryRun, flags.outerVM /\ flags.allow)
  /\ verdicts \in Seq(Given) /\ Len(verdicts) <= Len(Catalog)
  /\ \A i \in DOMAIN verdicts : Admissible(i, verdicts[i])
  /\ outcome \in {"running", "complete", "aborted"}
  /\ outcome = "complete" => Len(verdicts) = Len(Catalog)

(* A result exists only where the operator's consent has been asked for,   *)
(* and the exit code of a completed run is FirstCode of all its results.   *)
CLIInv ==
  /\ FileInv /\ BenchInv
  /\ cli \in {"parse", "run", "write", "exited"}
  /\ exitCode \in {0, 1, 2, 3, NoCode}
  /\ (cli = "run" \/ verdicts # <<>>) => (flags.allow => flags.understood)
  /\ cli # "exited" => exitCode = NoCode
  /\ exitCode \in {0, 1, 3} =>
       /\ outcome = "complete" /\ exitCode = FirstCode(verdicts)
       /\ writer \in {"done", "dead"} /\ ~writeErr

LEMMA CatalogSeq ==
  /\ Len(Catalog) \in Nat /\ DOMAIN Catalog = 1..Len(Catalog)
BY CatalogAssumption, LenProperties DEF Validated

LEMMA CLIInvInit == CLIInit => CLIInv
<1> SUFFICES ASSUME CLIInit PROVE CLIInv
  OBVIOUS
<1>1. FileInv
  BY FileInvInit DEF CLIInit
<1>2. verdicts = <<>> /\ <<>> \in Seq(Given) /\ Len(verdicts) = 0 /\ DOMAIN verdicts = {}
  BY EmptySeq DEF CLIInit
<1>3. BenchInv
  BY <1>2, CatalogSeq DEF CLIInit, BenchInv
<1> QED
  BY <1>1, <1>2, <1>3 DEF CLIInit, CLIInv, NoCode

LEMMA BenchUntouched ==
  ASSUME BenchInv, UNCHANGED <<benchVars, flags>>
  PROVE  BenchInv'
<1>1. /\ gate' = gate /\ verdicts' = verdicts /\ outcome' = outcome /\ flags' = flags
  BY DEF benchVars
<1>2. (\A i \in DOMAIN verdicts : Admissible(i, verdicts[i]))'
  BY <1>1 DEF BenchInv, Admissible
<1>3. (gate = Gate(flags.dryRun, flags.outerVM /\ flags.allow))'
  BY <1>1 DEF BenchInv, Gate
<1> QED
  BY <1>1, <1>2, <1>3 DEF BenchInv

(* A result is added to a run that goes on. *)
LEMMA BenchDecides == CLIInv /\ RunDecides => BenchInv'
<1> SUFFICES ASSUME CLIInv, RunDecides PROVE BenchInv'
  OBVIOUS
<1>1. PICK v \in Samples, k \in DOMAIN Catalog :
        verdicts' = Append(verdicts, [v EXCEPT !.id = Catalog[k].id])
  BY DEF RunDecides
<1> DEFINE new == [v EXCEPT !.id = Catalog[k].id]
           next == Len(verdicts) + 1
<1>2. new \in Given
  BY DEF Given
<1> HIDE DEF new
<1>3. verdicts' = Append(verdicts, new) /\ verdicts \in Seq(Given)
  BY <1>1 DEF new, CLIInv, BenchInv
<1>4. /\ verdicts' \in Seq(Given) /\ Len(verdicts') = next /\ Len(verdicts) \in Nat
      /\ DOMAIN verdicts = 1..Len(verdicts) /\ DOMAIN verdicts' = 1..next
      /\ \A i \in 1..Len(verdicts) : verdicts'[i] = verdicts[i]
  BY <1>2, <1>3, AppendProperties, LenProperties
<1>5. /\ next \in DOMAIN Catalog /\ Admissible(next, verdicts'[next])
      /\ outcome = "running" /\ UNCHANGED <<gate, outcome, flags>>
  BY DEF RunDecides, Decide
<1>6. (\A i \in DOMAIN verdicts : Admissible(i, verdicts[i]))'
  <2>1. \A i \in DOMAIN verdicts : Admissible(i, verdicts[i])
    BY DEF CLIInv, BenchInv
  <2>2. \A i \in DOMAIN verdicts' : Admissible(i, verdicts'[i])
    BY <1>4, <1>5, <2>1
  <2> QED
    BY <1>5, <2>2 DEF Admissible
<1>7. Len(verdicts') <= Len(Catalog)
  BY <1>4, <1>5, CatalogSeq
<1>8. (gate = Gate(flags.dryRun, flags.outerVM /\ flags.allow))'
  BY <1>5 DEF CLIInv, BenchInv, Gate
<1>9. flags' \in Flags /\ outcome' = "running"
  BY <1>5 DEF CLIInv, BenchInv
<1> QED
  BY <1>4, <1>6, <1>7, <1>8, <1>9 DEF BenchInv

LEMMA BenchReturns == CLIInv /\ RunReturns => BenchInv'
<1> SUFFICES ASSUME CLIInv, RunReturns PROVE BenchInv'
  OBVIOUS
<1>1. /\ UNCHANGED <<gate, verdicts, flags>>
      /\ outcome' = "aborted" \/ (outcome' = "complete" /\ Len(verdicts) = Len(Catalog))
  BY DEF RunReturns, Complete, Abort
<1>2. (\A i \in DOMAIN verdicts : Admissible(i, verdicts[i]))'
  BY <1>1 DEF CLIInv, BenchInv, Admissible
<1>3. (gate = Gate(flags.dryRun, flags.outerVM /\ flags.allow))'
  BY <1>1 DEF CLIInv, BenchInv, Gate
<1> QED
  BY <1>1, <1>2, <1>3 DEF CLIInv, BenchInv

(* One step per action: the run and the file by the lemmas above, and then *)
(* what the action does to the command itself.                             *)
LEMMA CLIInvNext == CLIInv /\ [CLINext]_cliVars => CLIInv'
<1> SUFFICES ASSUME CLIInv, [CLINext]_cliVars PROVE CLIInv'
  OBVIOUS
<1>0. /\ FileInv /\ BenchInv /\ exitCode \in {0, 1, 2, 3, NoCode}
      /\ NoCode \notin {0, 1, 2, 3}
  BY DEF CLIInv, NoCode
<1>1. CASE UNCHANGED cliVars
  <2>1. FileInv' /\ BenchInv'
    BY <1>0, <1>1, FileInvNext, BenchUntouched DEF cliVars
  <2> QED
    BY <1>1, <2>1 DEF CLIInv, cliVars, benchVars, fileVars
<1>2. CASE ParseFlags
  <2>1. FileInv' /\ BenchInv'
    BY <1>0, <1>2, FileInvNext, BenchUntouched DEF ParseFlags, Exits
  <2>2. UNCHANGED <<verdicts, outcome, flags, writer, writeErr>> /\ cli = "parse"
    BY <1>2 DEF ParseFlags, Exits, benchVars, fileVars
  <2>3. \/ cli' = "exited" /\ exitCode' = 2
        \/ cli' = "run" /\ exitCode' = exitCode /\ (flags.allow => flags.understood)
    BY <1>2 DEF ParseFlags, Exits
  <2> QED
    BY <1>0, <2>1, <2>2, <2>3 DEF CLIInv
<1>3. CASE RunDecides
  <2>1. FileInv' /\ BenchInv'
    BY <1>0, <1>3, FileInvNext, BenchDecides DEF RunDecides
  <2>2. UNCHANGED <<flags, cli, exitCode>> /\ cli = "run"
    BY <1>3 DEF RunDecides
  <2> QED
    BY <1>0, <2>1, <2>2 DEF CLIInv
<1>4. CASE RunReturns
  <2>1. FileInv' /\ BenchInv'
    BY <1>0, <1>4, FileInvNext, BenchReturns DEF RunReturns
  <2>2. UNCHANGED <<flags, exitCode, verdicts>> /\ cli = "run" /\ cli' = "write"
    BY <1>4 DEF RunReturns, Complete, Abort
  <2> QED
    BY <1>0, <2>1, <2>2 DEF CLIInv
<1>5. CASE Writing
  <2>1. FileInv' /\ BenchInv'
    BY <1>0, <1>5, FileInvNext, BenchUntouched DEF Writing
  <2>2. UNCHANGED <<verdicts, outcome, flags, cli, exitCode>> /\ cli = "write"
    BY <1>5 DEF Writing, benchVars
  <2> QED
    BY <1>0, <2>1, <2>2 DEF CLIInv
<1>6. CASE Exit
  <2>1. FileInv' /\ BenchInv'
    BY <1>0, <1>6, FileInvNext, BenchUntouched DEF Exit, Exits
  <2>2. /\ UNCHANGED <<verdicts, outcome, flags, writer, writeErr>> /\ writer = "done"
        /\ cli' = "exited"
        /\ \/ exitCode' = 2
           \/ outcome = "complete" /\ ~writeErr /\ exitCode' = FirstCode(verdicts)
    BY <1>6 DEF Exit, Exits, benchVars, fileVars
  <2>3. FirstCode(verdicts) \in {0, 1, 3}
    BY <1>0, FirstCodeMeaning, Codes DEF BenchInv
  <2> QED
    BY <2>1, <2>2, <2>3 DEF CLIInv
<1>7. CASE Crash
  <2>1. FileInv' /\ BenchInv'
    BY <1>0, <1>7, FileInvNext, BenchUntouched DEF Crash
  <2>2. /\ UNCHANGED <<verdicts, outcome, flags, exitCode, writeErr>>
        /\ cli' = "exited" /\ writer' = "dead"
    BY <1>7 DEF Crash, Killed, PowerLoss, benchVars
  <2> QED
    BY <1>0, <2>1, <2>2 DEF CLIInv
<1>8. CASE Over
  BY <1>1, <1>8 DEF Over
<1> QED
  BY <1>1, <1>2, <1>3, <1>4, <1>5, <1>6, <1>7, <1>8 DEF CLINext

LEMMA CLIInvHolds == CLISpec => []CLIInv
BY CLIInvInit, CLIInvNext, PTL DEF CLISpec

-----------------------------------------------------------------------------
(* Write (runner.go): the output path holds a whole result or what it held *)
(* before, whenever the program is killed or the power fails, and a nil    *)
(* error means that the result is there and on the disk.                   *)
THEOREM ResultNeverPartial == CLISpec => [](TargetNeverPartial /\ WrittenMeansInPlace)
<1>1. CLIInv => TargetNeverPartial /\ WrittenMeansInPlace
  BY DEF CLIInv, FileInv, Kept, TargetNeverPartial, WrittenMeansInPlace
<1> QED
  BY <1>1, CLIInvHolds, PTL

(* runCommand (main.go): no dangerous task has a result other than skipped *)
(* without the operator's flag, the environment variable and the outer VM. *)
THEOREM DangerUnderstood == CLISpec => []DangerNeedsUnderstanding
<1>1. CLIInv => DangerNeedsUnderstanding
  <2> SUFFICES ASSUME CLIInv, NEW i \in DOMAIN verdicts,
                      Catalog[i].dangerous, verdicts[i].status # "skipped"
               PROVE  flags.allow /\ flags.understood /\ flags.outerVM /\ ~flags.dryRun
    BY DEF DangerNeedsUnderstanding
  <2>1. i \in gate
    BY DEF CLIInv, BenchInv, Admissible
  <2>2. ~flags.dryRun /\ flags.outerVM /\ flags.allow
    BY <2>1 DEF CLIInv, BenchInv, Gate
  <2>3. verdicts # <<>>
    OBVIOUS
  <2> QED
    BY <2>2, <2>3 DEF CLIInv
<1> QED
  BY <1>1, CLIInvHolds, PTL

(* runCommand (main.go): exit code 0 means that every task of the catalog  *)
(* ran, held and was cleaned up, and that the result is in place unless the*)
(* power fails later; the codes 1 and 3 name something the result shows.   *)
THEOREM ExitCodeTrustworthy == CLISpec => [](ExitZeroTrustworthy /\ ExitCodeExplained)
<1>1. CLIInv => ExitZeroTrustworthy /\ ExitCodeExplained
  <2> SUFFICES ASSUME CLIInv PROVE ExitZeroTrustworthy /\ ExitCodeExplained
    OBVIOUS
  <2>1. verdicts \in Seq(Given)
    BY DEF CLIInv, BenchInv
  <2>2. /\ \A i \in DOMAIN verdicts : ValidTaskResult(verdicts[i])
        /\ FileInv
        /\ outcome = "complete" => Len(verdicts) = Len(Catalog)
        /\ exitCode \in {0, 1, 3} =>
             /\ outcome = "complete" /\ exitCode = FirstCode(verdicts)
             /\ writer \in {"done", "dead"} /\ ~writeErr
    BY DEF CLIInv, BenchInv, Admissible
  <2>3. exitCode \in {0, 1, 3} => (writer = "done" => target.data = "result")
    BY <2>2 DEF FileInv
  <2>4. exitCode = 0 => \A i \in DOMAIN verdicts : TaskCode(verdicts[i]) = 0
    BY <2>1, <2>2, FirstCodeMeaning
  <2>5. \A c \in {1, 3} : exitCode = c => \E i \in DOMAIN verdicts : TaskCode(verdicts[i]) = c
    BY <2>1, <2>2, FirstCodeMeaning
  <2>6. \A i \in DOMAIN verdicts : TaskCode(verdicts[i]) = 0 =>
          verdicts[i].status = "hold" /\ ~verdicts[i].cleanup
    BY <2>2 DEF ValidTaskResult, Statuses, TaskCode, Unclean, BreachStatuses
  <2>7. /\ \A v : TaskCode(v) = 1 => v.status \in BreachStatuses
        /\ \A v : TaskCode(v) = 3 => Unclean(v)
    BY DEF TaskCode
  <2> QED
    BY <2>2, <2>3, <2>4, <2>5, <2>6, <2>7 DEF ExitZeroTrustworthy, ExitCodeExplained
<1> QED
  BY <1>1, CLIInvHolds, PTL

(* The variables of the command line keep their types. *)
THEOREM CLITypeCorrect == CLISpec => []CLITypeOK
<1>1. CLIInv => CLITypeOK
  <2> SUFFICES ASSUME CLIInv PROVE CLITypeOK
    OBVIOUS
  <2>1. FileTypeOK
    BY DEF CLIInv, FileInv, FileTypeOK, Kept
  <2>2. gate \subseteq DOMAIN Catalog /\ \A i \in DOMAIN verdicts : ValidTaskResult(verdicts[i])
    BY DEF CLIInv, BenchInv, Gate, Admissible
  <2> QED
    BY <2>1, <2>2 DEF CLIInv, BenchInv, CLITypeOK
<1> QED
  BY <1>1, CLIInvHolds, PTL
=============================================================================
