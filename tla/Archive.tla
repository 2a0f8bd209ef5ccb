------------------------------- MODULE Archive ------------------------------
(***************************************************************************)
(* Where a result comes from and what its archive checks are worth: a run  *)
(* reads the catalog, hashes the materials and asks docker for the image   *)
(* once, and uses materials and image task by task; meanwhile, and between *)
(* the run and the commands validate and validate-result, an operator      *)
(* edits task directories and catalog, the image's tag is moved, and the   *)
(* clock may be set.                                                       *)
(*                                                                         *)
(* The run is runner.Run as far as time, digests and versions go; verdicts *)
(* and sandboxes are Runner's subject.  Every result is written whole.     *)
(***************************************************************************)
EXTENDS Catalog

CONSTANTS
  Original,    \* the catalog to begin with: declared suite and tasks
  Suites,      \* the suites an operator may name
  Images,      \* the images the tag may refer to
  MaxClock,    \* bound: the clock's values are 1..MaxClock; 0 is no time
  MaxEdits     \* bound: the edits of catalog, materials and tag

(* The ids and digests there may be, and what an entry of a catalog is.    *)
IDs == {t.id : t \in ToSet(Original.tasks)}
Texts == Digests \cup {""} \cup {t.digest : t \in ToSet(Original.tasks)}
Entries ==
  [id: IDs, family: STRING, version: Int, digest: Texts, title: STRING, level: STRING,
   dangerous: BOOLEAN]

ASSUME ArchiveAssumption ==
  Original \in [declared: STRING, tasks: Seq(Entries)] /\ Images # {}

VARIABLES
  catalog, files, image, clock,  \* the world: files as in Catalog
  run,        \* Run: pc, options and locals
  used,       \* what was used for each task that ran: materials and image
  written,    \* the result file: <<>> or one result
  answer,     \* the exit codes of the commands, until something is edited
  edits,
  quiet       \* what has not happened: materials edited during the "run",
              \* an edit "since" its start, the "clock" set back since then

world == <<catalog, files, image, clock>>
archiveVars == <<world, run, used, written, answer, edits, quiet>>

NoCode == 255
NoAnswer == [validate |-> NoCode, strict |-> NoCode]

ArchiveInit ==
  /\ catalog = Original
  /\ files = [id \in IDs |->
                (CHOOSE t \in ToSet(Original.tasks) : t.id = id).digest]
  /\ image = (CHOOSE i \in Images : TRUE) /\ clock = 1
  /\ run \in [pc: {"load"}, suite: Suites, mode: {"dry", "plain", "dangerous"}, tasks: {<<>>},
              described: {"unavailable"}, started: {0}, results: {<<>>}, foretold: {FALSE}]
  /\ used = <<>> /\ written = <<>> /\ answer = NoAnswer
  /\ edits = 0 /\ quiet = {"run", "since", "clock"}

-----------------------------------------------------------------------------
(* The operator, the registry and the clock. *)

Edits(material) ==
  /\ edits < MaxEdits /\ edits' = edits + 1
  /\ quiet' = CASE run.pc = "load" -> quiet
                [] run.pc = "returned" \/ ~material -> quiet \ {"since"}
                [] OTHER -> quiet \ {"run", "since"}
  /\ answer' = NoAnswer
  /\ UNCHANGED <<clock, run, used, written>>

(* A directory whose digest is "" holds a link or has lost a file. *)
EditMaterials ==
  /\ \E id \in DOMAIN files, d \in (Digests \cup {""}) : files' = [files EXCEPT ![id] = d]
  /\ UNCHANGED <<catalog, image>> /\ Edits(TRUE)

EditCatalog ==
  /\ \E i \in DOMAIN catalog.tasks :
       \/ catalog' = [catalog EXCEPT !.tasks = RemoveAt(@, i)]
       \/ \E raised \in {0, 1} :
            catalog' = [catalog EXCEPT !.tasks[i].digest = files[catalog.tasks[i].id],
                                       !.tasks[i].version = @ + raised]
  /\ UNCHANGED <<files, image>> /\ Edits(FALSE)

MoveTag ==
  /\ image' \in Images \ {image}
  /\ UNCHANGED <<catalog, files>> /\ Edits(FALSE)

SetClock ==
  /\ clock' \in 1..MaxClock
  /\ quiet' = IF clock' < clock /\ run.pc \notin {"load", "returned"} THEN quiet \ {"clock"} ELSE quiet
  /\ UNCHANGED <<catalog, files, image, run, used, written, answer, edits>>

-----------------------------------------------------------------------------
(* holdout run *)

Running(pc) == run.pc = pc /\ UNCHANGED <<world, edits, quiet>>
GoesOn(r) == run' = r /\ UNCHANGED <<written, answer>>

(* Run returns and the command writes its result, also one with an error.  *)
Return(r, failed) ==
  /\ run' = [r EXCEPT !.pc = "returned"]
  /\ written' = <<[suite |-> r.suite, error |-> failed, started |-> r.started,
                   ended |-> clock, image |-> r.described, tasks |-> r.results]>>
  /\ answer' = [answer EXCEPT !.strict = NoCode]

RunLoads ==
  /\ Running("load") /\ UNCHANGED used
  /\ LET r == [run EXCEPT !.started = clock, !.tasks = catalog.tasks,
                        !.foretold = (answer.validate = 0)]
     IN  IF Loads(catalog, run.suite) THEN GoesOn([r EXCEPT !.pc = "validate"])
         ELSE Return([r EXCEPT !.tasks = <<>>], TRUE)

RunValidates ==
  /\ Running("validate") /\ UNCHANGED used
  /\ IF Validates(files, run.tasks)
     THEN GoesOn([run EXCEPT !.pc = IF run.mode = "dry" THEN "loop" ELSE "describe"])
     ELSE Return(run, TRUE)

(* docker image inspect; or docker or the sink fails. *)
RunDescribes ==
  /\ Running("describe") /\ UNCHANGED used
  /\ GoesOn([run EXCEPT !.pc = "loop", !.described = image]) \/ Return(run, TRUE)

Next == Len(run.results) + 1
Skips == run.mode = "dry" \/ (run.tasks[Next].dangerous /\ run.mode = "plain")
Records(status) ==
  LET t == run.tasks[Next]
  IN  GoesOn([run EXCEPT !.pc = "loop", !.results = Append(@,
        [id |-> t.id, version |-> t.version, digest |-> t.digest, status |-> status])])

SkipTask ==
  /\ Running("loop") /\ Next \in DOMAIN run.tasks /\ Skips
  /\ Records("skipped") /\ used' = Append(used, [materials |-> {}, images |-> {}])

(* docker create makes the container from what the tag refers to now, with *)
(* the task directory itself mounted into it.                              *)
CreateSandbox ==
  /\ Running("loop") /\ Next \in DOMAIN run.tasks /\ ~Skips
  /\ \/ /\ GoesOn([run EXCEPT !.pc = "attack"])
        /\ used' = Append(used, [materials |-> {}, images |-> {image}])
     \/ Records("error") /\ used' = Append(used, [materials |-> {}, images |-> {}])
     \/ Return(run, TRUE) /\ UNCHANGED used

UsesMaterials == used' = [used EXCEPT ![Next].materials = @ \cup {files[run.tasks[Next].id]}]

RunAttacker ==
  /\ Running("attack") /\ UsesMaterials
  /\ GoesOn([run EXCEPT !.pc = "oracle"]) \/ Records("error")

RunOracle ==
  /\ Running("oracle") /\ UsesMaterials
  /\ \E status \in {"judged", "error"} : Records(status)

FinishRun ==
  /\ Running("loop") /\ Next \notin DOMAIN run.tasks /\ UNCHANGED used
  /\ Return(run, FALSE)

-----------------------------------------------------------------------------
(* holdout validate, holdout validate-result --strict *)

(* Mistake: the suite is loaded and not validated. *)
ValidateCodeLoaded(suite) == IF Loads(catalog, suite) THEN 0 ELSE 2

ValidateCode(suite) ==
  IF Loads(catalog, suite) /\ Validates(files, catalog.tasks) THEN 0 ELSE 2

(* ValidateRunResult, as far as times, versions and digests go. *)
ValidArchived(r) ==
  /\ r.suite # "" /\ r.started # 0 /\ r.ended # 0 /\ r.ended >= r.started
  /\ \A i, j \in DOMAIN r.tasks : r.tasks[i].id = r.tasks[j].id => i = j
  /\ \A i \in DOMAIN r.tasks : r.tasks[i].version >= 1 /\ r.tasks[i].digest \in Digests

PlainCode(r) == IF ValidArchived(r) THEN 0 ELSE 2
StrictCode(r) ==
  IF /\ ValidArchived(r)
     /\ ValidateCode(r.suite) = 0 /\ Covers(r.tasks, catalog.tasks)
  THEN 0 ELSE 2

ValidateCommand ==
  /\ answer' = [answer EXCEPT !.validate = ValidateCode(run.suite)]
  /\ UNCHANGED <<world, run, used, written, edits, quiet>>

ValidateResultCommand ==
  /\ written # <<>>
  /\ answer' = [answer EXCEPT !.strict = StrictCode(written[1])]
  /\ UNCHANGED <<world, run, used, written, edits, quiet>>

ArchiveNext ==
  \/ EditMaterials \/ EditCatalog \/ MoveTag \/ SetClock
  \/ RunLoads \/ RunValidates \/ RunDescribes
  \/ SkipTask \/ CreateSandbox \/ RunAttacker \/ RunOracle \/ FinishRun
  \/ ValidateCommand \/ ValidateResultCommand

ArchiveSpec == ArchiveInit /\ [][ArchiveNext]_archiveVars

-----------------------------------------------------------------------------
Ran(k) == written[1].tasks[k].status = "judged"

(* What strict validation accepts is a verdict on exactly the files and the*)
(* catalog there are now, whatever was edited, put back, republished or    *)
(* dropped since the run, if the materials were left alone while it ran.   *)
StrictMeansTheseMaterials ==
  (answer.strict = 0 /\ "run" \in quiet) =>
    /\ {t.id : t \in ToSet(written[1].tasks)} = {t.id : t \in ToSet(catalog.tasks)}
    /\ \A k \in DOMAIN written[1].tasks :
         Ran(k) => used[k].materials = {files[written[1].tasks[k].id]}

(* A run that ended with an error is not accepted as complete against the  *)
(* tasks it was run on, although strict validation does not read the error.*)
PartialNeverStrict ==
  (answer.strict = 0 /\ catalog.tasks = run.tasks) => ~written[1].error

(* When holdout validate says 0 and nothing is edited any more, a run of   *)
(* the suite is not refused for its catalog, and its result, if it         *)
(* completes, is strictly valid.  That an unknown SUT is refused, in a dry *)
(* run too, is Runner's ChooseSUT and left out here.                       *)
ValidateForetells ==
  (run.foretold /\ run.pc = "returned" /\ {"since", "clock"} \subseteq quiet) =>
    /\ written[1].error => run.mode # "dry"
    /\ ~written[1].error => StrictCode(written[1]) = 0

-----------------------------------------------------------------------------
(* What the documents say and the code does not do. *)

(* MVP_STATUS.md line 11: the digests in the results keep scripts and      *)
(* oracles from drifting silently.                                         *)
NoSilentDrift ==
  answer.strict = 0 =>
    \A k \in DOMAIN written[1].tasks :
      Ran(k) => used[k].materials = {written[1].tasks[k].digest}

(* MVP_STATUS.md line 30: a tag that has drifted is not taken for the same *)
(* configuration.                                                          *)
ImageAsDescribed == \A k \in DOMAIN used : used[k].images \subseteq {run.described}

(* SPEC.md line 109: a result that is written is valid. *)
EveryWrittenResultValid ==
  (written # <<>> /\ written[1].suite # "") => PlainCode(written[1]) = 0
=============================================================================
