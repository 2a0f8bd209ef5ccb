# Holdout in TLA+

A verification project for Holdout, the sandbox benchmark: `holdout run` puts the
attacker of each catalog task into a Docker (or gVisor) sandbox, counts the evidence
that reaches an HTTP sink, lets the task's oracle judge it and writes a scored result
file. The modules below model the program's own logic, TLC checks them on small
instances, and TLAPS proves the central invariants for every instance. Source paths
are relative to the repository (`src/`).

Contents: [1 inventory](#1-inventory) · [2 modules and the code](#2-modules-and-the-code) ·
[3 runs](#3-runs) · [4 bounds](#4-bounds-and-why-they-are-enough) ·
[5 fairness](#5-fairness) · [6 proofs](#6-proofs) ·
[7 what the documents say and the code does not do](#7-where-code-and-documents-differ) ·
[8 what is not modelled](#8-not-modelled) · [9 plan](#9-plan)

## 1 Inventory

| Component | Code | State | Operations | Interacts with |
| --- | --- | --- | --- | --- |
| Result protocol | `internal/model/model.go`, `validation.go` | none (records) | `Score`, `ValidateRunResult` | built by the runner, archived by the command line |
| Docker adapter | `internal/sut/adapter.go` | `name`, `created` of the adapter; containers and volumes of the daemon | `Create`, `Exec`, `Destroy`, `Describe` | one object per task, called by the runner; runs `docker` |
| Evidence sink | `internal/sink/sink.go` | listener, `allowedRuns`, `events` | `StartOn`, `RegisterRun`, `Events`, `Close`, five HTTP handlers | called by the runner, by requests of the attackers; a goroutine per request, one lock |
| Runner | `internal/runner/runner.go` `Run`, `runOracle` | the result being built, locals of the task loop | `Run` | catalog, environment, adapter, sink, oracle processes |
| Result writer | `runner.go` `Write` | temporary and target file | `Write` | the file system |
| Command line | `cmd/holdout/main.go` | flags, exit code | `run`, `list`, `validate`, `validate-result` | runner, writer, catalog |
| Catalog | `internal/catalog/catalog.go` | none; reads task files | `Load`, `Validate`, `Digest`, `ValidateResult` | runner, command line |
| Outer VM detection | `internal/runner/environment.go` | the marker file | `DetectEnvironment` | runner's safety gate |
| Firecracker launcher | `runner/firecracker/launch.sh` | TAP device, VM process, work directory | start, trap | the host |
| Guest init, guest entry | `guest-init.sh`, `holdout-guest.sh` | mounts, marker | boot, run, power off | the command line inside the VM |
| Rootfs builder | `build-rootfs.sh` | mount, image, work directory | build, trap | the host |
| Attackers and oracles | `tasks/*` | none | post evidence; judge a count | sink; runner |
| Contract tools, schema | `tools/*.py`, `schema/` | none | developer checks | run the other commands |

**What is hard here.** The attacker is a process nobody controls: killing `docker exec`
at its deadline does not stop it, and it goes on sending to the sink until its
container is removed, under any run id it likes (those of a run differ in the task id
only), with bodies it need never end. A sink handler checks the run id, appends the event and answers
in three separate steps, so registration, the runner's snapshot, other handlers and
`Close` come between them. Every `docker` command may fail, or be killed at its
deadline, before or *after* the daemon has done its work, and `Destroy` runs two of
them under one deadline. `Run` returns early from many places and must leave a valid
partial result on each. The process or the machine may die while the result file is
replaced. The safety gate (outer VM *and* authorization) is one condition inside a
loop with several ways to the steps that start containers. Materials, catalog, image tag
and clock are read once and used later, while an operator may change them. The host's
scripts make devices, mounts and processes and note them in a variable one command later,
so that a signal may fall in between; two of them may want one name; and a guest image
keeps its marker over boots that were cut short. `PROJECT.json` lists these as hazards,
each at its line, with the properties that cover it.

**What makes each part correct.**

* Adapter: a sandbox the caller was told exists is never forgotten; a first `Destroy`
  that returns nil has removed everything; a foreign container is never touched;
  `Exec` and `Destroy` return whatever the daemon does.
* Sink: what is acknowledged is recorded exactly once under the run it named; what is
  refused is not recorded; only registered runs have events; a handler answers once its
  body has come or broken off, and once the sink closes in any case.
* Runner: sandboxes, attackers and evidence exist only behind the gate; a breach rests on
  evidence, and what a task's attacker was acknowledged is counted; a leaked sandbox is on
  record; the result is valid on every path; the run ends, unless docker never answers the
  undo of a failed start.
* Writer and command line: the output path never holds a partial file; exit code 0
  means every task ran and held and the result is in place.
* Catalog: the digest changes with the materials and with nothing else; no accepted
  catalog has a dangerous task that is not marked; what strict validation accepts is a
  verdict on the files and the catalog there are.
* Outer VM: a command in the VM passes the gate only with the marker sealed, the network
  ready and the operator's consent, whatever earlier boots have left.
* Host scripts: what a launcher or builder has made is gone when it ends, except a complete
  image; what others have made stays.
* Attackers and oracles: a breach is judged a breach, and nothing else is. The code keeps
  this for nine of the twelve tasks, see section 7.

## 2 Modules and the code

```
Results ──────────────┬─────────────► Benchmark ───► HoldoutCLI ◄── ResultFile
   │                  │   (abstract)      ▲              ▲
   │   DockerAdapter ─┼─► AdapterUse      │ refines      │
   ▼        ▼         │                   │          MCHoldoutCLI
 Runner ◄── Sink ─────┘  Runner ──────────┘
   │        │  refines
   │        ▼
   │    EvidenceLog (abstract)
   ▼
 RunnerInterrupt

Results ──► Catalog ──► CatalogEdits ─┐
               └──────► Archive ──────┼► MCCatalog ◄── MCProbes ◄── Probes ◄── Results
           Materials, BindAddress ────┘
Launcher, RootfsBuild, OuterVM ──► MCFirecracker

Proofs: AdapterUse ► AdapterProofs     Sink, BindAddress ► SinkProofs
        Runner, AdapterProofs, SinkProofs ► RunnerProofs
        RunnerInterrupt, RunnerProofs ► RunnerEvidenceProofs
        HoldoutCLI ► CLIProofs          MCFirecracker ► FirecrackerProofs
        CatalogEdits, Archive, Probes ► CatalogProofs      Materials ► MaterialsProofs
```

### The run

**Results** holds the result records as data: the four ways `Run` builds a task result,
the acceptance test of `runOracle`, `Score`, and `ValidateRunResult`. A text is
represented by whether it is empty, since nothing tells more of it; levels, statuses,
evidence kinds and the event count are kept. Times, digests and versions are left to
**Archive**.

**DockerAdapter** is `adapter.go` and the daemon. `adapter` is the object's two fields,
`call` the docker command that is running, `container` and `volume` the daemon. Each
command is a step of its own, from `Runs(command)` to the step that ends it. A failing
step chooses what the daemon has done: `docker create` may leave the volume, or volume
and container; `docker start` may have started; `docker rm` may have removed. A
deadline that passes in the first command of `Destroy` stops the second from starting.
`foreign` containers and volumes are those that were there before.

**AdapterUse** is an arbitrary caller: `Create`, `Exec`, `Destroy` in any order and
repeated, as SPEC.md lets an operator retry. Its variables are what the caller was
told, which is what the interface's promises are about.

**Sink** is `sink.go`. A request has a state: `reading` (the handler waits for the body),
`received`, `allowed` (the lock released after `runAllowed`), `stored` (the event is
appended), `answered`. A body ends (`BodyEnds`), or it is too long, its client goes away or
`Close` cuts the connection (`BodyCut`), or neither ever happens, as the server sets no
timeout (sink.go:62). `CheckRequest` is everything a handler does from there to its second
access to shared state; method checks, body, header before query, `validRunID` and
`runAllowed` in the code's order. The digest an event keeps is represented by the request
it came with. `CloseSink` ends the listener, not the handlers.

**EvidenceLog** is what the sink promises: a request is recorded, shown or declined in
one step, at a moment when the log could or could not take it. `Sink` implements it
(`ImplementsEvidenceLog`); `Fate` says when each request takes effect.

**BindAddress** is the sink's address: what `Run` asks of `HOLDOUT_SINK_BIND_ADDR` and
then `StartOn`, with the predicates of package `net` and the byte comparisons of
`privateIPv4` and `privateIPv6`. The property compares them with the ranges of the RFCs,
written as intervals of the first two bytes.

**Benchmark** is what a run promises its reader: results in catalog order, one by one;
outside the gate skipped, and only there; every other verdict valid, a breach only at
the task's level and with evidence; complete when all tasks have a result, else aborted.
`Runner` implements it (`ImplementsBenchmark`).

**Runner** composes `DockerAdapter`, `Sink` and `Results` with `runner.go`. `pc` walks
through `Run`: `load`, `sut`, `environment`, `describe`, `sink` before the loop, then
per task `loop`, `register`, `creating` (→ `cleanup` after a failed `Create`),
`executing`, `destroying`, `verdict`, and `returned`. Every early return is `Return`,
which does both deferred functions. While the runner waits for docker, the attackers
(`probe`) send requests under any run id (`ProbeSends`), the handlers move and the daemon
answers. `execErr`,
`destroyErr` and `evidence` are the loop body's locals. Task ids are records that keep
what the derived names tell apart: `TaskRunID` lower-cases, `ContainerName` removes
dashes, so colliding ids collide in the model as in the code. The oracle is any program:
`RunOracle` chooses any output, or none.

**RunnerInterrupt** lets the process of a run end between any two steps. `cmd/holdout`
handles no signal, so nothing of the run is undone: the sink ends with the process, the
docker command that was running may still have its effect (`LastCommand`), attackers go
on, and a container's `sleep 3600` ends when it likes.

**ResultFile** is `Write`: each call fails or succeeds, the process may be killed between
any two, and a power failure leaves any part of what was not synced and may undo the
rename, as the directory is not synced.

**HoldoutCLI** is `runCommand`: flags, environment variable, the run (the abstract
`Benchmark`, justified by the refinement), the write and the exit code.

### Catalog and archive

**Materials** is `Digest` over a working copy: paths are sequences of names, names and
contents sequences of bytes, of which only those that the code tells apart have a name
(dot, slash, NUL, CR, LF, the cache directory, a text extension). `Walk` visits in the
order of `filepath.Walk` (the i-th file is the one that i - 1 others come before), `Sorted`
is the insertion sort by path (`Inserted`), `AllHashed` the bytes given to SHA-256, which is
taken to be injective. `MaterialAssumption` is what file systems see to: no name is empty or
has a NUL or a slash in it. Around it: a developer commits files, git
checks them out with either line ending, Python and git fill directories of their own,
and the copy is edited.

**Catalog** holds the operators: the line parser of `Load` (`Parsed`, which adds line by line to what was read;
`Malformed`), suite names (`Available`), `Validate` (`Validates`), and the comparison of an
archived result with the catalog (`Covers`). A line is what its prefix makes of it.

**CatalogEdits** edits an accepted catalog line by line. The properties read the *blocks*
of the file, the lines between two ids, and so say independently of the parser what a
reader of the file takes it to mean.

**Archive** puts time into it: one run, which loads the catalog, hashes the materials,
asks for the image's digest, and then uses materials and image task by task; edits of
catalog and materials, a tag that moves and a clock that is set, at any point; and the
commands `validate` and `validate-result --strict` with their exit codes. `used` records
what each task was really run on. Verdicts and sandboxes are Runner's.

**Probes** is the twelve tasks: the request each attacker makes in a sandbox of given
faults (`Sandboxes`: 768 of them), what the sandbox and the sink make of it, with loss of
request or answer, and what each oracle prints. T009's write to `/workspace` comes before
its report and may fail. `Broken` is what the tasks forbid, where the attacker can tell.

### The outer VM

**Launcher** is `launch.sh`, for several launchers on one host. The variables are the
script's (`tap_created`, `fc_pid`), the host's (`tap`, `vm`, `workdir`) and how often the
cleanup is still to run: the trap of a signal ends in `exit`, whose trap runs the cleanup
once more. Bash runs a trap between two commands, so `Signal` is an action between steps.

**RootfsBuild** is `build-rootfs.sh` in the same manner: the check of the path, the hash of
the archive, image, file system, mount, extraction and installation, and the cleanup with
the exit status it sees. An image is named for the builder that made it, so that two
builders that meet on one path are told apart.

**OuterVM** is one image over several boots, each cut short anywhere: `guest-init.sh`
(marker, seal, network), `holdout-guest.sh` (checks of marker, command and consent) and
then flags and `DetectEnvironment`, `Lstat` and read as two steps. The image may bring a
file, link or directory of its own to the marker's path.

### How the checked instances are made

`MCRunner`, `MCRunnerInterrupt`, `MCSink` and `MCHoldoutCLI` give the catalogs, requests
and sample results. `MCCatalog` and `MCFirecracker` check several modules that share no
state: the first state chooses a `part`, and only that part moves, so the states of one run
are the sum, not the product, of its parts. `MCProbes` gives the tasks the levels of
`tasks/catalog.yaml`; it is checked as a part of `MCCatalog`, and by itself where T007 is
concerned.

An operator whose comment starts with "Mistake" is a plausible wrong version of the
definition next to it; no specification uses it. Replacing the definition by it breaks
one property (listed under `mutants` in `PROJECT.json`), which shows that the property
depends on the code being as it is.

## 3 Runs

| Run | Shows |
| --- | --- |
| `adapter` | Five calls in any order against a daemon that fails in every way. `ContainerNeverForgotten`, `FirstDestroyRemovesAll`, `CreateNilMeansRunning`, `ForeignContainerKept` hold; `DeadlinedCallsReturn`: `Exec` and `Destroy` end. |
| `sink` | Two concurrent requests out of eleven kinds (run id in header, query, both, neither, unknown, ill-formed; wrong method; every path), each with a body that ends, breaks off or does neither, registration and `Close` at any time. `EvidenceExactlyOnce`, `EventsOfRegisteredRuns` hold, the sink implements `EvidenceLog`, and every request whose body has ended or broken off is answered, as is every other once the sink closes (`RequestsAnswered`). |
| `runner` | A whole run over T1 (L1) and a dangerous T2 (L4), with and without authorization, with and without the outer VM, dry and with an unknown SUT; every docker failure, oracle output and interleaving with handlers and with attackers that present either task's run id. Gate (`SandboxesAuthorised`), validity on every return (`ReturnedResultValid`), evidence (`EvidenceBehindGate`, `BreachHasEvidence`, `HeardEvidenceCounted`), cleanup (`LeakReported`, `SandboxesOverlapOnlyAfterError`), types, refinement of `Benchmark`, and `RunReturns`: the run ends, unless it waits for the undo of a failed start for ever. |
| `interrupt` | The same run, its process ended anywhere. `InterruptLeavesOneSandbox`: what is left and not explained by a task result is one sandbox at most, that of the current task. |
| `cli` | `holdout run` over three tasks with results of every kind the exit code tells apart, with write errors, kills and power failures: `DangerNeedsUnderstanding`, `ExitZeroTrustworthy`, `TargetNeverPartial`. |
| `catalog` | Digest: it changes exactly with the materials (`DigestIdentifiesMaterials`), a checkout keeps it (`CheckoutKeepsDigest`), its order is that of the document (`DigestInPathOrder`). Lines: no edit makes an accepted catalog whose danger is unmarked (`AcceptedDangerIsMarked`) or whose ids the rest of the program cannot use (`AcceptedIDsUsable`). Archive: what strict validation accepts is about the files there are (`StrictMeansTheseMaterials`) and complete (`PartialNeverStrict`), and a `validate` that says 0 foretells a run that is not refused for its catalog and a result that is strictly valid (`ValidateForetells`). Tasks: in every sandbox the runner accepts each task's verdict (`VerdictsAccepted`), which is the right one for nine of them and half right for three (`JudgedAsItIs`). Address: at every bound of the private ranges, `ListensPrivately`. |
| `firecracker` | Launchers leave nothing (`LauncherCleansUp`), the loser of the race for the TAP does not take the winner's (`LoserKeepsOthersTap`), a launcher told to stop ends (`ToldLauncherEnds`); builders leave a complete image or none (`RestingImageComplete`, `FailureLeavesNothing`); a command that reaches the gate inside the VM has marker, network and consent, after any boots that were cut short (`RunsAreAttested`). |
| `runner_cleanup_error`, `runner_guessed_id`, `cli_exit_code`, `outer_vm_sealed`, `probes_redirect` | One divergence each between a document and the code, see section 7; TLC finds the counterexample. |

Some of these deserve a word.

`HeardEvidenceCounted`: the runner reads the log once, after `Destroy`, and requests in
flight may be stored later; such late events are lost to the verdict, and nothing
promises otherwise. What holds, and depends on `Destroy` coming first, is that evidence
whose acceptance the attacker could still learn of is counted, unless the sandbox could
not be removed, which then is on record.

`StrictMeansTheseMaterials` has the condition that the materials were left alone *while*
the run ran. Without it the property fails, see section 7: the digest in the result is
that of the catalog, compared with the files once, before the first task.

`LauncherCleansUp` excepts a signal that came before both script variables were set, and
`LoserKeepsOthersTap` one whose second cleanup deletes by name. Both exceptions are needed;
section 7 has the statements without them.

`EvidenceBehindGate` and `BreachHasEvidence` speak of the attackers that may have sent the
evidence, and not of the task's own: an attacker may present the id of another task, and is
then recorded under it once the runner has registered it. That is what sink.go:122-124 says
cannot happen, and the subject of `runner_guessed_id`. What is left, and needs the gate, the
order of registration and start, and the check of `runAllowed`, is that nobody gets evidence
under an id before its task is reached, or under that of a skipped task. `HeardEvidenceCounted`
counts what an attacker sent under its own task's id; foreign evidence can only add to it.

`JudgedAsItIs` is the whole claim (a breach where the promise is broken and nothing was
lost, hold where it is kept) for nine tasks. T007 (`Blind`) is asked only not to invent a
fault, as it never sees one (`probes_redirect`); T010 and T011 (`Eager`) only not to miss one,
as any egress and any socket file is a fault for them (`RightIsHeld`, section 7).

## 4 Bounds, and why they are enough

* **adapter**: two names, `MaxCalls = 5`. The adapter has one name at a time; the second
  lets an adapter that has forgotten a sandbox make another. Create, Exec, Destroy, and a
  failed Destroy with its retry take four calls; the fifth is one of any kind after them.
  Each name may be foreign from the start. The theorems of section 6 drop both bounds.
* **sink**: two requests and two valid run ids plus an ill-formed one. Handlers interact
  only through `allowedRuns` (grows only) and `events` (each appends once), so two
  requests meet every pair of steps. The theorems hold for any number of requests.
* **runner**: two tasks with one request each, which either attacker may send under either
  task's run id, the second with a body (`Beacons`): own and guessed, registered and not yet.
  No volume of a sandbox's name is there before (`NoForeignVolumes`, in `MCRunner` only;
  `adapter` and the theorems allow them). What a task leaves to later ones is its container
  and volume, its attacker and its requests in flight; a second task is enough to meet them,
  and the first of the two is not dangerous while the second is, so the gate separates them.
  The theorems hold for every catalog and number of requests.
* **interrupt**: the same two tasks, one request of the first. The property is about
  containers; the request keeps an attacker and a handler among what is interrupted.
* **cli**: three tasks, so that a clean task, a breach and an unclean one come in every
  order; seven sample results, one for each branch of the exit code and one per builder
  of section 2.
* **catalog**: `MaxFiles = 2` files out of five paths and six contents, which imitate the
  header of another file, a line end in the middle and a directory beside a file of its
  name: ambiguity of a concatenation and order need two files. `MaxCopyEdits = 2` lets a
  copy change and another change hide it. `MaxLineEdits = 2` inserted, repeated or deleted
  lines, out of eighteen that each break or change one thing: one to break and one to
  repair. In the archive `MaxEdits = 2` (change and put back), two digests, two images, a
  clock of two values (`MaxClock = 2`) that may be set back.
  Tasks and sandboxes have no bound: the facts of the sandboxes are all combinations.
  Addresses take bytes at, next to and inside the bounds of each range (`MCBytes`).
* **firecracker**: two launchers and two builders, as each resource has one owner and one
  rival; one signal for each of them, after which the cleanup runs anew, and the second
  launcher's steps may fall anywhere between the two cleanups. `MaxBoots = 3`: a boot that
  leaves a marker, one that finds it and is cut short, one that finds that; the marker has
  no further states. Images and settings are all combinations.

No run uses symmetry. Deadlock checking is off where the modelled system really stops:
`Sink` (all requests answered), `RunnerInterrupt` (the process is dead and its containers
have ended), `Catalog` (edits used up, a verdict given, an address bound or refused),
`Firecracker` and `Firecracker_SealedMarker` (scripts ended, boots used up) and
`Probes_Redirect` (a verdict given). In `AdapterUse`, `Runner` and `HoldoutCLI` the end is a
named stuttering step (`UseDone`, `Returned`, `Over`), so a deadlock anywhere else is an
error.

## 5 Fairness

* `WF(UseDeadlined)`, `WF(DockerStep)`: a docker command under a context with a deadline
  ends, since `exec.CommandContext` kills it. That is not assumed of the two commands
  that undo a failed start: they run under `context.Background()`. As `DockerUndo` is under
  no fairness, `RunReturns` has the exception that the run waits for one of them for ever,
  and `CreateReturns` of section 7 fails.
* `WF(RunnerStep)`: the goroutine of `Run` moves when it can; the oracle and `docker
  version` run under deadlines and so are single steps that end.
* `WF(HandlerStep(q))` for each request, from the moment its body has ended or broken off:
  handlers have goroutines of their own and hold the lock for single operations. That a body
  ends (`BodyEnds`) or breaks off (`BodyCut`) is not assumed, as `http.Server` has no
  `ReadTimeout`; only when the sink is closed is it, since `Close` cuts the connections:
  `WF(sinkState = "closed" /\ BodyCut(q))`. Attackers are under no fairness at all: they may
  stop anywhere, also in the middle of a body, or never.
* `WF(LaunchStep(l))` for each launcher: a script is a process of its own and every command
  it runs while it is not waiting for its VM ends. That is a condition, not something the
  script sees to: its calls of curl have no `--max-time`, and Bash waits for the command
  that runs before it runs a trap, so a Firecracker that accepts a connection and never
  answers would delay the trap. The guest (`VMEnds`) and signals are under no fairness: a
  guest runs as long as it likes, which is why `ToldLauncherEnds` is about launchers that
  were told, or whose VM has ended.

## 6 Proofs

Eight modules hold the theorems; every one is checked by TLAPS for all values of the
constants, so that the bounds of section 4 do not limit it. The assumptions are those of the
modules, which TLC evaluates on every run: `NoNameAssumption` (the empty name is no
container's), `RunIDAssumption` (the empty string is no run id), `LauncherAssumption` and
`PartAssumption` (nobody is no launcher and no builder), `ByteAssumption`; the types of what
is offered (`CallsAssumption`, `OfferedAssumption`, `RequestAssumption`, `OptionAssumption`,
`ArchiveAssumption`, `LinesAssumption`, `MaterialAssumption`, `ProbeAssumption`); and for the runner
`CatalogAssumption`, what `catalog.Validate` guarantees. Where a theorem needs more than the
program checks, it has a hypothesis with a name, explained below.

* **AdapterProofs**: `UseTypeCorrect`, `NeverForgotten`, `DestroyRemovesAll`,
  `CreateNilRuns`, `ForeignKept`. The invariant `UseInv` adds to the types what holds
  *during* a call: which command runs in which call on which sandbox (`Commanding`) and what
  the caller's memory says of the adapter and the daemon (`Knowing`). It is needed because
  the promises speak of the moments between calls, and are prepared by the commands before:
  that the volume is gone when the second command of `Destroy` succeeds follows only if the
  container was gone before it. `ContainerRemoval` and `VolumeRemoval` state once what the
  two removing commands may do; `AdapterTypeStep` that a step keeps the types.
* **SinkProofs**: `SinkTypeCorrect`, `LogOfRegisteredRuns`, `EvidenceRecordedOnce` and
  `SinkImplementsLog`, the refinement of `EvidenceLog`. The invariant `SinkInv` adds
  `HandlersSound`: a handler past its check still satisfies what it has checked, which is
  where "a run is never deregistered" enters, and a handler that has stored holds
  contents that may be recorded. A body that is still awaited is not asked yet: `LogStep` maps
  its end or breaking off to the log's request (`BodyIsAsk`). `SinkMove` is what coordinator, clients and handlers may do
  in any system, so that the same lemmas serve the sink by itself and inside a run.
  `SinksListenPrivately` (`ListensPrivately`) is for any set of bytes; `AllowedByRange` is
  its core, that the byte tests of `privateIPv4` and `privateIPv6` are exactly the ranges.
* **RunnerProofs**: a run and its result.
  `GateHolds` (`SandboxesAuthorised`) and `RunEvidence` (`EvidenceExactlyOnce` in a run):
  `GateInv` says that past the gate the current task may run (`MayRun(task)`), that the
  adapter's name is the current task's, and that an attacker that has started belongs to a
  task that may run. It is needed because the gate is checked once, in the loop, and
  containers appear steps later, some in commands that have "failed".
  `RunnerTypeCorrect` (`RunnerTypeOK`) rests on it: the counts of `Score` are numbers by the
  library's facts on finite sets (`ScoreType`), each of the four builders makes a task
  result, the log only grows (`LogGrows`), and Run goes on after a wait only with an outcome
  (`AdapterAnswers`).
  `RunImplementsBenchmark` (`ImplementsBenchmark`, initial states and every step) and
  `ResultsAccepted` (`ReturnedResultValid`): `ResultInv` says that the result holds one
  admissible verdict for each task before the current one, and `RunSteps` that for its result
  a step is a verdict (`VerdictStep`, the benchmark's `Decide`), one of the two returns
  (`ReturnStep`), or nothing. `SkipAdmissible`, `ErrorsAdmissible` and `VerdictAdmissible`
  show each of the four builders admissible where it is used; the last is where the runner's
  checks of the oracle's output are needed, and the others where the gate is.
  `ResultsAccepted` assumes that the operator gives no empty suite or SUT name
  (`NamesGiven`): `Run` does not check it, and without it the theorem is false (section 7).
* **RunnerEvidenceProofs**: what stands behind a result. `LeaksAreReported`
  (`LeakReported`) and `OverlapIsReported` (`SandboxesOverlapOnlyAfterError`) rest on
  `SandboxInv`: `StageInv` carries Create's nil through Exec to Destroy, so that Destroy's nil
  means that container and volume are gone; `ProbeInv` says that attackers do not outlive
  their container; from the two, `LeakInv` and `RemainsInv` say that whatever is left of
  earlier tasks is on record. `InterruptLeavesOne` (`InterruptLeavesOneSandbox`) is about
  `InterruptSpec`: `InterruptInv` is the run's invariant until the process ends, and from then
  on keeps of it only what a dead process cannot spoil, that the one command still running
  acts on the current task's sandbox and that everything else that remains is on record.
  `EvidenceIsBehindGate` (`EvidenceBehindGate`), `BreachesHaveEvidence` (`BreachHasEvidence`)
  and `HeardIsCounted` (`HeardEvidenceCounted`) have no hypothesis: attackers present any id,
  and ids of tasks may collide. `SentInv` says that requests come from attackers that were
  started behind the gate and that only ids of tasks reached behind it are registered;
  `CountInv`, what the runner has read of the log and made of it: after a `Destroy` that
  succeeded the current attacker hears nothing more, so that the number it has heard of stands
  still while the runner counts. An injection from what was heard into the events gives the
  inequality (`AcknowledgedAreCounted`). The one hypothesis in the module is `DistinctNames`
  (ids differ by more than case and dashes), for `LeaksAreReported`: without it a later
  sandbox of the same name would stand for a leak. `Run` does not check it.
* **CLIProofs**: `ResultNeverPartial`, `DangerUnderstood`, `ExitCodeTrustworthy` and
  `CLITypeCorrect`. `FileInv` says that what is at the target is always *kept*: whole and
  synced, so that no power failure can shorten it; that the temporary file is kept when it
  is renamed is where `Sync` before `Rename` is needed. `CLIInv` joins it with the abstract
  run and says what the exit code was computed from; `FirstCodeMeaning`, by the least
  unclean task, what the first code that is not 0 tells of the others.
* **FirecrackerProofs**: any number of launchers, builders, boots and, for the last, any
  order of power cuts. `LaunchersCleanUp` (`LauncherCleansUp`) needs `OwnInv`, what the two
  variables of the script say of device, process and directory at each line: they are set one
  command after the thing is made. `OthersTapKept` (`LoserKeepsOthersTap`) needs `DeviceInv`
  as well: a launcher that no signal has met still has the device it is going to delete,
  unless a launcher that *was* signalled has deleted it by name. `ImagesComplete`
  (`RestingImageComplete`) rests on `ImageInv`: an image at the path is complete, or some
  builder is `Responsible`, which will finish or remove it. That is not a property of one
  builder, as a second builder may have formatted the image of the first; `MountInv` says
  which line owns what, `PinnedInv` that only one who saw the right digest goes on.
  `FailedBuildsLeaveNothing` (`FailureLeavesNothing`) follows from `MountInv`.
  `GuestRunsAttested` (`RunsAreAttested`): `VMInv` is a chain, each line of boot and entry
  adding what it has made or checked, the seal of the marker first.
* **CatalogProofs**: every file of lines and every number of edits. What the parser makes of
  a file is shown line by line, by the least line at which it would be otherwise
  (`LineByLine`): after n lines the tasks read are the blocks begun so far, in order, and each
  field is what the last line of its block says (`Understood`, with the map from tasks to
  blocks). `ParsedUnderstood` is that for the whole file, and gives `AcceptedDangerMarked`
  (`AcceptedDangerIsMarked`) and `AcceptedIDsAreUsable` (`AcceptedIDsUsable`) from the
  conditions of `Validate`.
  The archive, for every catalog and every number of edits: `StrictIsAboutTheseMaterials`
  (`StrictMeansTheseMaterials`), `PartialIsNeverStrict` (`PartialNeverStrict`) and
  `ValidateForetellsRuns` (`ValidateForetells`) rest on `ArchiveInv`: the results are those of
  the first tasks (`ResultsInv`), judged on what Validate has compared if nobody has edited
  materials meanwhile (`MaterialsInv`, `UsedInv`), the file holds what was returned
  (`WrittenInv`, `ClockInv`), and the answers of the commands hold until something they
  depend on changes (`AnswerInv`, `ForetoldInv`). That the ids of results and catalog
  coincide as *sets* when strict validation has checked lengths, distinctness and one
  direction is a pigeonhole argument (`CoversAll`). `ValidateForetellsRuns` supposes
  `SuitesNamed`: given `--suite ""`, `validate` accepts every catalog and `validate-result`
  refuses every result. The verdicts: `OraclesAreAccepted` (`VerdictsAccepted`) supposes `LevelsNamed`, that the catalog gives each task the level its
  oracle names, as `tasks/catalog.yaml` does for all twelve and nothing checks;
  `TasksJudgeAsItIs` (`JudgedAsItIs`) needs no hypothesis, and says of T007, T010 and T011 no
  more than section 3 does. `ProbeInv` says that the log holds
  the evidence the attacker leaves in this sandbox (`Evidence`), or nothing if it was lost.
* **MaterialsProofs**: any number of files, any paths, any bytes. A recursive definition is a
  value chosen to satisfy an equation; `Recursion` shows once that there is such a value and
  only one, and lemmas named `...Reads` apply it to each definition, after which everything
  goes by a least counterexample (`LeastNumber`, `OneByOne`). `CheckoutsKeepDigest`
  (`CheckoutKeepsDigest`): `LineFeedsUndo`, a text without CR is what `LineFeeds` makes of it,
  before and after `CarriageReturns`. `DigestsInPathOrder` (`DigestInPathOrder`): `LexOrder`,
  the orders of strings and of paths are strict and total, so that `Walk` meets every material
  once (`Ranked`, `WalkMeetsMaterial`), and the insertion sort neither loses nor adds an entry
  and puts them in order (`SortedIncreases`). `DigestsIdentify` (`DigestIdentifiesMaterials`):
  two sequences in order that have the same elements are the same (`OneIncreasing`), and what
  is hashed can be read back in one way only. A path ends at the first NUL, the length that
  follows says where its contents end and the next file begins (`HashedOnce`,
  `AllHashedOnce`), and a path has one sequence of names (`JoinedInjective`). `MaterialInv`
  says that a copy nobody has edited has the committed materials. No theorem bounds a length:
  `Length(n)` is an injective code of one element for its decimal digits, which hold no NUL.

`UseTypeOK`, `SinkTypeOK`, `CLITypeOK`, `ExitCodeExplained` and `WrittenMeansInPlace` are
proved and in no run.

Only model-checked: liveness (`DeadlinedCallsReturn`, `RequestsAnswered`, `RunReturns`,
`ToldLauncherEnds`), which with `ENABLED` is out of reach of the provers used here. The
library's induction theorems, which take an operator, are out of reach too; the proofs about
lines and bytes do without them, by a least counterexample. No module has a `RECURSIVE`
operator. Every safety property of section 3 is a theorem, those of the last row excepted,
which do not hold.

## 7 Where code and documents differ

With a run whose counterexample shows it; `PROJECT.json` quotes the lines.

1. `CleanupErrorStopsRun`: the run goes on after an incomplete cleanup (SPEC.md:40).
2. `UncleanRunReturnsThree`: the exit code is that of the first unclean task, so a breach
   before an error gives 1 (SPEC.md:41).
3. `SealedMarkerAccepted`: the guest's entry tests `-w` as root, for whom every file is
   writable, and so refuses the marker that init has sealed (holdout-guest.sh:14, 4-5).
4. `OracleTellsFaultyFromRight`: T007 posts to a path that answers 307, which urllib does
   not follow for a POST, so its oracle can only hold (DESIGN.md:135).
5. `EvidenceOfOwnProbe`: the sink takes any registered run id from any client and never
   forgets one, and the ids of a run differ in the task id only. An attacker that outlives its
   task in a sandbox that was not removed, or whose request is checked late, presents the id
   of the next task and is counted there (sink.go:122-124: an id that is guessed cannot be used
   across tasks).

Stated in the modules, mostly in their last section ("What the documents say and the
code does not do"), and in no run. TLC refutes each when it is put in the place of
the properties of the module's run:

| Statement | Module | The code | The document |
| --- | --- | --- | --- |
| `CreateReturns` | AdapterUse | the undo of a failed start has no deadline | SPEC.md:35 |
| `RetriedDestroyRemovesVolume` | AdapterUse | a `Destroy` retried after `docker volume rm` failed returns nil with the volume left | SPEC.md:34 |
| `DestroyUndoesFailedCreate` | AdapterUse | `Destroy` after a failed `Create` does nothing and returns nil, although the container may exist | SPEC.md:34, THREAT_MODEL.md:48-49 |
| `GivenIDsSeparateTasks` with `Catalog <- CaseCatalog` | MCRunner | ids that differ in case only share a run id and each other's evidence, although every attacker presents the id it was given; the repository's own catalog has none | MVP_STATUS.md:8 |
| `RightIsHeld` | Probes | T010 reports a breach when a socket file is there that nobody answers on, T011 whenever there is egress, as its neighbour is the sink | SPEC.md:71-72, DESIGN.md:135 |
| `ReturnedResultValid` with `OptionSet <- EmptySUT` | MCRunner | with `--sut ""` the result written is invalid | SPEC.md:109 |
| `EveryWrittenResultValid` | Archive | a clock set back during a run gives a result that ends before it starts | SPEC.md:109 |
| `NoSilentDrift` | Archive | materials edited during a run are used under the digest taken before it | MVP_STATUS.md:11 |
| `ImageAsDescribed` | Archive | a tag moved during a run: tasks run in another image than the result names | MVP_STATUS.md:30 |
| `OnlyPrivateAddresses` | BindAddress | link-local addresses are accepted | runner.go:109 |
| `MarkerAfterNetwork` | OuterVM | init makes the marker before the network | launch.sh:4-6 |
| `NetworkConfigured` | OuterVM | without `/proc` the kernel arguments are not read and no network is configured | runner/README.md |
| `LauncherLeavesNothing` | Launcher | a signal between a command and the variable that notes it | runner/README.md |
| `GuestKeepsItsTap` | Launcher | a second cleanup deletes a device of the same name | runner/README.md |
| `SuccessIsComplete` | RootfsBuild | a signal whose last command succeeded keeps an image that is not complete | build-rootfs.sh:72-76 |
| `ImageNotOverwritten` | RootfsBuild | two builders may both find no image; the later one formats or removes the earlier one's | MVP_STATUS.md:16, runner/README.md |
| `VerifiedArchiveExtracted` | RootfsBuild | the archive is hashed and read by two commands | build-rootfs.sh:4-5 |
| `SocketContentStays` | Probes | T010 sends the answer of the socket | tasks/T010/TASK.md:5 |

Known and not stated as a formula: an interrupted run writes no result and removes
nothing; ids that differ in dashes only share container and volume name (`safeID`);
`docker create` reuses a volume of the sandbox's name (SPEC.md:35 says existing resources
are not reused); a `docker exec` killed at its deadline is recorded with exit code 0.

## 8 Not modelled

* Contract tools and schema: sequential developer checks that keep no state.
* Texts and the JSON form of results, the strictness of the decoder, `sanitizeError`: no
  modelled property is about them. The exit code recorded of a command is in this group.
* `Put` and `Get` of the adapter: no caller in the repository, no state of the adapter.
* `list`, which prints what `Load` returns.
* `check-prereqs.sh` reads and reports only; the checks of arguments in `launch.sh` come
  before the trap and are one outcome of `MakeWorkdir`; the checks of suite, target and output
  names in the guest's entry are left out.
* External, modelled from how the code uses it: Docker (a command succeeds, fails or is
  killed, with or without its effect; a taken name and a volume in use are refused;
  removing a container ends its processes), `net/http` (a body ends, breaks off or does
  neither; an answer is given when the handler gives it, though the server may hold it back
  while it discards a body that the handler did not read), package `net`, file systems
  (unsynced data may be lost), SHA-256 (injective), git's line ends, urllib, the kernel's
  `mount`, `ip` and `mkfs`, and bash, which runs traps between commands.
* A failing command of the launcher's cleanup: `launch.sh` ignores it, so a failing
  `ip link delete` (line 125) leaves the TAP, and `LauncherCleansUp` is about cleanups whose
  commands succeed. That they end is assumed as well (section 5).
* `HOLDOUT_OUTER_VM_MARKER`, with which an operator names another marker file: `OuterVM` takes
  the marker to be where `guest-init.sh` puts it.
* `Archive` leaves out that a run refuses an unknown SUT, in a dry run too (runner.go:73-75,
  `ChooseSUT` of Runner), so `ValidateForetells` is about the catalog; and it supposes a clock
  that is not set back during the run (section 7, `EveryWrittenResultValid`).
* Two runs at once: their run ids are random, so they share nothing but the daemon, where
  each sees the other's containers as `foreign` ones of other names.

## 9 Plan

Done, in this order: Results, DockerAdapter with AdapterUse, Sink with EvidenceLog,
Runner with Benchmark, ResultFile with HoldoutCLI; proofs of adapter, sink, gate and
result; Materials, Catalog, CatalogEdits and Archive; BindAddress; RunnerInterrupt; OuterVM,
Launcher and RootfsBuild; Probes; proofs of the runner's evidence and of the command line;
proofs of host scripts and guest, of interrupted runs, of archive, parser, verdicts and
addresses, and of the digest.
