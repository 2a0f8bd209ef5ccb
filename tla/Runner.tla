------------------------------- MODULE Runner -------------------------------
(***************************************************************************)
(* runner.Run (internal/runner/runner.go) with everything it drives: the   *)
(* Docker adapter and daemon (DockerAdapter), the sink (Sink), and the     *)
(* attackers, here called probes, that run in the sandboxes and send       *)
(* requests to the sink while the runner waits, destroys and goes on.      *)
(***************************************************************************)
EXTENDS DockerAdapter, Sink, Results

CONSTANTS
  Catalog,    \* the tasks of the catalog, as catalog.Validate accepts them
  OptionSet   \* the options an operator may give

Tasks == DOMAIN Catalog
TaskIDs == {Catalog[i].id : i \in Tasks}

(* A task id, as far as the names derived from it tell ids apart: its      *)
(* characters up to case and dashes, whether it has upper-case letters,    *)
(* and whether it has a dash.                                              *)
TaskRunID(i) == [Catalog[i].id EXCEPT !.upper = FALSE]      \* strings.ToLower
ContainerName(i) == [TaskRunID(i) EXCEPT !.dashed = FALSE]  \* safeID

(* catalog.Validate, and that the sink takes the run ids made of its ids.  *)
Validated ==
  /\ Catalog \in Seq([id: TaskIDs, level: Levels, dangerous: BOOLEAN])
  /\ Catalog # <<>>
  /\ \A i, j \in Tasks : Catalog[i].id = Catalog[j].id => i = j
  /\ \A i \in Tasks : Catalog[i].level \in {"L4", "L5"} => Catalog[i].dangerous
  /\ \A i \in Tasks : TaskRunID(i) \in ValidRunIDs /\ ContainerName(i) \in Names

ASSUME CatalogAssumption == Validated

(* The requests of a probe are numbered: <<task, number>>. *)
ASSUME RequestAssumption == Requests \subseteq Tasks \X Nat

Options == [suite: STRING, sut: STRING, dryRun: BOOLEAN, allow: BOOLEAN]
ASSUME OptionAssumption == OptionSet \subseteq Options

VARIABLES
  pc,          \* where Run is
  opt,         \* the options given
  outerVM,     \* what the outer VM marker says
  task,        \* the index of the current task
  result,      \* the result record being built
  execErr,     \* locals of the loop body
  destroyErr,
  evidence,    \* the events read for the task, as positions in the log
  probe,       \* the attackers: "absent", "running", "exited"
  heard        \* the requests accepted while their sender was running

runVars == <<pc, opt, outerVM, task, result, execErr, destroyErr, evidence>>
probeVars == <<probe, heard>>
vars == <<adapterVars, sinkVars, runVars, probeVars>>

Canonical(sut) == IF sut = "docker" THEN "docker-runc" ELSE sut

RunnerInit ==
  /\ AdapterInit /\ SinkInit
  /\ pc = "load" /\ opt \in OptionSet /\ outerVM \in BOOLEAN
  /\ task = 1
  /\ result = [suite |-> opt.suite, sut |-> Canonical(opt.sut), error |-> FALSE,
               ended |-> FALSE, tasks |-> <<>>, summary |-> Score(<<>>)]
  /\ execErr = "nil" /\ destroyErr = "nil" /\ evidence = {}
  /\ probe = [i \in Tasks |-> "absent"] /\ heard = {}

-----------------------------------------------------------------------------
(* Steps of Run that leave the sandbox, the sink or both alone. *)
Local == UNCHANGED <<opt, outerVM, execErr, destroyErr, evidence, probeVars>>
Goes(place) == pc' = place /\ UNCHANGED <<task, result>> /\ Local

(* Run returns: the deferred Close of the sink, then the deferred end of   *)
(* the result.                                                             *)
Return(failed) ==
  /\ pc' = "returned"
  /\ result' = [result EXCEPT !.error = failed, !.ended = TRUE,
                              !.summary = Score(result.tasks)]
  /\ \/ sinkState = "serving" /\ CloseSink
     \/ sinkState # "serving" /\ UNCHANGED sinkVars
  /\ UNCHANGED <<task, adapterVars>> /\ Local

(* The end of the loop body, whose locals are gone in the next round. *)
Record(t) ==
  /\ result' = [result EXCEPT !.tasks = Append(result.tasks, t)]
  /\ task' = task + 1 /\ pc' = "loop"
  /\ execErr' = "nil" /\ destroyErr' = "nil" /\ evidence' = {}
  /\ UNCHANGED <<adapterVars, sinkVars, opt, outerVM, probeVars>>

-----------------------------------------------------------------------------
(* Before the first task. *)

LoadCatalog ==
  /\ pc = "load"
  /\ \/ Goes("sut") /\ UNCHANGED <<adapterVars, sinkVars>>
     \/ Return(TRUE)

ChooseSUT ==
  /\ pc = "sut"
  /\ \/ /\ Canonical(opt.sut) \in {"docker-runc", "gvisor"}
        /\ Goes("environment") /\ UNCHANGED <<adapterVars, sinkVars>>
     \/ Canonical(opt.sut) \notin {"docker-runc", "gvisor"} /\ Return(TRUE)

(* A dry run needs no Linux host, no Docker and no sink.                   *)
CheckEnvironment ==
  /\ pc = "environment"
  /\ \/ opt.dryRun /\ Goes("loop") /\ UNCHANGED <<adapterVars, sinkVars>>
     \/ ~opt.dryRun /\ Goes("describe") /\ UNCHANGED <<adapterVars, sinkVars>>
     \/ ~opt.dryRun /\ Return(TRUE)

DescribeSUT ==
  /\ pc = "describe"
  /\ \/ Goes("sink") /\ UNCHANGED <<adapterVars, sinkVars>>
     \/ Return(TRUE)

StartEvidence ==
  /\ pc = "sink"
  /\ \/ StartSink /\ Goes("loop") /\ UNCHANGED adapterVars
     \/ Return(TRUE)

Setup == LoadCatalog \/ ChooseSUT \/ CheckEnvironment \/ DescribeSUT \/ StartEvidence

-----------------------------------------------------------------------------
(* The loop over the tasks. *)

InLoop == pc = "loop" /\ task \in Tasks
(* Mistake: the outer VM marker is taken for an authorization. *)
GatedByMarker == Catalog[task].dangerous /\ ~outerVM

Gated == Catalog[task].dangerous /\ ~(outerVM /\ opt.allow)

SkipTask ==
  /\ InLoop
  /\ Gated \/ opt.dryRun
  /\ Record(SkippedResult(Catalog[task].id))

(* Mistake: without an adapter the task is passed over. *)
PassOverTask ==
  /\ InLoop /\ ~Gated /\ ~opt.dryRun
  /\ \/ /\ Goes("register")
        /\ adapter' = FreshAdapter /\ reply' = "none"
        /\ UNCHANGED <<call, containerErr, container, volume, sinkVars>>
     \/ /\ task' = task + 1 /\ UNCHANGED <<pc, result, adapterVars, sinkVars>>
        /\ Local

(* Every task has an adapter of its own; docker may be gone by now. *)
NewTaskAdapter ==
  /\ InLoop /\ ~Gated /\ ~opt.dryRun
  /\ \/ /\ Goes("register")
        /\ adapter' = FreshAdapter /\ reply' = "none"
        /\ UNCHANGED <<call, containerErr, container, volume, sinkVars>>
     \/ Return(TRUE)

CreateSandbox ==
  /\ pc = "register"
  /\ RegisterRun(TaskRunID(task)) /\ AdapterCreate(ContainerName(task))
  /\ Goes("creating")

CleanUpFailedCreate ==
  /\ pc = "creating" /\ call = "idle" /\ reply \in Errors
  /\ AdapterDestroy /\ Goes("cleanup") /\ UNCHANGED sinkVars

RecordCreateError ==
  /\ pc = "cleanup" /\ call = "idle"
  /\ Record(CreateErrorResult(Catalog[task].id, reply))

StartProbe ==
  /\ pc = "creating" /\ call = "idle" /\ reply = "nil"
  /\ AdapterExec
  /\ probe' = [probe EXCEPT ![task] = "running"]
  /\ pc' = "executing"
  /\ UNCHANGED <<sinkVars, task, result, opt, outerVM, execErr, destroyErr, evidence, heard>>

(* Mistake: only a failed execution is cleaned up. *)
DestroyAfterErrorOnly ==
  /\ pc = "executing" /\ call = "idle"
  /\ IF reply = "nil" THEN UNCHANGED adapterVars ELSE AdapterDestroy
  /\ execErr' = reply /\ pc' = "destroying"
  /\ UNCHANGED <<sinkVars, task, result, opt, outerVM, destroyErr, evidence, probeVars>>

DestroySandbox ==
  /\ pc = "executing" /\ call = "idle"
  /\ AdapterDestroy
  /\ execErr' = reply /\ pc' = "destroying"
  /\ UNCHANGED <<sinkVars, task, result, opt, outerVM, destroyErr, evidence, probeVars>>

(* Mistake: the error of Destroy is dropped. *)
CollectEventsUnchecked ==
  /\ pc = "destroying" /\ call = "idle"
  /\ destroyErr' = "nil" /\ evidence' = EventsOf(TaskRunID(task))
  /\ pc' = "verdict"
  /\ UNCHANGED <<adapterVars, sinkVars, task, result, opt, outerVM, execErr, probeVars>>

CollectEvents ==
  /\ pc = "destroying" /\ call = "idle"
  /\ destroyErr' = reply /\ evidence' = EventsOf(TaskRunID(task))
  /\ pc' = "verdict"
  /\ UNCHANGED <<adapterVars, sinkVars, task, result, opt, outerVM, execErr, probeVars>>

RecordExecError ==
  /\ pc = "verdict" /\ execErr # "nil"
  /\ Record(ExecErrorResult(Catalog[task].id, execErr, destroyErr, Cardinality(evidence)))

RunOracle ==
  /\ pc = "verdict" /\ execErr = "nil"
  /\ \E output \in OracleOutputs :
       Record(JudgedResult(Catalog[task].id, output, Catalog[task].level, destroyErr,
                           Cardinality(evidence)))

FinishRun ==
  /\ pc = "loop" /\ task \notin Tasks
  /\ Return(FALSE)

RunTask ==
  \/ SkipTask \/ NewTaskAdapter \/ CreateSandbox
  \/ CleanUpFailedCreate \/ RecordCreateError
  \/ StartProbe \/ DestroySandbox \/ CollectEvents
  \/ RecordExecError \/ RunOracle
  \/ FinishRun

RunnerStep == Setup \/ RunTask

-----------------------------------------------------------------------------
(* The environment: docker commands, probes and the sink's handlers. *)

(* A probe dies with its container, and only then if it does not end by    *)
(* itself: docker exec being killed at the deadline does not stop it.      *)
ProbesFollowContainers ==
  /\ probe' = [i \in Tasks |-> IF probe[i] = "running"
                                 /\ container'[ContainerName(i)] = "absent"
                              THEN "exited" ELSE probe[i]]
  /\ UNCHANGED heard

(* docker exec succeeds only when the attacker has exited. *)
ExecOutcomePlausible ==
  (call = "exec" /\ reply' = "nil") => probe[task] = "exited"

DockerStep ==
  /\ DeadlinedCommand /\ ExecOutcomePlausible
  /\ ProbesFollowContainers
  /\ UNCHANGED <<sinkVars, runVars>>

DockerUndo ==
  /\ UndoCommand
  /\ ProbesFollowContainers
  /\ UNCHANGED <<sinkVars, runVars>>

(* The attackers send what they like: the run id they got, or another one, *)
(* as the ids of a run differ by their task's only.                        *)
ProbeSends(q, c) ==
  /\ probe[q[1]] = "running" /\ container[ContainerName(q[1])] = "running"
  /\ SendRequest(q, c)
  /\ UNCHANGED <<adapterVars, runVars, probeVars>>

ProbeExits(i) ==
  /\ probe[i] = "running"
  /\ probe' = [probe EXCEPT ![i] = "exited"]
  /\ UNCHANGED <<adapterVars, sinkVars, runVars, heard>>

(* A body comes when its sender likes, or later, if it is on its way.      *)
SinkReceives(q) ==
  /\ BodyEnds(q) \/ BodyCut(q)
  /\ UNCHANGED <<adapterVars, runVars, probeVars>>

SinkHandles(q) ==
  /\ HandlerStep(q)
  /\ heard' = IF request[q].state = "stored" /\ probe[q[1]] = "running"
              THEN heard \cup {q} ELSE heard
  /\ UNCHANGED <<adapterVars, runVars, probe>>

ProbeStep ==
  \/ \E q \in Requests, c \in Offered : ProbeSends(q, c)
  \/ \E i \in Tasks : ProbeExits(i)

Returned == pc = "returned" /\ UNCHANGED vars

RunnerNext ==
  \/ RunnerStep \/ DockerStep \/ DockerUndo \/ ProbeStep
  \/ \E q \in Requests : SinkReceives(q) \/ SinkHandles(q)
  \/ Returned

RunnerSpec == RunnerInit /\ [][RunnerNext]_vars

(* Run goes on whenever it can, and docker commands with a deadline end.   *)
(* Nothing makes docker answer the two that undo a failed start.           *)
RunnerFairness == WF_vars(RunnerStep) /\ WF_vars(DockerStep)

-----------------------------------------------------------------------------
RunnerTypeOK ==
  /\ AdapterTypeOK /\ SinkTypeOK
  /\ pc \in {"load", "sut", "environment", "describe", "sink", "loop", "register",
             "creating", "cleanup", "executing", "destroying", "verdict", "returned"}
  /\ opt \in Options /\ outerVM \in BOOLEAN
  /\ task \in 1..(Len(Catalog) + 1)
  /\ result \in [suite: {opt.suite}, sut: {Canonical(opt.sut)}, error: BOOLEAN,
                 ended: BOOLEAN, tasks: Seq(TaskResults(TaskIDs)), summary: Summaries]
  /\ execErr \in Outcomes /\ destroyErr \in Outcomes
  /\ evidence \subseteq DOMAIN events
  /\ probe \in [Tasks -> {"absent", "running", "exited"}] /\ heard \subseteq Requests

MayRun(i) == ~opt.dryRun /\ (Catalog[i].dangerous => outerVM /\ opt.allow)

(* A container of ours exists, and an attacker has started, only for a task*)
(* behind the safety gate: not in a dry run, and a dangerous task only in  *)
(* the outer VM with explicit authorization.                               *)
SandboxesAuthorised ==
  /\ \A n \in Names : container[n] \in Ours =>
       \E i \in Tasks : ContainerName(i) = n /\ MayRun(i)
  /\ \A i \in Tasks : probe[i] # "absent" => MayRun(i)

(* Whatever path Run returns on, validate-result accepts its result.       *)
ReturnedResultValid == pc = "returned" => ValidRunResult(result)

Presented(q) == PresentedRun(request[q].content)

(* What an attacker was told is recorded under its task's run id counts in *)
(* its result, unless its sandbox could not be removed: the events are read*)
(* once it is gone.                                                        *)
HeardEvidenceCounted ==
  \A k \in DOMAIN result.tasks :
    ("sink_event_count" \in result.tasks[k].evidence /\ ~result.tasks[k].cleanup)
    => Cardinality({q \in heard : q[1] = k /\ Presented(q) = TaskRunID(k)})
         <= result.tasks[k].events

(* Whatever ids attackers present, there is evidence only under those of   *)
(* tasks behind the gate that the run has reached, and only of attackers   *)
(* that were started behind it: an id presented too early, or of a task    *)
(* that is skipped, gets nothing.                                          *)
EvidenceBehindGate ==
  \A i \in DOMAIN events :
    /\ \E k \in Tasks : k <= task /\ MayRun(k) /\ events[i].run = TaskRunID(k)
    /\ LET sender == events[i].payload[1]
       IN  sender <= task /\ MayRun(sender) /\ probe[sender] # "absent"

(* A breach is reported at the level of the task, for a task that ran, and *)
(* the log holds an event under its run id, sent by an attacker that had   *)
(* been started by then.                                                   *)
BreachHasEvidence ==
  \A k \in DOMAIN result.tasks :
    result.tasks[k].status \in BreachStatuses =>
      /\ result.tasks[k].level = Catalog[k].level /\ MayRun(k)
      /\ \E i \in DOMAIN events : events[i].run = TaskRunID(k) /\ events[i].payload[1] <= k

(* A container or volume that outlives its task is on record: the result   *)
(* of a task whose attacker ran has a cleanup error.                       *)
LeakReported ==
  \A k \in DOMAIN result.tasks :
    (/\ probe[k] # "absent"
     /\ container[ContainerName(k)] \in Ours \/ volume[ContainerName(k)] = "own")
    => result.tasks[k].cleanup

(* Two sandboxes run at the same time only after a task has reported an    *)
(* error or a failed cleanup.                                              *)
SandboxesOverlapOnlyAfterError ==
  (\E m, n \in Names : m # n /\ container[m] = "running" /\ container[n] = "running")
    => \E k \in DOMAIN result.tasks : result.tasks[k].error \/ result.tasks[k].cleanup

(* Run does what the abstract benchmark promises. *)
Bench == INSTANCE Benchmark
           WITH gate <- {i \in Tasks : MayRun(i)}, verdicts <- result.tasks,
                outcome <- IF pc # "returned" THEN "running"
                           ELSE IF result.error THEN "aborted" ELSE "complete"

ImplementsBenchmark == Bench!BenchSpec

(* Run returns, however sandbox, sink and oracle behave, unless docker     *)
(* never answers a command that undoes a failed start.                     *)
RunReturns == Bench!RunEnds \/ <>[](call \in {"undoContainer", "undoVolume"})

-----------------------------------------------------------------------------
(* What the documents say and the code does not do. *)

(* SPEC.md line 40: when a cleanup is incomplete the run stops and a       *)
(* partial result is written.                                              *)
CleanupErrorStopsRun ==
  \A k \in DOMAIN result.tasks : result.tasks[k].cleanup => k = Len(result.tasks)

(* sink.go lines 122 to 124: an attacker that guesses a run id cannot use  *)
(* the sink across tasks; a task is judged on its own attacker's evidence. *)
EvidenceOfOwnProbe == \A i \in evidence : events[i].payload[1] = task

(* The same of attackers that present the id they were given, where        *)
(* catalog.Validate takes T1 and t1 for two tasks.                         *)
GivenIDsSeparateTasks ==
  \A i \in evidence :
    LET q == events[i].payload IN Presented(q) = TaskRunID(q[1]) => q[1] = task
=============================================================================
