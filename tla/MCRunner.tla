------------------------------ MODULE MCRunner ------------------------------
(***************************************************************************)
(* Small instances of the runner: catalogs of two tasks, and attackers that*)
(* make one piece of evidence each, under the run id of either task.       *)
(***************************************************************************)
EXTENDS Runner

ID(stem, upper, dashed) == [stem |-> stem, upper |-> upper, dashed |-> dashed]
T(id, level, dangerous) == [id |-> id, level |-> level, dangerous |-> dangerous]

(* T1 and T2 of the shape the repository's catalog has. *)
PlainCatalog ==
  <<T(ID("1", TRUE, FALSE), "L1", FALSE), T(ID("2", TRUE, FALSE), "L4", TRUE)>>

(* A catalog that catalog.Validate accepts: T1 and t1. *)
CaseCatalog ==
  <<T(ID("1", TRUE, FALSE), "L1", FALSE), T(ID("1", FALSE, FALSE), "L1", FALSE)>>

MCRunIDs == {TaskRunID(i) : i \in Tasks}
MCNames == {ContainerName(i) : i \in Tasks}

Get(i) == [method |-> "GET", path |-> "events", header |-> NoRun,
           query |-> TaskRunID(i), intact |-> TRUE]
Post(i) == [Get(i) EXCEPT !.method = "POST"]
(* A request without a body under the id of T1, and one with a body under  *)
(* that of T2; either attacker may send either.                            *)
Beacons == {Get(1), Post(2)}
Posts == {Post(i) : i \in Tasks}

OneEach == {<<i, 1>> : i \in Tasks}

RealRun == [suite |-> "smoke-v0", sut |-> "docker", dryRun |-> FALSE, allow |-> TRUE]
MCOptions ==
  {RealRun, [RealRun EXCEPT !.allow = FALSE], [RealRun EXCEPT !.dryRun = TRUE],
   [RealRun EXCEPT !.sut = "opensandbox"]}
OneOption == {RealRun}
(* holdout run --sut "" *)
EmptySUT == {[RealRun EXCEPT !.sut = ""]}

(* No volume of a sandbox's name is there before the run; AdapterUse       *)
(* considers those.                                                        *)
NoForeignVolumes == \A n \in Names : volume[n] # "foreign"
MCInit == RunnerInit /\ NoForeignVolumes
MCSpec == MCInit /\ [][RunnerNext]_vars
MCFairSpec == MCSpec /\ RunnerFairness
=============================================================================
