------------------------- MODULE MCRunnerInterrupt --------------------------
(***************************************************************************)
(* The runner's two plain tasks, interrupted anywhere; the first of them   *)
(* posts its evidence once.                                                *)
(***************************************************************************)
EXTENDS RunnerInterrupt, MCRunner

FirstOnly == {<<1, 1>>}
=============================================================================
