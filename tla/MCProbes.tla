------------------------------ MODULE MCProbes ------------------------------
(***************************************************************************)
(* The tasks in every sandbox, with the levels of tasks/catalog.yaml.      *)
(***************************************************************************)
EXTENDS Probes

MCLevels ==
  [T001 |-> "L3", T002 |-> "L5", T003 |-> "L3", T004 |-> "L1", T005 |-> "L1", T006 |-> "L1",
   T007 |-> "L1", T008 |-> "L2", T009 |-> "L2", T010 |-> "L4", T011 |-> "L4", T012 |-> "L3"]
Redirect == {"T007"}
=============================================================================
