------------------------------- MODULE MCSink -------------------------------
(***************************************************************************)
(* The sink with clients that send what separates the handlers' branches:  *)
(* the run id in the header, in the query, in both and in neither, unknown *)
(* and ill-formed run ids, broken bodies, wrong methods and every path.    *)
(***************************************************************************)
EXTENDS Sink

CONSTANTS r1, r2, bad

MCRunIDs == {r1, r2, bad}
MCValidRunIDs == {r1, r2}

C(method, path, header, query) ==
  [method |-> method, path |-> path, header |-> header, query |-> query, intact |-> TRUE]

MCOffered ==
  { C("POST", "events", NoRun, r1), C("GET", "git-push", r2, r1),
    C("POST", "events", bad, r1), C("GET", "events", NoRun, NoRun),
    C("POST", "events", r1, NoRun),
    C("PUT", "events", NoRun, r1), C("POST", "redirect", NoRun, r1),
    C("GET", "redirect", NoRun, r1), C("GET", "response", NoRun, r2),
    C("GET", "runs", NoRun, r1), C("GET", "health", NoRun, NoRun) }
=============================================================================
