---------------------------- MODULE EvidenceLog ----------------------------
(***************************************************************************)
(* What the sink promises to the coordinator and to the tasks: an evidence *)
(* log in which a request is recorded in one indivisible step, or declined.*)
(* A request is declined only if at some moment between its sending and    *)
(* its answer the log could not take it; a reader of a run sees exactly    *)
(* that run's evidence of one such moment.                                 *)
(***************************************************************************)
EXTENDS Naturals, Sequences

CONSTANTS Requests, RunIDs, NoRun

VARIABLES
  registered,  \* the runs evidence is taken for
  log,         \* the recorded evidence, oldest first
  asked,       \* what each request asks
  fate,        \* "unsent", "open", "recorded", "shown", "declined"
  seen         \* the positions of the log a reader was shown

logVars == <<registered, log, asked, fate, seen>>

(* The run id a request names: in its header if it is evidence, else in its*)
(* address.                                                                *)
Named(c) ==
  IF c.path \in {"events", "git-push"} /\ c.header # NoRun THEN c.header ELSE c.query

Recordable(c) ==
  /\ c.path \in {"events", "git-push"}
  /\ c.method = "GET" \/ (c.method = "POST" /\ c.intact)
  /\ Named(c) \in registered

LogInit ==
  /\ registered = {} /\ log = <<>>
  /\ asked = [q \in Requests |-> [method |-> "none"]]
  /\ fate = [q \in Requests |-> "unsent"]
  /\ seen = [q \in Requests |-> {}]

Register(run) ==
  /\ registered' = registered \cup {run}
  /\ UNCHANGED <<log, asked, fate, seen>>

Ask(q) ==
  /\ fate[q] = "unsent"
  /\ fate' = [fate EXCEPT ![q] = "open"]
  /\ \E method \in {"GET", "POST", "PUT"}, intact \in BOOLEAN,
        path \in {"events", "git-push", "redirect", "response", "runs", "health"},
        header \in RunIDs \cup {NoRun}, query \in RunIDs \cup {NoRun} :
       asked' = [asked EXCEPT ![q] = [method |-> method, path |-> path, header |-> header,
                                      query |-> query, intact |-> intact]]
  /\ UNCHANGED <<registered, log, seen>>

Record(q) ==
  /\ fate[q] = "open" /\ Recordable(asked[q])
  /\ fate' = [fate EXCEPT ![q] = "recorded"]
  /\ log' = Append(log, [run |-> Named(asked[q]), path |-> asked[q].path, payload |-> q])
  /\ UNCHANGED <<registered, asked, seen>>

Show(q) ==
  /\ fate[q] = "open" /\ asked[q].path = "runs" /\ asked[q].query \in registered
  /\ fate' = [fate EXCEPT ![q] = "shown"]
  /\ seen' = [seen EXCEPT ![q] = {i \in DOMAIN log : log[i].run = asked[q].query}]
  /\ UNCHANGED <<registered, log, asked>>

Decline(q) ==
  /\ fate[q] = "open" /\ ~Recordable(asked[q])
  /\ ~(asked[q].path = "runs" /\ asked[q].query \in registered)
  /\ fate' = [fate EXCEPT ![q] = "declined"]
  /\ UNCHANGED <<registered, log, asked, seen>>

Decide(q) == Record(q) \/ Show(q) \/ Decline(q)

LogNext ==
  \/ \E run \in RunIDs : Register(run)
  \/ \E q \in Requests : Ask(q) \/ Decide(q)

LogSpec == LogInit /\ [][LogNext]_logVars
=============================================================================
