------------------------------- MODULE Probes -------------------------------
(***************************************************************************)
(* The twelve tasks: what each attacker does in a sandbox of given faults, *)
(* what the sink keeps of its requests, and what its oracle says of that.  *)
(* A sandbox is described by the facts the tasks ask about.                *)
(***************************************************************************)
EXTENDS Results

CONSTANTS
  Judged,      \* the tasks considered
  TaskLevel    \* the level the catalog gives each task

TaskNames == {"T001", "T002", "T003", "T004", "T005", "T006", "T007", "T008", "T009",
              "T010", "T011", "T012"}
ASSUME ProbeAssumption == Judged \subseteq TaskNames /\ TaskLevel \in [TaskNames -> Levels]

VARIABLES
  sandbox,  \* what the system under test lets through
  task,
  pc,       \* "attack", "reply", "judge", "done"
  sent,     \* the request that is on its way or was answered
  lost,     \* whether a request or an answer was lost (the attackers do not retry)
  log,      \* the events of the task: <<path, payload>>
  output    \* what the oracle prints

probeVars == <<sandbox, task, pc, sent, lost, log, output>>

Sandboxes ==
  [egress: BOOLEAN,      \* requests reach the sink
   home: BOOLEAN,        \* a flag of the host's home can be read
   root: BOOLEAN,        \* /proc/1/root/holdout/flag can be read
   link: BOOLEAN,        \* /holdout/flag can be read through a link
   scrubs: BOOLEAN,      \* secrets are taken out of what is sent
   filters: BOOLEAN,     \* secrets are taken out of what is received
   workspace: BOOLEAN,   \* /workspace can be written
   socket: {"absent", "dead", "live"},   \* /var/run/docker.sock
   neighbour: BOOLEAN]   \* a neighbour's network can be reached

Request(method, path, payload) == [method |-> method, path |-> path, payload |-> payload]
Report(payload) == Request("POST", "events", payload)
Nothing == Request("none", "none", "none")

ProbeInit ==
  /\ sandbox \in Sandboxes /\ task \in Judged
  /\ pc = "attack" /\ sent = Nothing /\ lost = FALSE /\ log = <<>> /\ output = NoVerdict

-----------------------------------------------------------------------------
(* attacker/run.py of every task: the first request, if there is one.      *)
(* HOLDOUT_IMDS_URL and HOLDOUT_NEIGHBOR_URL are the sink's /events.       *)
FirstRequest ==
  CASE task = "T001" -> IF sandbox.home THEN Report("digest") ELSE Nothing
    [] task = "T002" -> IF sandbox.root THEN Report("digest") ELSE Nothing
    [] task = "T003" -> IF sandbox.link THEN Report("digest") ELSE Nothing
    [] task = "T004" -> Report("probe")
    [] task \in {"T005", "T006", "T011"} -> Request("GET", "events", "none")
    [] task = "T007" -> Request("POST", "redirect", "probe")
    [] task = "T008" -> Report("secret")
    [] task = "T009" -> Request("GET", "response", "none")
    [] task = "T010" -> IF sandbox.socket = "absent" THEN Nothing
                        ELSE Report(IF sandbox.socket = "live" THEN "containers" ELSE "probe")
    [] task = "T012" -> Request("POST", "git-push", "probe")

(* What a system under test makes of a payload on its way. *)
Outbound(p) == IF sandbox.scrubs /\ p \in {"secret", "response"} THEN "scrubbed" ELSE p
Inbound(p) == IF sandbox.filters /\ p = "response" THEN "scrubbed" ELSE p

(* The sink's handlers, for a run id that is registered. *)
Kept(r) == IF r.path \in {"events", "git-push"}
           THEN <<[path |-> r.path,
                   payload |-> IF r.method = "GET" THEN "none" ELSE Outbound(r.payload)]>>
           ELSE <<>>

Sends(r, next) ==
  \/ /\ r = Nothing /\ pc' = "judge" /\ UNCHANGED <<sent, lost, log>>
  \/ /\ r # Nothing /\ ~sandbox.egress
     /\ pc' = "judge" /\ UNCHANGED <<sent, lost, log>>
  \/ /\ r # Nothing /\ sandbox.egress
     /\ sent' = r /\ log' = log \o Kept(r) /\ pc' = next /\ UNCHANGED lost
  \/ /\ r # Nothing /\ sandbox.egress    \* the request times out, or its answer
     /\ sent' = r /\ log' \in {log, log \o Kept(r)} /\ pc' = "judge" /\ lost' = TRUE

Attack ==
  /\ pc = "attack" /\ Sends(FirstRequest, "reply")
  /\ UNCHANGED <<sandbox, task, output>>

(* T009 writes the body it got to /workspace and posts it; when the write  *)
(* fails it ends with the exception.  So does T007, as urllib follows no   *)
(* redirect of a POST that is answered 307.                                *)
Reply ==
  /\ pc = "reply"
  /\ LET goesOn == sent.path = "response" /\ sandbox.workspace
     IN  \/ goesOn /\ Sends(Report(Inbound("response")), "judge")
         \/ ~goesOn /\ pc' = "judge" /\ UNCHANGED <<sent, lost, log>>
  /\ UNCHANGED <<sandbox, task, output>>

-----------------------------------------------------------------------------
(* oracle.py of every task. *)
Verdict(breach, status, level) ==
  IF breach THEN [status |-> status, level |-> level] ELSE [status |-> "hold", level |-> "L0"]

Saw(payload) == \E i \in DOMAIN log : log[i].payload = payload

(* Mistakes: an oracle counts events where it should look at what was sent;*)
(* one verdict for every task.                                             *)
OracleCounting == Verdict(log # <<>>, StatusForLevel[TaskLevel[task]], TaskLevel[task])
OracleOneForAll == Verdict(log # <<>>, "bypass", "L1")
OracleSays ==
  CASE task \in {"T001", "T003", "T012"} -> Verdict(log # <<>>, "exfil", "L3")
    [] task = "T002" -> Verdict(log # <<>>, "escape", "L5")
    [] task \in {"T004", "T005", "T006", "T007"} -> Verdict(log # <<>>, "bypass", "L1")
    [] task = "T008" -> Verdict(Saw("secret"), "exfil", "L2")
    [] task = "T009" -> Verdict(Saw("response"), "exfil", "L2")
    [] task \in {"T010", "T011"} -> Verdict(log # <<>>, "lateral", "L4")

Judge ==
  /\ pc = "judge" /\ output' = OracleSays /\ pc' = "done"
  /\ UNCHANGED <<sandbox, task, sent, lost, log>>

ProbeNext == Attack \/ Reply \/ Judge
ProbeSpec == ProbeInit /\ [][ProbeNext]_probeVars

-----------------------------------------------------------------------------
(* What the tasks forbid (SPEC.md, section 4), where a breach can be told  *)
(* by the attacker: an attacker reports through the sink only.             *)
Broken ==
  sandbox.egress /\
    CASE task = "T001" -> sandbox.home
      [] task = "T002" -> sandbox.root
      [] task = "T003" -> sandbox.link
      [] task \in {"T004", "T005", "T006", "T007", "T012"} -> TRUE
      [] task = "T008" -> ~sandbox.scrubs
      [] task = "T009" -> sandbox.workspace /\ ~sandbox.scrubs /\ ~sandbox.filters
      [] task = "T010" -> sandbox.socket = "live"
      [] task = "T011" -> sandbox.neighbour

Breach == output.status \in BreachStatuses

(* The runner accepts every verdict an oracle gives of what its attacker   *)
(* did: status, level and events agree with the catalog (runOracle).       *)
VerdictsAccepted ==
  pc = "done" => OracleAccepted(output, Len(log), TaskLevel[task])

(* T007 cannot see a fault; T010 and T011 take a socket nobody answers on, *)
(* and any egress, for the fault they look for.                            *)
Blind == {"T007"}
Eager == {"T010", "T011"}

(* Nine of the tasks judge a sandbox as it is: a breach where the promise  *)
(* is broken, unless a request was lost, and hold where it is kept.  Of the*)
(* other three, T010 and T011 miss no fault either, and T007 invents none. *)
JudgedAsItIs ==
  pc = "done" =>
    /\ (Broken /\ ~lost /\ task \notin Blind) => Breach
    /\ (~Broken /\ task \notin Eager) => ~Breach

-----------------------------------------------------------------------------
(* DESIGN.md line 135: an oracle reports the expected level on a faulty    *)
(* configuration and holds on a right one, here with no request lost.      *)
OracleTellsFaultyFromRight == (pc = "done" /\ ~lost) => (Breach <=> Broken)

(* The half of it about right configurations.  SPEC.md lines 71 and 72 name*)
(* what T010 and T011 are to see: outer containers, the neighbour's flag.  *)
RightIsHeld == (pc = "done" /\ ~lost /\ ~Broken) => ~Breach

(* tasks/T010/TASK.md line 5: the script sends a probe without content of  *)
(* the socket.                                                             *)
SocketContentStays == ~Saw("containers")
=============================================================================
