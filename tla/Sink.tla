-------------------------------- MODULE Sink --------------------------------
(***************************************************************************)
(* The HTTP sink (internal/sink/sink.go): the evidence log of a run.       *)
(*                                                                         *)
(* The coordinator registers run ids and reads the log; every request is   *)
(* served by a goroutine of its own.  A handler's reading of allowedRuns,  *)
(* its append to events and its answer are separate steps, as the lock is  *)
(* released between them.                                                  *)
(*                                                                         *)
(* A handler that reads a body waits for it as long as the client keeps it *)
(* waiting: the server sets no timeout.  Bodies are abstracted: a body     *)
(* ends, or it does not (too long, or the connection was cut), and those of*)
(* different requests differ, so that the digest an event keeps is         *)
(* represented by the request it came with.                                *)
(***************************************************************************)
EXTENDS Naturals, Sequences, FiniteSets

CONSTANTS
  Requests,     \* the HTTP requests that may be made
  RunIDs,       \* strings a request may present as a run id
  ValidRunIDs,  \* those made of the safe characters only (validRunID)
  NoRun,        \* the empty string
  Offered       \* the contents of requests that clients send

ASSUME RunIDAssumption == ValidRunIDs \subseteq RunIDs /\ NoRun \notin RunIDs

VARIABLES
  sinkState,    \* "down", "serving", "closed"
  allowedRuns,  \* run ids registered so far
  events,       \* the log
  request       \* the requests and the state of their handlers

sinkVars == <<sinkState, allowedRuns, events, request>>

EvidencePaths == {"events", "git-push"}
Paths == EvidencePaths \cup {"redirect", "response", "runs", "health"}

(* query is the run id in the query, for /runs/ the one in the path.       *)
Contents ==
  [method: {"GET", "POST", "PUT"}, path: Paths, header: RunIDs \cup {NoRun},
   query: RunIDs \cup {NoRun}, intact: BOOLEAN]
NoContent == [method |-> "none"]

ASSUME OfferedAssumption == Offered \subseteq Contents

Event == [run: RunIDs, path: EvidencePaths, payload: Requests]

HandlerStates == {"unsent", "reading", "received", "allowed", "stored", "answered"}
NoRequest == [state |-> "unsent", content |-> NoContent, status |-> 0, view |-> {}]

SinkTypeOK ==
  /\ sinkState \in {"down", "serving", "closed"}
  /\ allowedRuns \subseteq RunIDs
  /\ events \in Seq(Event)
  /\ request \in [Requests -> [state: HandlerStates, content: Contents \cup {NoContent},
                               status: Nat, view: SUBSET Nat]]

SinkInit ==
  /\ sinkState = "down" /\ allowedRuns = {} /\ events = <<>>
  /\ request = [q \in Requests |-> NoRequest]

-----------------------------------------------------------------------------
(* The coordinator's calls. *)

StartSink ==
  /\ sinkState = "down" /\ sinkState' = "serving"
  /\ UNCHANGED <<allowedRuns, events, request>>

(* Close ends the listener and cuts the connections; handlers that are     *)
(* running go on.                                                          *)
CloseSink ==
  /\ sinkState = "serving" /\ sinkState' = "closed"
  /\ UNCHANGED <<allowedRuns, events, request>>

RegisterRun(run) ==
  /\ run \in ValidRunIDs
  /\ allowedRuns' = allowedRuns \cup {run}
  /\ UNCHANGED <<sinkState, events, request>>

(* The events of a run, as their positions in the log. *)
EventsOf(run) == {i \in DOMAIN events : events[i].run = run}

-----------------------------------------------------------------------------
(* The handlers. *)

Answers(q, status, view) ==
  request' = [request EXCEPT ![q].state = "answered", ![q].status = status,
                             ![q].view = view]
Reaches(q, state) == request' = [request EXCEPT ![q].state = state]

PresentedRun(c) ==
  IF c.path \in EvidencePaths /\ c.header # NoRun THEN c.header ELSE c.query

MethodAllowed(c) ==
  CASE c.path \in EvidencePaths -> c.method \in {"GET", "POST"}
    [] c.path = "redirect"      -> c.method = "POST"
    [] c.path = "response"      -> c.method = "GET"
    [] OTHER                    -> TRUE

(* A handler of evidence reads the body of a POST before anything else. *)
HasBody(c) == c.path \in EvidencePaths /\ c.method = "POST"

(* Mistake: the error of reading the body is dropped. *)
BodyNotChecked(c) == TRUE

BodyRead(c) == HasBody(c) => c.intact

(* Mistake: a well-formed run id is enough. *)
RunWellFormed(run) == run \in ValidRunIDs

RunAllowed(run) == run \in ValidRunIDs /\ run \in allowedRuns

SendRequest(q, c) ==
  /\ sinkState = "serving" /\ request[q].state = "unsent"
  /\ request' = [request EXCEPT ![q].state = IF HasBody(c) THEN "reading" ELSE "received",
                                ![q].content = c]
  /\ UNCHANGED <<sinkState, allowedRuns, events>>

(* The rest of the body comes, *)
BodyEnds(q) ==
  /\ request[q].state = "reading" /\ Reaches(q, "received")
  /\ UNCHANGED <<sinkState, allowedRuns, events>>

(* or it exceeds the limit, its client goes away, or Close cuts it off.    *)
BodyCut(q) ==
  /\ request[q].state = "reading"
  /\ request' = [request EXCEPT ![q].state = "received", ![q].content.intact = FALSE]
  /\ UNCHANGED <<sinkState, allowedRuns, events>>

(* Everything a handler does up to its second access to shared state.      *)
CheckRequest(q) ==
  LET c == request[q].content
  IN  /\ request[q].state = "received"
      /\ \/ c.path = "health" /\ Answers(q, 204, {})
         \/ ~MethodAllowed(c) /\ Answers(q, 405, {})
         \/ /\ c.path # "health" /\ MethodAllowed(c)
            /\ \/ ~(BodyRead(c) /\ RunAllowed(PresentedRun(c))) /\ Answers(q, 400, {})
               \/ /\ BodyRead(c) /\ RunAllowed(PresentedRun(c))
                  /\ \/ c.path = "redirect" /\ Answers(q, 307, {})
                     \/ c.path = "response" /\ Answers(q, 200, {})
                     \/ c.path \in EvidencePaths \cup {"runs"} /\ Reaches(q, "allowed")
      /\ UNCHANGED <<sinkState, allowedRuns, events>>

(* Mistake: the event is filed under the query's run id although the header*)
(* has one.                                                                *)
StoreUnderQuery(q) ==
  LET c == request[q].content
  IN  /\ request[q].state = "allowed" /\ c.path \in EvidencePaths
      /\ events' = Append(events, [run |-> c.query, path |-> c.path, payload |-> q])
      /\ Reaches(q, "stored")
      /\ UNCHANGED <<sinkState, allowedRuns>>

StoreEvent(q) ==
  LET c == request[q].content
  IN  /\ request[q].state = "allowed" /\ c.path \in EvidencePaths
      /\ events' = Append(events, [run |-> PresentedRun(c), path |-> c.path, payload |-> q])
      /\ Reaches(q, "stored")
      /\ UNCHANGED <<sinkState, allowedRuns>>

AcceptEvent(q) ==
  /\ request[q].state = "stored"
  /\ Answers(q, 202, {})
  /\ UNCHANGED <<sinkState, allowedRuns, events>>

ShowRun(q) ==
  /\ request[q].state = "allowed" /\ request[q].content.path = "runs"
  /\ Answers(q, 200, EventsOf(PresentedRun(request[q].content)))
  /\ UNCHANGED <<sinkState, allowedRuns, events>>

(* Mistake: Close abandons the handlers that are running. *)
HandlerStepWhileServing(q) ==
  /\ sinkState = "serving"
  /\ CheckRequest(q) \/ StoreEvent(q) \/ AcceptEvent(q) \/ ShowRun(q)

HandlerStep(q) == CheckRequest(q) \/ StoreEvent(q) \/ AcceptEvent(q) \/ ShowRun(q)

-----------------------------------------------------------------------------
(* The sink by itself, with any coordinator and any clients. *)

SinkNext ==
  \/ StartSink \/ CloseSink
  \/ sinkState = "serving" /\ \E run \in RunIDs : RegisterRun(run)
  \/ \E q \in Requests, c \in Offered : SendRequest(q, c)
  \/ \E q \in Requests : BodyEnds(q) \/ BodyCut(q) \/ HandlerStep(q)

SinkSpec == SinkInit /\ [][SinkNext]_sinkVars
(* Every handler runs in a goroutine of its own, and Close cuts the bodies *)
(* that handlers wait for.  No client need ever finish what it has begun.  *)
SinkFairSpec ==
  /\ SinkSpec
  /\ \A q \in Requests : /\ WF_sinkVars(HandlerStep(q))
                         /\ WF_sinkVars(sinkState = "closed" /\ BodyCut(q))

-----------------------------------------------------------------------------
Acknowledged(q) == request[q].state = "answered" /\ request[q].status = 202

(* Evidence exists only for runs the coordinator has registered, although  *)
(* the check and the append are apart (a run is never deregistered).       *)
EventsOfRegisteredRuns ==
  \A i \in DOMAIN events : events[i].run \in allowedRuns \cap ValidRunIDs

(* A request leaves exactly one event once it is stored or acknowledged,   *)
(* under the run id it presented, and none in any other case: what was     *)
(* refused never counts and what was acknowledged is never lost or doubled.*)
EvidenceExactlyOnce ==
  \A q \in Requests :
    LET mine == {i \in DOMAIN events : events[i].payload = q}
    IN  IF request[q].state = "stored" \/ Acknowledged(q)
        THEN \E i \in mine : /\ mine = {i}
                             /\ events[i].run = PresentedRun(request[q].content)
        ELSE mine = {}

(* The sink implements the evidence log: a request is asked once it is     *)
(* there with its body, recorded when its event is appended, and shown or  *)
(* declined when it is answered.                                           *)
Fate(r) ==
  CASE r.state \in {"unsent", "reading"}                  -> "unsent"
    [] r.state \in {"received", "allowed"}                -> "open"
    [] r.state = "stored" \/ (r.state = "answered" /\ r.status = 202) -> "recorded"
    [] r.state = "answered" /\ r.status = 200 /\ r.content.path = "runs" -> "shown"
    [] OTHER                                              -> "declined"
Asks(r) == IF r.state = "reading" THEN NoContent ELSE r.content

Log == INSTANCE EvidenceLog
         WITH registered <- allowedRuns, log <- events,
              asked <- [q \in Requests |-> Asks(request[q])],
              fate <- [q \in Requests |-> Fate(request[q])],
              seen <- [q \in Requests |-> request[q].view]

ImplementsEvidenceLog == Log!LogSpec

(* A request that is there with its body, or whose body has broken off, is *)
(* answered in the end, also when the sink closes; and when it closes, so  *)
(* is one whose client never ends its body.                                *)
RequestsAnswered ==
  \A q \in Requests :
    /\ (request[q].state = "received") ~> (request[q].state = "answered")
    /\ (request[q].state = "reading" /\ sinkState = "closed")
         ~> (request[q].state = "answered")
=============================================================================
