----------------------------- MODULE SinkProofs -----------------------------
(***************************************************************************)
(* Theorems about the sink, for every set of requests and of run ids and   *)
(* for every choice of what clients send.                                  *)
(*                                                                         *)
(* A handler's check and its append are apart, so none of the invariants of*)
(* Sink is inductive: that an event belongs to a registered run is decided *)
(* when the request is checked.  HandlersSound carries that decision from  *)
(* the check to the append; it is stable because runs are never            *)
(* deregistered.                                                           *)
(***************************************************************************)
EXTENDS Sink, BindAddress, SequenceTheorems, TLAPS

(* What a request has that passes a handler's check, but for its run id. *)
Passes(c) == c.path \in EvidencePaths \cup {"runs"} /\ MethodAllowed(c) /\ BodyRead(c)

HandlersSound ==
  \A q \in Requests :
    /\ request[q].state = "unsent" => request[q] = NoRequest
    /\ request[q].state # "unsent" => request[q].content \in Contents
    /\ request[q].state # "answered" => request[q].view = {}
    /\ request[q].state = "allowed" => Passes(request[q].content)
    /\ request[q].state = "stored" => request[q].content.path \in EvidencePaths
    /\ request[q].state \in {"allowed", "stored"} =>
         RunAllowed(PresentedRun(request[q].content))

(* EvidenceExactlyOnce, request by request. *)
Records(q) == {i \in DOMAIN events : events[i].payload = q}
RecordedOnce(q) ==
  IF request[q].state = "stored" \/ Acknowledged(q)
  THEN \E i \in Records(q) : /\ Records(q) = {i}
                             /\ events[i].run = PresentedRun(request[q].content)
  ELSE Records(q) = {}

SinkInv ==
  /\ SinkTypeOK
  /\ allowedRuns \subseteq ValidRunIDs
  /\ HandlersSound
  /\ EventsOfRegisteredRuns
  /\ EvidenceExactlyOnce

-----------------------------------------------------------------------------
(* What appending an event does to the log. *)
LEMMA EventAppended ==
  ASSUME NEW log \in Seq(Event), NEW e \in Event
  PROVE  /\ Append(log, e) \in Seq(Event)
         /\ Len(log) \in Nat
         /\ DOMAIN log = 1..Len(log)
         /\ DOMAIN Append(log, e) = 1..(Len(log) + 1)
         /\ DOMAIN Append(log, e) = DOMAIN log \cup {Len(log) + 1}
         /\ Len(log) + 1 \notin DOMAIN log
         /\ \A i \in DOMAIN log : Append(log, e)[i] = log[i]
         /\ Append(log, e)[Len(log) + 1] = e
<1>1. /\ Len(log) \in Nat
      /\ DOMAIN log = 1..Len(log)
  BY LenProperties
<1>2. /\ Append(log, e) \in Seq(Event)
      /\ Len(Append(log, e)) = Len(log) + 1
      /\ \A i \in 1..Len(log) : Append(log, e)[i] = log[i]
      /\ Append(log, e)[Len(log) + 1] = e
  BY AppendProperties
<1>3. DOMAIN Append(log, e) = 1..(Len(log) + 1)
  BY <1>2, LenProperties
<1>4. /\ 1..(Len(log) + 1) = 1..Len(log) \cup {Len(log) + 1}
      /\ Len(log) + 1 \notin 1..Len(log)
  BY <1>1
<1> QED
  BY <1>1, <1>2, <1>3, <1>4

(* The invariant holds at first. *)
LEMMA SinkInvInit == SinkInit => SinkInv
<1> SUFFICES ASSUME SinkInit PROVE SinkInv
  OBVIOUS
<1> USE DEF SinkInit
<1>1. SinkTypeOK
  <2>1. NoRequest \in [state: HandlerStates, content: Contents \cup {NoContent},
                       status: Nat, view: SUBSET Nat]
    BY DEF NoRequest, HandlerStates
  <2> QED
    BY <2>1 DEF SinkTypeOK
<1>2. HandlersSound
  BY DEF HandlersSound, NoRequest
<1>3. EventsOfRegisteredRuns /\ EvidenceExactlyOnce
  BY DEF EventsOfRegisteredRuns, EvidenceExactlyOnce, Acknowledged, NoRequest
<1> QED
  BY <1>1, <1>2, <1>3 DEF SinkInv

-----------------------------------------------------------------------------
(* A handler step that leaves the log alone and moves its request past the *)
(* check, or ends it without an acknowledgement.                           *)
LEMMA LogUntouched ==
  ASSUME SinkInv, NEW q \in Requests, NEW r,
         r \in [state: HandlerStates, content: Contents \cup {NoContent},
                status: Nat, view: SUBSET Nat],
         request' = [request EXCEPT ![q] = r],
         UNCHANGED <<allowedRuns, events>>, sinkState' \in {"down", "serving", "closed"},
         r.state # "unsent", r.content \in Contents,
         r.state # "answered" => r.view = {},
         r.state = "allowed" => Passes(r.content),
         r.state = "stored" => r.content.path \in EvidencePaths,
         r.state \in {"allowed", "stored"} => RunAllowed(PresentedRun(r.content)),
         \/ /\ request[q].state = "stored"
            /\ r.state = "answered" /\ r.status = 202 /\ r.content = request[q].content
         \/ /\ request[q].state \in {"unsent", "reading", "received", "allowed"}
            /\ r.state # "stored" /\ ~(r.state = "answered" /\ r.status = 202)
  PROVE  SinkInv'
<1> USE DEF SinkInv
<1>1. SinkTypeOK' /\ (allowedRuns \subseteq ValidRunIDs)'
  BY DEF SinkTypeOK
<1>2. HandlersSound'
  <2> SUFFICES ASSUME NEW p \in Requests
               PROVE  /\ request'[p].state = "unsent" => request'[p] = NoRequest
                      /\ request'[p].state # "unsent" => request'[p].content \in Contents
                      /\ request'[p].state # "answered" => request'[p].view = {}
                      /\ request'[p].state = "allowed" => Passes(request'[p].content)
                      /\ request'[p].state = "stored"
                           => request'[p].content.path \in EvidencePaths
                      /\ request'[p].state \in {"allowed", "stored"}
                           => RunAllowed(PresentedRun(request'[p].content))
    BY DEF HandlersSound, RunAllowed, PresentedRun, Passes, MethodAllowed, BodyRead, HasBody
  <2>1. CASE p = q
    BY <2>1 DEF SinkTypeOK
  <2>2. CASE p # q
    BY <2>2 DEF SinkTypeOK, HandlersSound
  <2> QED
    BY <2>1, <2>2
<1>3. EventsOfRegisteredRuns'
  BY DEF EventsOfRegisteredRuns
<1>4. EvidenceExactlyOnce'
  <2> SUFFICES ASSUME NEW p \in Requests PROVE RecordedOnce(p)'
    BY DEF EvidenceExactlyOnce, RecordedOnce, Records
  <2>1. RecordedOnce(p)
    BY DEF EvidenceExactlyOnce, RecordedOnce, Records
  <2>2. Records(p)' = Records(p)
    BY DEF Records
  <2>3. CASE p = q
    <3>1. request'[p] = r
      BY <2>3 DEF SinkTypeOK
    <3>2. (request[p].state = "stored" \/ Acknowledged(p))
            <=> (request'[p].state = "stored" \/ Acknowledged(p)')
      BY <2>3, <3>1 DEF Acknowledged
    <3>3. (request[p].state = "stored" \/ Acknowledged(p))
            => r.content = request[p].content
      BY <2>3 DEF Acknowledged
    <3> QED
      BY <2>1, <2>2, <3>1, <3>2, <3>3 DEF RecordedOnce, PresentedRun
  <2>4. CASE p # q
    <3>1. request'[p] = request[p]
      BY <2>4 DEF SinkTypeOK
    <3> QED
      BY <2>1, <2>2, <3>1 DEF RecordedOnce, PresentedRun, Acknowledged
  <2> QED
    BY <2>3, <2>4
<1> QED
  BY <1>1, <1>2, <1>3, <1>4

(* The append: the event goes to the run the check has found registered.   *)
LEMMA StoreKeepsInv ==
  ASSUME SinkInv, NEW q \in Requests, StoreEvent(q)
  PROVE  SinkInv'
<1> DEFINE c == request[q].content
           e == [run |-> PresentedRun(c), path |-> c.path, payload |-> q]
           n == Len(events) + 1
<1> USE DEF SinkInv
<1>1. /\ request[q].state = "allowed" /\ c \in Contents /\ c.path \in EvidencePaths
      /\ RunAllowed(PresentedRun(c)) /\ request[q].view = {}
  BY DEF StoreEvent, HandlersSound
<1>2. e \in Event
  BY <1>1, RunIDAssumption DEF Event, RunAllowed
<1>3. /\ events \in Seq(Event) /\ events' = Append(events, e)
      /\ request' = [request EXCEPT ![q].state = "stored"]
      /\ UNCHANGED <<sinkState, allowedRuns>>
  BY DEF StoreEvent, Reaches, SinkTypeOK
<1>4. /\ events' \in Seq(Event)
      /\ DOMAIN events' = DOMAIN events \cup {n} /\ n \notin DOMAIN events
      /\ \A i \in DOMAIN events : events'[i] = events[i]
      /\ events'[n] = e
  <2> HIDE DEF e
  <2> QED
    BY <1>2, <1>3, EventAppended
<1>5. SinkTypeOK' /\ (allowedRuns \subseteq ValidRunIDs)'
  BY <1>3, <1>4 DEF SinkTypeOK, HandlerStates
<1>6. /\ request'[q].state = "stored" /\ request'[q].content = c /\ request'[q].view = {}
      /\ \A p \in Requests \ {q} : request'[p] = request[p]
  BY <1>1, <1>3 DEF SinkTypeOK
<1>7. HandlersSound'
  BY <1>1, <1>3, <1>6 DEF HandlersSound, RunAllowed, PresentedRun, Passes, MethodAllowed, BodyRead, HasBody
<1>8. EventsOfRegisteredRuns'
  BY <1>1, <1>3, <1>4 DEF EventsOfRegisteredRuns, RunAllowed
<1>9. EvidenceExactlyOnce'
  <2> SUFFICES ASSUME NEW p \in Requests PROVE RecordedOnce(p)'
    BY DEF EvidenceExactlyOnce, RecordedOnce, Records
  <2>1. RecordedOnce(p)
    BY DEF EvidenceExactlyOnce, RecordedOnce, Records
  <2>2. CASE p = q
    <3>1. Records(q) = {}
      BY <1>1, <2>1, <2>2 DEF RecordedOnce, Acknowledged
    <3>2. Records(q)' = {n}
      BY <1>4, <3>1 DEF Records
    <3>3. events'[n].run = PresentedRun(request'[q].content)
      BY <1>4, <1>6
    <3> QED
      BY <1>6, <2>2, <3>2, <3>3 DEF RecordedOnce, PresentedRun
  <2>3. CASE p # q
    <3>1. Records(p)' = Records(p)
      BY <1>4, <2>3 DEF Records
    <3>2. request'[p] = request[p]
      BY <1>6, <2>3
    <3>3. \A i \in Records(p) : events'[i] = events[i]
      BY <1>4 DEF Records
    <3> QED
      BY <2>1, <3>1, <3>2, <3>3 DEF RecordedOnce, PresentedRun, Acknowledged
  <2> QED
    BY <2>2, <2>3
<1> QED
  BY <1>5, <1>7, <1>8, <1>9

(* Registration, start and Close leave the handlers and the log alone.     *)
LEMMA CoordinatorKeepsInv ==
  ASSUME SinkInv, UNCHANGED <<events, request>>,
         allowedRuns \subseteq allowedRuns', allowedRuns' \subseteq ValidRunIDs,
         sinkState' \in {"down", "serving", "closed"}
  PROVE  SinkInv'
<1> USE DEF SinkInv
<1>1. SinkTypeOK'
  BY RunIDAssumption DEF SinkTypeOK
<1>2. HandlersSound'
  BY DEF HandlersSound, RunAllowed, PresentedRun, Passes, MethodAllowed, BodyRead, HasBody
<1>3. EventsOfRegisteredRuns'
  BY DEF EventsOfRegisteredRuns
<1>4. EvidenceExactlyOnce'
  BY DEF EvidenceExactlyOnce, Acknowledged, PresentedRun
<1> QED
  BY <1>1, <1>2, <1>3, <1>4

(* Answers other than 202 create no evidence. *)
LEMMA RefusalKeepsInv ==
  ASSUME SinkInv, NEW q \in Requests, request[q].state \in {"received", "allowed"},
         NEW status \in Nat, status # 202, NEW view \in SUBSET Nat,
         Answers(q, status, view), UNCHANGED <<sinkState, allowedRuns, events>>
  PROVE  SinkInv'
<1> DEFINE r == [request[q] EXCEPT !.state = "answered", !.status = status, !.view = view]
<1> USE DEF SinkInv
<1>1. request[q] \in [state: HandlerStates, content: Contents \cup {NoContent},
                      status: Nat, view: SUBSET Nat]
  BY DEF SinkTypeOK
<1>2. /\ r \in [state: HandlerStates, content: Contents \cup {NoContent},
                status: Nat, view: SUBSET Nat]
      /\ r.state = "answered" /\ r.status = status
  BY <1>1 DEF HandlerStates
<1>3. r.content \in Contents
  BY <1>1 DEF HandlersSound
<1>4. request' = [request EXCEPT ![q] = r]
  BY DEF Answers
<1>5. sinkState' \in {"down", "serving", "closed"}
  BY DEF SinkTypeOK
<1> HIDE DEF r, SinkInv
<1> QED
  BY <1>2, <1>3, <1>4, <1>5, LogUntouched

LEMMA SendKeepsInv ==
  ASSUME SinkInv, NEW q \in Requests, NEW c \in Offered, SendRequest(q, c)
  PROVE  SinkInv'
<1> DEFINE r == [request[q] EXCEPT !.state = IF HasBody(c) THEN "reading" ELSE "received",
                                   !.content = c]
<1> USE DEF SinkInv
<1>1. /\ request[q] \in [state: HandlerStates, content: Contents \cup {NoContent},
                         status: Nat, view: SUBSET Nat]
      /\ request[q].state = "unsent" /\ request[q].view = {}
  BY DEF SinkTypeOK, SendRequest, HandlersSound, NoRequest
<1>2. /\ r \in [state: HandlerStates, content: Contents \cup {NoContent},
                status: Nat, view: SUBSET Nat]
      /\ r.state \in {"reading", "received"} /\ r.content \in Contents /\ r.view = {}
  BY <1>1, OfferedAssumption DEF HandlerStates
<1>3. /\ request' = [request EXCEPT ![q] = r] /\ UNCHANGED <<allowedRuns, events>>
      /\ sinkState' \in {"down", "serving", "closed"}
  BY DEF SendRequest, SinkTypeOK
<1> HIDE DEF r, SinkInv
<1> QED
  BY <1>1, <1>2, <1>3, LogUntouched

(* However a body ends. *)
LEMMA BodyKeepsInv ==
  ASSUME SinkInv, NEW q \in Requests, BodyEnds(q) \/ BodyCut(q)
  PROVE  SinkInv'
<1> DEFINE c == request[q].content
           r == [request[q] EXCEPT !.state = "received"]
           broken == [request[q] EXCEPT !.state = "received", !.content.intact = FALSE]
<1> USE DEF SinkInv
<1>1. /\ request[q] \in [state: HandlerStates, content: Contents \cup {NoContent},
                         status: Nat, view: SUBSET Nat]
      /\ request[q].state = "reading" /\ request[q].view = {} /\ c \in Contents
  BY DEF SinkTypeOK, BodyEnds, BodyCut, HandlersSound, NoRequest
<1>2. [c EXCEPT !.intact = FALSE] \in Contents
  BY <1>1 DEF Contents
<1>3. \A x \in {r, broken} :
        /\ x \in [state: HandlerStates, content: Contents \cup {NoContent},
                  status: Nat, view: SUBSET Nat]
        /\ x.state = "received" /\ x.content \in Contents /\ x.view = {}
  BY <1>1, <1>2 DEF HandlerStates
<1>4. /\ \E x \in {r, broken} : request' = [request EXCEPT ![q] = x]
      /\ UNCHANGED <<allowedRuns, events>>
      /\ sinkState' \in {"down", "serving", "closed"}
  BY DEF BodyEnds, BodyCut, Reaches, SinkTypeOK
<1> HIDE DEF r, broken, c, SinkInv
<1>5. PICK x \in {r, broken} : request' = [request EXCEPT ![q] = x]
  BY <1>4
<1> QED
  BY <1>1, <1>3, <1>4, <1>5, LogUntouched

LEMMA CheckKeepsInv ==
  ASSUME SinkInv, NEW q \in Requests, CheckRequest(q)
  PROVE  SinkInv'
<1> DEFINE c == request[q].content
           r == [request[q] EXCEPT !.state = "allowed"]
<1> USE DEF SinkInv
<1>1. /\ request[q].state = "received" /\ UNCHANGED <<sinkState, allowedRuns, events>>
      /\ \/ \E status \in {204, 307, 400, 405, 200} : Answers(q, status, {})
         \/ Reaches(q, "allowed") /\ Passes(c) /\ RunAllowed(PresentedRun(c))
  BY DEF CheckRequest, Passes
<1>2. ASSUME NEW status \in {204, 307, 400, 405, 200}, Answers(q, status, {})
      PROVE  SinkInv'
  <2>1. status \in Nat /\ status # 202
    OBVIOUS
  <2> QED
    BY <1>1, <1>2, <2>1, RefusalKeepsInv
<1>3. ASSUME Reaches(q, "allowed"), Passes(c), RunAllowed(PresentedRun(c))
      PROVE  SinkInv'
  <2>1. /\ request[q] \in [state: HandlerStates, content: Contents \cup {NoContent},
                           status: Nat, view: SUBSET Nat]
        /\ c \in Contents /\ request[q].view = {}
    BY <1>1 DEF SinkTypeOK, HandlersSound
  <2>2. /\ r \in [state: HandlerStates, content: Contents \cup {NoContent},
                  status: Nat, view: SUBSET Nat]
        /\ r.state = "allowed" /\ r.content = c /\ r.view = {}
    BY <2>1 DEF HandlerStates
  <2>3. request' = [request EXCEPT ![q] = r] /\ sinkState' \in {"down", "serving", "closed"}
    BY <1>1, <1>3 DEF Reaches, SinkTypeOK
  <2> HIDE DEF r, SinkInv
  <2> QED
    BY <1>1, <1>3, <2>1, <2>2, <2>3, LogUntouched
<1> QED
  BY <1>1, <1>2, <1>3

LEMMA AcceptKeepsInv ==
  ASSUME SinkInv, NEW q \in Requests, AcceptEvent(q)
  PROVE  SinkInv'
<1> DEFINE r == [request[q] EXCEPT !.state = "answered", !.status = 202, !.view = {}]
<1> USE DEF SinkInv
<1>1. /\ request[q] \in [state: HandlerStates, content: Contents \cup {NoContent},
                         status: Nat, view: SUBSET Nat]
      /\ request[q].state = "stored" /\ request[q].content \in Contents
  BY DEF SinkTypeOK, HandlersSound, AcceptEvent
<1>2. /\ r \in [state: HandlerStates, content: Contents \cup {NoContent},
                status: Nat, view: SUBSET Nat]
      /\ r.state = "answered" /\ r.status = 202 /\ r.content = request[q].content
  BY <1>1 DEF HandlerStates
<1>3. /\ request' = [request EXCEPT ![q] = r] /\ UNCHANGED <<allowedRuns, events>>
      /\ sinkState' \in {"down", "serving", "closed"}
  BY DEF AcceptEvent, Answers, SinkTypeOK
<1> HIDE DEF r, SinkInv
<1>4. /\ r.state # "unsent" /\ r.state # "allowed" /\ r.state # "stored"
      /\ r.state \notin {"allowed", "stored"} /\ r.content \in Contents
  BY <1>1, <1>2
<1> QED
  BY <1>1, <1>2, <1>3, <1>4, LogUntouched

LEMMA ShowKeepsInv ==
  ASSUME SinkInv, NEW q \in Requests, ShowRun(q)
  PROVE  SinkInv'
<1> DEFINE view == EventsOf(PresentedRun(request[q].content))
<1>1. view \in SUBSET Nat
  <2>1. DOMAIN events = 1..Len(events) /\ Len(events) \in Nat
    BY LenProperties DEF SinkInv, SinkTypeOK
  <2> QED
    BY <2>1 DEF EventsOf
<1>2. /\ request[q].state = "allowed" /\ Answers(q, 200, view)
      /\ UNCHANGED <<sinkState, allowedRuns, events>>
  BY DEF ShowRun
<1> HIDE DEF view
<1> QED
  BY <1>1, <1>2, RefusalKeepsInv

(* Every step of the sink keeps the invariant, whoever the coordinator and *)
(* the clients are.                                                        *)
SinkMove ==
  \/ StartSink \/ CloseSink \/ UNCHANGED sinkVars
  \/ \E run \in RunIDs : RegisterRun(run)
  \/ \E q \in Requests, c \in Offered : SendRequest(q, c)
  \/ \E q \in Requests : BodyEnds(q) \/ BodyCut(q) \/ HandlerStep(q)

LEMMA SinkInvMove == SinkInv /\ SinkMove => SinkInv'
<1> SUFFICES ASSUME SinkInv, SinkMove PROVE SinkInv'
  OBVIOUS
<1>1. CASE StartSink
  BY <1>1, CoordinatorKeepsInv DEF StartSink, SinkInv
<1>2. CASE CloseSink
  BY <1>2, CoordinatorKeepsInv DEF CloseSink, SinkInv
<1>3. ASSUME NEW run \in RunIDs, RegisterRun(run) PROVE SinkInv'
  BY <1>3, CoordinatorKeepsInv DEF RegisterRun, SinkInv, SinkTypeOK
<1>4. ASSUME NEW q \in Requests, NEW c \in Offered, SendRequest(q, c) PROVE SinkInv'
  BY <1>4, SendKeepsInv
<1>5. ASSUME NEW q \in Requests, HandlerStep(q) PROVE SinkInv'
  BY <1>5, CheckKeepsInv, StoreKeepsInv, AcceptKeepsInv, ShowKeepsInv DEF HandlerStep
<1>6. ASSUME NEW q \in Requests, BodyEnds(q) \/ BodyCut(q) PROVE SinkInv'
  BY <1>6, BodyKeepsInv
<1>7. CASE UNCHANGED sinkVars
  BY <1>7, CoordinatorKeepsInv DEF sinkVars, SinkInv, SinkTypeOK
<1> QED
  BY <1>1, <1>2, <1>3, <1>4, <1>5, <1>6, <1>7 DEF SinkMove

LEMMA SinkInvNext == SinkInv /\ [SinkNext]_sinkVars => SinkInv'
BY SinkInvMove DEF SinkMove, SinkNext

(* Whatever is requested and however the handlers interleave (sink.go). *)
THEOREM SinkInvariant == SinkSpec => []SinkInv
BY SinkInvInit, SinkInvNext, PTL DEF SinkSpec

(* The variables of the sink keep their types. *)
THEOREM SinkTypeCorrect == SinkSpec => []SinkTypeOK
BY SinkInvariant, PTL DEF SinkInv

(* Whatever is sent and however handlers and registration interleave, the  *)
(* log holds evidence of registered runs only (runAllowed, RegisterRun).   *)
THEOREM LogOfRegisteredRuns == SinkSpec => []EventsOfRegisteredRuns
BY SinkInvariant, PTL DEF SinkInv

(* A request leaves exactly one event, under the run id it presented, once *)
(* it is stored or acknowledged, and none otherwise (handleEvent).         *)
THEOREM EvidenceRecordedOnce == SinkSpec => []EvidenceExactlyOnce
BY SinkInvariant, PTL DEF SinkInv

-----------------------------------------------------------------------------
(* The sink implements the evidence log: the end of its body is the moment *)
(* a request is asked, the append the moment it is recorded, the answer the*)
(* moment it is shown a run or declined.                                   *)

LEMMA FateValues ==
  ASSUME NEW r
  PROVE  /\ r.state \in {"unsent", "reading"} => Fate(r) = "unsent"
         /\ r.state \in {"received", "allowed"} => Fate(r) = "open"
         /\ r.state = "stored" => Fate(r) = "recorded"
         /\ r.state = "answered" /\ r.status = 202 => Fate(r) = "recorded"
         /\ r.state = "answered" /\ r.status = 200 /\ r.content.path = "runs"
              => Fate(r) = "shown"
         /\ r.state = "answered" /\ r.status # 202
                /\ ~(r.status = 200 /\ r.content.path = "runs")
              => Fate(r) = "declined"
BY DEF Fate

(* The variables of the log, and a step of one handler seen through them.  *)
Asked == [q \in Requests |-> Asks(request[q])]
Fates == [q \in Requests |-> Fate(request[q])]
Seen == [q \in Requests |-> request[q].view]

LEMMA MappedStep ==
  ASSUME SinkTypeOK, NEW q \in Requests, NEW r, request' = [request EXCEPT ![q] = r]
  PROVE  /\ Asked' = [Asked EXCEPT ![q] = Asks(r)]
         /\ Fates' = [Fates EXCEPT ![q] = Fate(r)]
         /\ Seen' = [Seen EXCEPT ![q] = r.view]
         /\ Asks(r) = Asks(request[q]) => Asked' = Asked
         /\ r.state # "reading" /\ request[q].state # "reading"
                /\ r.content = request[q].content
              => Asked' = Asked
         /\ Fate(r) = Fate(request[q]) => Fates' = Fates
         /\ r.view = request[q].view => Seen' = Seen
<1>1. request'[q] = r /\ \A p \in Requests \ {q} : request'[p] = request[p]
  BY DEF SinkTypeOK
<1>2. \A p \in Requests : Asks(request'[p]) = IF p = q THEN Asks(r) ELSE Asks(request[p])
  BY <1>1
<1>3. \A p \in Requests : Fate(request'[p]) = IF p = q THEN Fate(r) ELSE Fate(request[p])
  BY <1>1
<1>4. \A p \in Requests : request'[p].view = IF p = q THEN r.view ELSE request[p].view
  BY <1>1
<1>5. /\ Asked' = [Asked EXCEPT ![q] = Asks(r)]
      /\ Asks(r) = Asks(request[q]) => Asked' = Asked
  BY <1>2 DEF Asked
<1>6. /\ Fates' = [Fates EXCEPT ![q] = Fate(r)]
      /\ Fate(r) = Fate(request[q]) => Fates' = Fates
  BY <1>3 DEF Fates
<1>7. /\ Seen' = [Seen EXCEPT ![q] = r.view]
      /\ r.view = request[q].view => Seen' = Seen
  BY <1>4 DEF Seen
<1>8. ASSUME r.state # "reading", request[q].state # "reading",
             r.content = request[q].content
      PROVE  Asked' = Asked
  <2>1. Asks(r) = Asks(request[q])
    BY <1>8 DEF Asks
  <2> QED
    BY <1>5, <2>1
<1> QED
  BY <1>5, <1>6, <1>7, <1>8

(* A request that is there with all of its body is asked; one that is still*)
(* read is not.                                                            *)
LEMMA ArrivalIsAsk ==
  ASSUME SinkInv, NEW q \in Requests, NEW r, request' = [request EXCEPT ![q] = r],
         request[q].state \in {"unsent", "reading"}, r.state = "received",
         r.content \in Contents, r.view = {}, UNCHANGED <<allowedRuns, events>>
  PROVE  Log!Ask(q)
<1> DEFINE c == r.content
<1>1. SinkTypeOK /\ request[q].view = {}
  BY DEF SinkInv, HandlersSound
<1>2. Asks(r) = c
  BY DEF Asks
<1>3. /\ c.method \in {"GET", "POST", "PUT"} /\ c.intact \in BOOLEAN
      /\ c.path \in {"events", "git-push", "redirect", "response", "runs", "health"}
      /\ c.header \in RunIDs \cup {NoRun} /\ c.query \in RunIDs \cup {NoRun}
      /\ c = [method |-> c.method, path |-> c.path, header |-> c.header,
              query |-> c.query, intact |-> c.intact]
  BY DEF Contents, Paths, EvidencePaths
<1>4. Fate(request[q]) = "unsent" /\ Fate(r) = "open"
  BY FateValues
<1>5. Fates[q] = "unsent"
  BY <1>4 DEF Fates
<1>6. /\ Asked' = [Asked EXCEPT ![q] = c]
      /\ Fates' = [Fates EXCEPT ![q] = "open"]
      /\ Seen' = Seen
  <2>1. /\ Asked' = [Asked EXCEPT ![q] = Asks(r)]
        /\ Fates' = [Fates EXCEPT ![q] = Fate(r)]
        /\ r.view = request[q].view => Seen' = Seen
    BY <1>1, MappedStep
  <2> QED
    BY <1>1, <1>2, <1>4, <2>1
<1> HIDE DEF c
<1>7. \E method \in {"GET", "POST", "PUT"}, intact \in BOOLEAN,
         path \in {"events", "git-push", "redirect", "response", "runs", "health"},
         header \in RunIDs \cup {NoRun}, query \in RunIDs \cup {NoRun} :
        Asked' = [Asked EXCEPT ![q] = [method |-> method, path |-> path, header |-> header,
                                       query |-> query, intact |-> intact]]
  BY <1>3, <1>6
<1> QED
  BY <1>5, <1>6, <1>7 DEF Log!Ask, Asked, Fates, Seen, Asks

LEMMA SendAsksOrStutters ==
  ASSUME SinkInv, NEW q \in Requests, NEW c \in Offered, SendRequest(q, c)
  PROVE  Log!Ask(q) \/ UNCHANGED <<allowedRuns, events, Asked, Fates, Seen>>
<1> DEFINE r == [request[q] EXCEPT !.state = IF HasBody(c) THEN "reading" ELSE "received",
                                   !.content = c]
<1>1. /\ request[q].state = "unsent" /\ request[q] = NoRequest /\ request[q].view = {}
      /\ request[q] \in [state: HandlerStates, content: Contents \cup {NoContent},
                         status: Nat, view: SUBSET Nat]
      /\ request' = [request EXCEPT ![q] = r] /\ UNCHANGED <<allowedRuns, events>>
  BY DEF SendRequest, SinkInv, SinkTypeOK, HandlersSound, NoRequest
<1>2. /\ r.state = (IF HasBody(c) THEN "reading" ELSE "received")
      /\ r.content = c /\ r.view = {} /\ c \in Contents
  BY <1>1, OfferedAssumption
<1> HIDE DEF r
<1>3. CASE ~HasBody(c)
  BY <1>1, <1>2, <1>3, ArrivalIsAsk
<1>4. CASE HasBody(c)
  <2>1. Fate(r) = Fate(request[q])
    BY <1>1, <1>2, <1>4, FateValues
  <2>2. Asks(r) = Asks(request[q])
    BY <1>1, <1>2, <1>4 DEF Asks, NoRequest
  <2> QED
    <3>1. /\ Asks(r) = Asks(request[q]) => Asked' = Asked
          /\ Fate(r) = Fate(request[q]) => Fates' = Fates
          /\ r.view = request[q].view => Seen' = Seen
      BY <1>1, MappedStep DEF SinkInv
    <3> QED
      BY <1>1, <1>2, <2>1, <2>2, <3>1
<1> QED
  BY <1>3, <1>4

LEMMA BodyIsAsk ==
  ASSUME SinkInv, NEW q \in Requests, BodyEnds(q) \/ BodyCut(q)
  PROVE  Log!Ask(q)
<1> DEFINE c == request[q].content
           r == [request[q] EXCEPT !.state = "received"]
           broken == [request[q] EXCEPT !.state = "received", !.content.intact = FALSE]
<1>1. /\ request[q] \in [state: HandlerStates, content: Contents \cup {NoContent},
                         status: Nat, view: SUBSET Nat]
      /\ request[q].state = "reading" /\ request[q].view = {} /\ c \in Contents
  BY DEF SinkInv, SinkTypeOK, BodyEnds, BodyCut, HandlersSound, NoRequest
<1>2. [c EXCEPT !.intact = FALSE] \in Contents
  BY <1>1 DEF Contents
<1>3. \A x \in {r, broken} : x.state = "received" /\ x.content \in Contents /\ x.view = {}
  BY <1>1, <1>2
<1>4. /\ \E x \in {r, broken} : request' = [request EXCEPT ![q] = x]
      /\ UNCHANGED <<allowedRuns, events>>
  BY DEF BodyEnds, BodyCut, Reaches
<1> HIDE DEF r, broken
<1>5. PICK x \in {r, broken} : request' = [request EXCEPT ![q] = x]
  BY <1>4
<1> QED
  BY <1>1, <1>3, <1>4, <1>5, ArrivalIsAsk

LEMMA StoreIsRecord ==
  ASSUME SinkInv, NEW q \in Requests, StoreEvent(q)
  PROVE  Log!Record(q)
<1> DEFINE c == request[q].content
           r == [request[q] EXCEPT !.state = "stored"]
<1>1. /\ request[q].state = "allowed" /\ c \in Contents /\ c.path \in EvidencePaths
      /\ Passes(c) /\ RunAllowed(PresentedRun(c)) /\ SinkTypeOK
      /\ request[q] \in [state: HandlerStates, content: Contents \cup {NoContent},
                         status: Nat, view: SUBSET Nat]
      /\ request' = [request EXCEPT ![q] = r] /\ UNCHANGED allowedRuns
      /\ events' = Append(events, [run |-> PresentedRun(c), path |-> c.path, payload |-> q])
  BY DEF StoreEvent, Reaches, SinkInv, SinkTypeOK, HandlersSound
<1>2. r.state = "stored" /\ r.content = c /\ r.view = request[q].view
  BY <1>1
<1>3. Fate(request[q]) = "open" /\ Fate(r) = "recorded"
  BY <1>1, <1>2, FateValues
<1>4. /\ c.path \in {"events", "git-push"}
      /\ c.method = "GET" \/ (c.method = "POST" /\ c.intact)
  BY <1>1 DEF Passes, MethodAllowed, BodyRead, HasBody, EvidencePaths
<1>5. Log!Named(c) = PresentedRun(c) /\ Log!Named(c) \in allowedRuns
  BY <1>1 DEF Log!Named, PresentedRun, EvidencePaths, RunAllowed
<1> HIDE DEF r
<1>6. Fates[q] = "open" /\ Asked[q] = c
  BY <1>1, <1>3 DEF Fates, Asked, Asks
<1>7. Fates' = [Fates EXCEPT ![q] = "recorded"] /\ Asked' = Asked /\ Seen' = Seen
  <2>1. /\ Fates' = [Fates EXCEPT ![q] = Fate(r)]
        /\ r.state # "reading" /\ request[q].state # "reading"
               /\ r.content = request[q].content
             => Asked' = Asked
        /\ r.view = request[q].view => Seen' = Seen
    BY <1>1, MappedStep
  <2> QED
    BY <1>1, <1>2, <1>3, <2>1
<1>8. Log!Recordable(Asked[q])
  BY <1>4, <1>5, <1>6 DEF Log!Recordable
<1>9. events' = Append(events, [run |-> Log!Named(Asked[q]), path |-> Asked[q].path,
                                payload |-> q])
  BY <1>1, <1>5, <1>6
<1> QED
  BY <1>1, <1>6, <1>7, <1>8, <1>9 DEF Log!Record, Asked, Asks, Fates, Seen

(* The answer to a request the log cannot take. *)
LEMMA RefusalIsDecline ==
  ASSUME SinkInv, NEW q \in Requests, request[q].state = "received",
         NEW status \in Nat, status # 202, Answers(q, status, {}),
         ~Log!Recordable(request[q].content),
         ~(request[q].content.path = "runs" /\ request[q].content.query \in allowedRuns),
         ~(status = 200 /\ request[q].content.path = "runs"),
         UNCHANGED <<allowedRuns, events>>
  PROVE  Log!Decline(q)
<1> DEFINE r == [request[q] EXCEPT !.state = "answered", !.status = status, !.view = {}]
<1>1. /\ request[q].view = {} /\ SinkTypeOK
      /\ request[q] \in [state: HandlerStates, content: Contents \cup {NoContent},
                         status: Nat, view: SUBSET Nat]
      /\ request' = [request EXCEPT ![q] = r]
  BY DEF Answers, SinkInv, SinkTypeOK, HandlersSound
<1>2. /\ r.state = "answered" /\ r.status = status
      /\ r.content = request[q].content /\ r.view = request[q].view
  BY <1>1
<1>3. Fate(request[q]) = "open" /\ Fate(r) = "declined"
  BY <1>1, <1>2, FateValues
<1> HIDE DEF r
<1>4. Fates[q] = "open" /\ Asked[q] = request[q].content
  BY <1>1, <1>3 DEF Fates, Asked, Asks
<1>5. Fates' = [Fates EXCEPT ![q] = "declined"] /\ Asked' = Asked /\ Seen' = Seen
  <2>1. /\ Fates' = [Fates EXCEPT ![q] = Fate(r)]
        /\ r.state # "reading" /\ request[q].state # "reading"
               /\ r.content = request[q].content
             => Asked' = Asked
        /\ r.view = request[q].view => Seen' = Seen
    BY <1>1, MappedStep
  <2> QED
    BY <1>1, <1>2, <1>3, <2>1
<1>6. /\ ~Log!Recordable(Asked[q])
      /\ ~(Asked[q].path = "runs" /\ Asked[q].query \in allowedRuns)
  BY <1>4
<1> QED
  BY <1>4, <1>5, <1>6 DEF Log!Decline, Asked, Asks, Fates, Seen

(* Why a refused request could not be recorded when it was checked.        *)
LEMMA RefusedRequest ==
  ASSUME SinkInv, NEW c \in Contents,
         \/ c.path \in {"health", "redirect", "response"}
         \/ ~MethodAllowed(c)
         \/ ~(BodyRead(c) /\ RunAllowed(PresentedRun(c)))
  PROVE  /\ ~Log!Recordable(c)
         /\ ~(c.path = "runs" /\ c.query \in allowedRuns)
<1>1. allowedRuns \subseteq ValidRunIDs
  BY DEF SinkInv
<1>2. c.path \in {"health", "redirect", "response"} => c.path \notin {"events", "git-push", "runs"}
  OBVIOUS
<1>3. CASE c.path = "runs"
  <2>1. MethodAllowed(c) /\ BodyRead(c) /\ PresentedRun(c) = c.query
    BY <1>3 DEF MethodAllowed, BodyRead, HasBody, PresentedRun, EvidencePaths
  <2>2. ~RunAllowed(c.query)
    BY <1>2, <1>3, <2>1
  <2> QED
    BY <1>1, <1>3, <2>2 DEF RunAllowed, Log!Recordable
<1>4. CASE c.path \in {"events", "git-push"}
  <2>1. Log!Named(c) = PresentedRun(c)
    BY DEF Log!Named, PresentedRun, EvidencePaths
  <2>2. MethodAllowed(c) <=> c.method \in {"GET", "POST"}
    BY <1>4 DEF MethodAllowed, EvidencePaths
  <2>3. BodyRead(c) <=> (c.method = "POST" => c.intact)
    BY <1>4 DEF BodyRead, HasBody, EvidencePaths
  <2>4. PresentedRun(c) \in allowedRuns => RunAllowed(PresentedRun(c))
    BY <1>1 DEF RunAllowed
  <2>5. Log!Recordable(c) => MethodAllowed(c) /\ BodyRead(c) /\ RunAllowed(PresentedRun(c))
    BY <2>1, <2>2, <2>3, <2>4 DEF Log!Recordable
  <2> QED
    BY <1>2, <1>4, <2>5
<1>5. CASE c.path \notin {"events", "git-push", "runs"}
  BY <1>5 DEF Log!Recordable
<1> QED
  BY <1>3, <1>4, <1>5

LEMMA CheckDeclinesOrStutters ==
  ASSUME SinkInv, NEW q \in Requests, CheckRequest(q)
  PROVE  Log!Decline(q) \/ UNCHANGED <<allowedRuns, events, Asked, Fates, Seen>>
<1> DEFINE c == request[q].content
           r == [request[q] EXCEPT !.state = "allowed"]
           Refused(status) ==
             /\ \/ c.path \in {"health", "redirect", "response"}
                \/ ~MethodAllowed(c)
                \/ ~(BodyRead(c) /\ RunAllowed(PresentedRun(c)))
             /\ ~(status = 200 /\ c.path = "runs")
             /\ Answers(q, status, {})
<1>1. /\ request[q].state = "received" /\ c \in Contents /\ SinkTypeOK
      /\ UNCHANGED <<allowedRuns, events>>
      /\ request[q] \in [state: HandlerStates, content: Contents \cup {NoContent},
                         status: Nat, view: SUBSET Nat]
  BY DEF CheckRequest, SinkInv, SinkTypeOK, HandlersSound
<1>2. Reaches(q, "allowed") \/ \E status \in {204, 307, 400, 405, 200} : Refused(status)
  BY DEF CheckRequest
<1>3. ASSUME NEW status \in {204, 307, 400, 405, 200}, Refused(status)
      PROVE  Log!Decline(q)
  <2>1. status \in Nat /\ status # 202
    OBVIOUS
  <2>2. /\ ~Log!Recordable(c)
        /\ ~(c.path = "runs" /\ c.query \in allowedRuns)
    BY <1>1, <1>3, RefusedRequest
  <2> QED
    BY <1>1, <1>3, <2>1, <2>2, RefusalIsDecline
<1>4. ASSUME Reaches(q, "allowed")
      PROVE  UNCHANGED <<allowedRuns, events, Asked, Fates, Seen>>
  <2>1. request' = [request EXCEPT ![q] = r]
    BY <1>4 DEF Reaches
  <2>2. r.state = "allowed" /\ r.content = c /\ r.view = request[q].view
    BY <1>1
  <2>3. Fate(request[q]) = "open" /\ Fate(r) = "open"
    BY <1>1, <2>2, FateValues
  <2> HIDE DEF r
  <2>4. /\ r.state # "reading" /\ request[q].state # "reading"
               /\ r.content = request[q].content
             => Asked' = Asked
        /\ Fate(r) = Fate(request[q]) => Fates' = Fates
        /\ r.view = request[q].view => Seen' = Seen
    BY <1>1, <2>1, MappedStep
  <2> QED
    BY <1>1, <2>2, <2>3, <2>4
<1> QED
  BY <1>2, <1>3, <1>4

LEMMA AcceptStutters ==
  ASSUME SinkInv, NEW q \in Requests, AcceptEvent(q)
  PROVE  UNCHANGED <<allowedRuns, events, Asked, Fates, Seen>>
<1> DEFINE r == [request[q] EXCEPT !.state = "answered", !.status = 202, !.view = {}]
<1>1. /\ request[q].state = "stored" /\ request[q].view = {} /\ SinkTypeOK
      /\ UNCHANGED <<allowedRuns, events>> /\ request' = [request EXCEPT ![q] = r]
      /\ request[q] \in [state: HandlerStates, content: Contents \cup {NoContent},
                         status: Nat, view: SUBSET Nat]
  BY DEF AcceptEvent, Answers, SinkInv, SinkTypeOK, HandlersSound
<1>2. /\ r.state = "answered" /\ r.status = 202
      /\ r.content = request[q].content /\ r.view = request[q].view
  BY <1>1
<1>3. Fate(request[q]) = "recorded" /\ Fate(r) = "recorded"
  BY <1>1, <1>2, FateValues
<1> HIDE DEF r
<1>4. /\ r.state # "reading" /\ request[q].state # "reading"
               /\ r.content = request[q].content
             => Asked' = Asked
      /\ Fate(r) = Fate(request[q]) => Fates' = Fates
      /\ r.view = request[q].view => Seen' = Seen
  BY <1>1, MappedStep
<1> QED
  BY <1>1, <1>2, <1>3, <1>4

LEMMA ShowIsShow ==
  ASSUME SinkInv, NEW q \in Requests, ShowRun(q)
  PROVE  Log!Show(q)
<1> DEFINE c == request[q].content
           view == EventsOf(PresentedRun(c))
           r == [request[q] EXCEPT !.state = "answered", !.status = 200, !.view = view]
<1>1. /\ request[q].state = "allowed" /\ c.path = "runs" /\ SinkTypeOK
      /\ RunAllowed(PresentedRun(c))
      /\ UNCHANGED <<allowedRuns, events>> /\ request' = [request EXCEPT ![q] = r]
      /\ request[q] \in [state: HandlerStates, content: Contents \cup {NoContent},
                         status: Nat, view: SUBSET Nat]
  BY DEF ShowRun, Answers, SinkInv, SinkTypeOK, HandlersSound
<1>2. PresentedRun(c) = c.query /\ c.query \in allowedRuns
  BY <1>1 DEF PresentedRun, EvidencePaths, RunAllowed
<1> HIDE DEF view
<1>3. r.state = "answered" /\ r.status = 200 /\ r.content = c /\ r.view = view
  BY <1>1
<1> HIDE DEF r
<1>4. Fate(request[q]) = "open" /\ Fate(r) = "shown"
  <2>1. r.content.path = "runs"
    BY <1>1, <1>3
  <2> QED
    BY <1>1, <1>3, <2>1, FateValues
<1>5. Fates[q] = "open" /\ Asked[q] = c
  BY <1>1, <1>4 DEF Fates, Asked, Asks
<1>6. Fates' = [Fates EXCEPT ![q] = "shown"] /\ Asked' = Asked
      /\ Seen' = [Seen EXCEPT ![q] = view]
  <2>1. /\ Fates' = [Fates EXCEPT ![q] = Fate(r)]
        /\ r.state # "reading" /\ request[q].state # "reading"
               /\ r.content = request[q].content
             => Asked' = Asked
        /\ Seen' = [Seen EXCEPT ![q] = r.view]
    BY <1>1, MappedStep
  <2> QED
    BY <1>1, <1>3, <1>4, <2>1
<1>7. view = {i \in DOMAIN events : events[i].run = Asked[q].query}
  BY <1>2, <1>5 DEF view, EventsOf
<1>8. Seen' = [Seen EXCEPT ![q] = {i \in DOMAIN events : events[i].run = Asked[q].query}]
  BY <1>6, <1>7
<1>9. Asked[q].path = "runs" /\ Asked[q].query \in allowedRuns
  BY <1>1, <1>2, <1>5
<1> QED
  BY <1>1, <1>5, <1>6, <1>8, <1>9 DEF Log!Show, Asked, Asks, Fates, Seen

LEMMA LogInitially == SinkInit => Log!LogInit
<1> SUFFICES ASSUME SinkInit PROVE Log!LogInit
  OBVIOUS
<1>1. \A q \in Requests : request[q] = NoRequest
  BY DEF SinkInit
<1>2. NoRequest.content = [method |-> "none"] /\ NoRequest.view = {}
  BY DEF NoRequest, NoContent
<1>3. Fate(NoRequest) = "unsent"
  BY FateValues DEF NoRequest
<1>4. /\ Asked = [q \in Requests |-> [method |-> "none"]]
      /\ Fates = [q \in Requests |-> "unsent"]
      /\ Seen = [q \in Requests |-> {}]
  BY <1>1, <1>2, <1>3 DEF Asked, Asks, Fates, Seen, NoContent
<1>5. allowedRuns = {} /\ events = <<>>
  BY DEF SinkInit
<1> QED
  BY <1>4, <1>5 DEF Log!LogInit, Asked, Asks, Fates, Seen

LEMMA LogStep == SinkInv /\ [SinkNext]_sinkVars => [Log!LogNext]_(Log!logVars)
<1> SUFFICES ASSUME SinkInv, [SinkNext]_sinkVars
             PROVE  Log!LogNext \/ UNCHANGED <<allowedRuns, events, Asked, Fates, Seen>>
  BY DEF Log!logVars, Asked, Asks, Fates, Seen
<1>1. CASE UNCHANGED <<allowedRuns, events, request>>
  BY <1>1 DEF Asked, Fates, Seen, Fate
<1>2. CASE StartSink \/ CloseSink \/ UNCHANGED sinkVars
  BY <1>1, <1>2 DEF StartSink, CloseSink, sinkVars
<1>3. ASSUME NEW run \in RunIDs, RegisterRun(run) PROVE Log!Register(run)
  BY <1>3 DEF RegisterRun, Log!Register, Fate
<1>4. ASSUME NEW q \in Requests, NEW c \in Offered, SendRequest(q, c)
      PROVE  Log!LogNext \/ UNCHANGED <<allowedRuns, events, Asked, Fates, Seen>>
  BY <1>4, SendAsksOrStutters DEF Log!LogNext
<1>5. ASSUME NEW q \in Requests, HandlerStep(q)
      PROVE  Log!LogNext \/ UNCHANGED <<allowedRuns, events, Asked, Fates, Seen>>
  <2>1. CASE CheckRequest(q)
    BY <2>1, CheckDeclinesOrStutters DEF Log!LogNext, Log!Decide
  <2>2. CASE StoreEvent(q)
    BY <2>2, StoreIsRecord DEF Log!LogNext, Log!Decide
  <2>3. CASE AcceptEvent(q)
    BY <2>3, AcceptStutters
  <2>4. CASE ShowRun(q)
    BY <2>4, ShowIsShow DEF Log!LogNext, Log!Decide
  <2> QED
    BY <1>5, <2>1, <2>2, <2>3, <2>4 DEF HandlerStep
<1>6. ASSUME NEW q \in Requests, BodyEnds(q) \/ BodyCut(q) PROVE Log!LogNext
  BY <1>6, BodyIsAsk DEF Log!LogNext
<1> QED
  BY <1>2, <1>3, <1>4, <1>5, <1>6 DEF SinkNext, Log!LogNext

(* The sink, whose handlers check, append and answer in separate steps,    *)
(* implements the evidence log that records or declines at once.           *)
THEOREM SinkImplementsLog == SinkSpec => ImplementsEvidenceLog
BY LogInitially, LogStep, SinkInvariant, PTL DEF SinkSpec, ImplementsEvidenceLog, Log!LogSpec

-----------------------------------------------------------------------------
(* The address a run's sink listens on. *)

BindInv ==
  /\ address \in Literals \cup {NoLiteral}
  /\ listener \in {"run", "start", "listening", "refused"}
  /\ listener \in {"start", "listening"} => address # NoLiteral /\ ~IsLoopback(address)
  /\ listener = "listening" => ValidBindAddress(address)

(* The masks of the checks and the ranges they stand for, for either       *)
(* family.                                                                 *)
LEMMA AllowedByRange ==
  ASSUME NEW ip \in Literals, ~IsLoopback(ip)
  PROVE  ValidBindAddress(ip) <=>
           Prefix(ip) \in PrivateRanges[ip.family] \cup LinkLocalRanges[ip.family]
<1> DEFINE x == ip.b[1]
           y == ip.b[2]
<1>1. ip.family \in {"v4", "v6"} /\ x \in 0..255 /\ y \in 0..255
  BY ByteAssumption DEF Literals
<1>2. CASE ip.family = "v4"
  <2>1. ValidBindAddress(ip) <=>
          \/ x = 169 /\ y = 254
          \/ x = 10
          \/ x = 172 /\ y >= 16 /\ y <= 31
          \/ x = 192 /\ y = 168
    BY <1>1, <1>2
    DEF ValidBindAddress, IsUnspecified, IsLinkLocalUnicast, PrivateIPv4, PrivateIPv6
  <2>2. /\ Prefix(ip) = 256 * x + y
        /\ PrivateRanges[ip.family] = (2560..2815) \cup (44048..44063) \cup {49320}
        /\ LinkLocalRanges[ip.family] = {43518}
    BY <1>2 DEF Prefix, PrivateRanges, LinkLocalRanges
  <2> HIDE DEF x, y
  <2> QED
    BY <1>1, <2>1, <2>2
<1>3. CASE ip.family = "v6"
  <2>1. ValidBindAddress(ip) <=> (x = 254 /\ y \div 64 = 2) \/ x \div 2 = 126
    BY <1>1, <1>3
    DEF ValidBindAddress, IsUnspecified, IsLinkLocalUnicast, PrivateIPv4, PrivateIPv6
  <2>2. /\ Prefix(ip) = 256 * x + y
        /\ PrivateRanges[ip.family] = 64512..65023 /\ LinkLocalRanges[ip.family] = 65152..65215
    BY <1>3 DEF Prefix, PrivateRanges, LinkLocalRanges
  <2> HIDE DEF x, y
  <2> QED
    BY <1>1, <2>1, <2>2
<1> QED
  BY <1>1, <1>2, <1>3

LEMMA BindInvHolds == BindSpec => []BindInv
<1>1. BindInit => BindInv
  BY DEF BindInit, BindInv
<1>2. BindInv /\ [RunChecks \/ StartOn]_bindVars => BindInv'
  <2> SUFFICES ASSUME BindInv, [RunChecks \/ StartOn]_bindVars
               PROVE  BindInv'
    OBVIOUS
  <2>1. CASE RunChecks
    BY <2>1 DEF BindInv, RunChecks
  <2>2. CASE StartOn
    BY <2>2 DEF BindInv, StartOn
  <2>3. CASE UNCHANGED bindVars
    BY <2>3 DEF BindInv, bindVars
  <2> QED
    BY <2>1, <2>2, <2>3
<1> QED
  BY <1>1, <1>2, PTL DEF BindSpec

(* sink.StartOn and runner.Run: a run's sink listens on an address of the  *)
(* private and link-local ranges and on no other, and none of those is     *)
(* refused by a mask or a bound, for all addresses of both families.       *)
THEOREM SinksListenPrivately == BindSpec => []ListensPrivately
<1>1. BindInv => ListensPrivately
  <2> SUFFICES ASSUME BindInv
               PROVE  ListensPrivately
    OBVIOUS
  <2>1. CASE listener \in {"start", "listening"}
    <3>1. address \in Literals /\ ~IsLoopback(address)
      BY <2>1 DEF BindInv
    <3> QED
      BY <2>1, <3>1, AllowedByRange DEF BindInv, ListensPrivately
  <2>2. CASE listener \notin {"start", "listening"}
    BY <2>2 DEF ListensPrivately
  <2> QED
    BY <2>1, <2>2
<1> QED
  BY <1>1, BindInvHolds, PTL
=============================================================================
