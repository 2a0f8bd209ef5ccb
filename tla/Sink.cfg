\* Two runs and an ill-formed id; two requests in flight at once.  Every
\* behaviour ends when the requests are answered and the sink is closed.
CONSTANTS
  r1 = r1
  r2 = r2
  bad = bad
  NoRun = NoRun
  Requests = {q1, q2}
  RunIDs <- MCRunIDs
  ValidRunIDs <- MCValidRunIDs
  Offered <- MCOffered
SPECIFICATION SinkFairSpec
CHECK_DEADLOCK FALSE
INVARIANTS EventsOfRegisteredRuns EvidenceExactlyOnce
PROPERTIES ImplementsEvidenceLog RequestsAnswered
