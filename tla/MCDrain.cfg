CONSTANTS
  Calls = {c1}
  Requests = {r1}
  Streams = {s1}
SPECIFICATION DaemonStopSpec
CHECK_DEADLOCK FALSE
INVARIANTS
  RequestsAreDrained
