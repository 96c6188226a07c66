CONSTANTS
  c1 = c1
  c2 = c2
  s1 = s1
  h1 = h1
  r1 = r1
  d1 = d1
  a = a
  b = b
  None = None
  Keep = Keep
  Clients <- MCClients
  Streams <- MCStreams
  Handshakes <- MCHandshakes
  Requests <- MCRequests
  Domains <- MCDomains
  MdnsDomains <- MCDomains
  Targets <- MCTargets
  Routable <- MCTargets
  Calls <- MCCalls
SPECIFICATION MCSpec
INVARIANTS
  RequestTypeOK
  StaleLeafWasLate
  UndisturbedRequestIsConsistent
PROPERTIES
  CallsAreAnswered
