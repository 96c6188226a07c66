CONSTANTS
  c1 = c1
  c2 = c2
  s1 = s1
  d1 = d1
  d2 = d2
  good = good
  odd = odd
  None = None
  Keep = Keep
  Clients <- MCOneClient
  Streams = {}
  Handshakes = {}
  Domains <- MCOneDomain
  MdnsDomains <- MCOneDomain
  Targets <- MCTargets
  Routable <- MCRoutable
  Calls <- MCFewCalls
SPECIFICATION Spec
INVARIANTS
  TableMatchesStore
