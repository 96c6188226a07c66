CONSTANTS
  c1 = c1
  c2 = c2
  s1 = s1
  d1 = d1
  d2 = d2
  good = good
  odd = odd
  None = None
  Keep = Keep
  Clients <- MCClients
  Streams <- MCStreams
  Handshakes = {}
  Domains <- MCDomains
  MdnsDomains <- MCDomains
  Targets <- MCTargets
  Routable <- MCRoutable
  Calls <- MCCalls
SPECIFICATION Spec
SYMMETRY Symmetry
INVARIANTS
  TypeOK
  TableDivergenceHasACause
  AdvertDivergenceHasACause
PROPERTIES
  RegistrySpec
