SPECIFICATION Spec
CONSTANTS
  r1 = r1
  r2 = r2
  e1 = e1
  e2 = e2
  s1 = s1
  s2 = s2
  hostA = hostA
  hostB = hostB
  page = page
  video = video
  Edges <- TwoEdges
  Shields <- TwoShields
  Hosts = {hostA, hostB}
  URIs = {page}
  Requests = {r1, r2}
  Knows <- ShieldMissesB
  EdgeOwner <- AgreedEdgeOwner
  ShieldOwner <- AgreedShieldOwner
  Cap = 1
  MaxVersion = 2
  MaxFaults = 2
SYMMETRY RequestSymmetry
CHECK_DEADLOCK FALSE
INVARIANTS
  TypeOK
  TenantIsolation
  HeadersTruthful
  Placement
PROPERTIES
  ImplementsService
