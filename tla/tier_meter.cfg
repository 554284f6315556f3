SPECIFICATION Spec
CONSTANTS
  r1 = r1
  r2 = r2
  e1 = e1
  e2 = e2
  s1 = s1
  s2 = s2
  hostA = hostA
  hostB = hostB
  page = page
  video = video
  Edges <- TwoEdges
  Shields <- TwoShields
  Hosts = {hostA}
  URIs = {page}
  Requests = {r1, r2}
  Knows <- AllKnown
  EdgeOwner <- AgreedEdgeOwner
  ShieldOwner <- AgreedShieldOwner
  Cap = 1
  MaxVersion = 1
  MaxFaults = 0
CHECK_DEADLOCK FALSE
INVARIANT
  MeterPlacesAnswers
