SPECIFICATION FairSpec
CONSTANTS
  r1 = r1
  e1 = e1
  e2 = e2
  s1 = s1
  s2 = s2
  hostA = hostA
  hostB = hostB
  page = page
  video = video
  Edges <- TwoEdges
  Shields <- TwoShields
  Hosts = {hostA}
  URIs = {page}
  Requests = {r1}
  Knows <- AllKnown
  EdgeOwner <- SkewedEdgeOwner
  ShieldOwner <- SkewedShieldOwner
  Cap = 1
  MaxVersion = 1
  MaxFaults = 6
CHECK_DEADLOCK FALSE
INVARIANTS
  NoRoutingLoop
  OriginLoad
PROPERTIES
  EveryRequestEnds
