SPECIFICATION FairSpec
CONSTANTS
  Images <- ThreeImages
  Width <- Widths
  Configs <- Sites
  Damages <- Mishaps
  NumCPU = 2
  Paths <- Asked
  W = 2
  Requests = {q1, q2}
CHECK_DEADLOCK FALSE
INVARIANTS
  TypeOK
  StartIsComplete
  DerivedTruthful
  AdvertisedIsServed
  RateCountsWindow
PROPERTIES
  RateForgets
  StartEnds
