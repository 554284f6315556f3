SPECIFICATION FairSpec
CONSTANTS
  N = 2
  M = 2
  Lookup <- RoundRobin
  MaxFaults = 3
CHECK_DEADLOCK FALSE
PROPERTY
  DownIsNoticed
