SPECIFICATION FairSpec
CONSTANTS
  P = 3
  R = 2
  Sources <- Askers
  Prefixes <- Nested
  Networks <- Reroutings
  Default = 9
  SerialMod = 6
  MaxFaults = 2
CHECK_DEADLOCK FALSE
PROPERTIES
  NearestDespiteHangs
