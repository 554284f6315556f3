SPECIFICATION FairSpec
CONSTANTS
  P = 3
  R = 2
  Sources <- Askers
  Zone <- NcdnTest
  HasIp4 = {1, 2}
  Questions <- Asked
  Prefixes <- Nested
  Networks <- Reroutings
  Default = 9
  SerialMod = 6
  MaxFaults = 2
CHECK_DEADLOCK FALSE
INVARIANTS
  TypeOK
  MeasuredRegionGetsNearest
  SerialTellsFirstRound
  NameErrorsAgree
  ClientGetsNearest
PROPERTIES
  AnswersKeepToSerial
  NearestIsServed
  DeadPopIsLeft
  CancelEndsRun
