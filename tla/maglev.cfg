SPECIFICATION FairSpec
CONSTANTS
  M = 5
  N = 3
  Reports <- SecondOrAllFail
INVARIANTS
  TypeOK
  BuiltTableServesAlive
  FairShare
  FirstComeFirstServed
PROPERTIES
  FailbackRestoresTable
  FillEnds
