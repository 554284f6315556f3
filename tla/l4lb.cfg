SPECIFICATION FairSpec
CONSTANTS
  N = 2
  M = 3
  Lookup <- RoundRobin
  MaxFaults = 3
CHECK_DEADLOCK FALSE
INVARIANTS
  TypeOK
  ChangeNoticed
  TableMatchesHealth
  NoPacketToNowhere
PROPERTIES
  DownLosesFlows
  UpGetsFlows
  LinkHeals
