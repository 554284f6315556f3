SPECIFICATION Spec
CONSTANTS
  Cpus = 2
  Frames <- Arriving
  Vip = "vip"
  Slot <- Slots
  Lookup <- Table
  Entries <- Addresses
  MaxFrames = 3
INVARIANTS
  CountersAccount
  SentArrives
PROPERTIES
  ReadingIsBetween
