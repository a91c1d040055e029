SPECIFICATION FairSpec
CONSTANTS
  Policy = "wfq"
  Admission = "droptail"
  Cap = 4
  Lifetime <- MCLifetime
  Quantum = 1
  Weight <- MCWeight
  MaxSize = 3
  T0 = 0
  T1 = 4
  Contacts <- MCContacts
  Slot = 1
  Offers <- DrrOffers
  MaxRounds = 20
  MaxPackets = 3
  MaxClock = 4
INVARIANTS TypeOK DeficitBound
PROPERTIES WorkConserving RunEnds
