SPECIFICATION Spec
CONSTANTS
  Policy = "fifo"
  Admission = "priority"
  Cap = 2
  Lifetime <- MCLifetime
  Quantum = 1
  Weight <- MCWeight
  MaxSize = 2
  T0 = 0
  T1 = 4
  Contacts <- MCContacts
  Slot = 1
  Offers <- MixedOffers
  MaxRounds = 20
  MaxPackets = 3
  MaxClock = 4
INVARIANTS QueuesAgree
PROPERTIES ImplementsStore
