CONSTANTS
  MaxEvents = 4
  MemoryShort = TRUE
SPECIFICATION Spec
INVARIANTS TypeOK HandleIsLive NoOrphan DeadForGood
PROPERTIES LossStopsServer ImplementsServerLife
