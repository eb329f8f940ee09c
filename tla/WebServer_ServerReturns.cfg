CONSTANTS
  MaxEvents = 3
  MemoryShort = FALSE
SPECIFICATION Spec
PROPERTY ServerReturns
