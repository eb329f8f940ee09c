CONSTANTS
  Buttons = {}
  Chunks = 2
  MaxLen = 2
SPECIFICATION Spec
INVARIANT LoginOfThisRound
