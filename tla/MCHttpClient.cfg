CONSTANTS
  panic = panic
  alarm = alarm
  Buttons = {panic, alarm}
  Chunks = 2
  MaxLen = 3
SPECIFICATION Spec
SYMMETRY ButtonSymmetry
INVARIANTS TypeOK OffsetIsOwn AnswerIntact OneFramePerLogin
