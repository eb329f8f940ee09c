CONSTANTS
  Requests <- MCRequests
  Gated <- MCGated
  Matriculated <- MCMatriculated
  MaxLine = 2
  LateReplies = FALSE
  Misnames = {}
SPECIFICATION Spec
INVARIANTS TypeOK FlagsTruthful ParsedWhole ChannelNotSaturated FrameOfOneCycle NoAnswerDropped
PROPERTIES AcquisitionCompletes AnswerPublished ImplementsAcquisition
