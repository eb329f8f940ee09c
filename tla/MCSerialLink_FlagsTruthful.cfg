CONSTANTS
  Requests <- MCRequests
  Gated <- MCGated
  Matriculated <- MCMatriculated
  MaxLine = 2
  LateReplies = TRUE
  Misnames = {}
SPECIFICATION Spec
INVARIANT FlagsTruthful
