CONSTANTS
  Requests <- MCRequests
  Gated <- MCGated
  Matriculated <- MCMatriculated
  MaxLine = 2
  LateReplies = FALSE
  Misnames = {}
SPECIFICATION Spec
INVARIANT ReadsStoredData
