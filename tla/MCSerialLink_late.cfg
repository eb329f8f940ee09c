CONSTANTS
  Requests <- MCTwoRequests
  Gated <- MCGated
  Matriculated <- MCTwoKeys
  MaxLine = 1
  LateReplies = TRUE
  Misnames = {"temperatura", "analogico", "unknown"}
SPECIFICATION Spec
INVARIANTS CrashOnlyCold
PROPERTIES AcquisitionCompletes
