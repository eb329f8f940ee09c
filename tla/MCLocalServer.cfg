SPECIFICATION Spec
CONSTANTS
  Keys <- TwoKeys
  PortNames <- TwoNames
  TooLong = {"1_TOLDO_SUPERIOR"}
  Failing = {"4_SERVERTIME"}
  KeyCount = 2
  Group <- TwoGroups
  Port = {1, 4, 12}
  Value = {1, 4, 12}
  Endpoints = {"SETPORTS", "TRAMA", "SERVER", "RESETESP"}
  Bodies <- SomeBodies
  Found <- FirstPorts
  Readers = {"httpd", "button"}
  Meanwhile = {}
INVARIANTS
  TypeOK SavedMeansStored WholeIsServed ValueIsOfItsPort TextsEnd
  EndpointsMatchFrame CopiesInOrder QuietCopyIsWhole

PROPERTIES RequestEnds PortShown  ImplementsPortBoard
