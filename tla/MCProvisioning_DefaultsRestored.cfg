CONSTANTS
  PortKeys <- MCPortKeys
  ReadAs <- MCReadAs
  TooLong <- MCTooLong
  Endpoints = {"SETPORTS", "DEFAULTESP", "SETHTTP", "WIFIST"}
SPECIFICATION Spec
INVARIANT DefaultsRestored
