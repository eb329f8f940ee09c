CONSTANTS
  PortKeys <- MCPortKeys
  ReadAs <- MCReadAs
  TooLong <- MCTooLong
  Endpoints = {"SETPORTS", "DEFAULTESP", "SETHTTP", "WIFIST"}
SPECIFICATION Spec
INVARIANTS TypeOK MatriculatedComplete TokenUsable ConfiguredKeysLoaded PreparedWhenServing
PROPERTIES SettingsSurvive ImplementsRegistration
