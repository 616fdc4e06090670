SPECIFICATION Spec
CONSTANTS
  Starts <- MCStarts
  ProfileSdks = {"s1", "s2"}
INVARIANTS
  OfflineClientsHaveASource
  OfflineAsConfigured
  OriginsAreChecked
  CleanExit
PROPERTIES
  FailureEnds
  SignalEnds
CHECK_DEADLOCK FALSE
