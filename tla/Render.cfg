CONSTANTS
  Announcements = {"a1"}
  Errors = {"e1"}
  HasFallback = TRUE
  MaxCalls = 3
SPECIFICATION FairSpec
INVARIANTS
  PausedShowsFallback
  NoLostWakeup
  ErrorsClear
PROPERTIES
  RequestsServed
  ShutdownEnds
