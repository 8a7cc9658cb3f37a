CONSTANTS
  Announcements = {"a1"}
  Errors = {"e1"}
  HasFallback = TRUE
  MaxCalls = 3
SPECIFICATION Spec
INVARIANTS
  FrameIsMapped
