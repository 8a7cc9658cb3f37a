CONSTANTS
  Delay = 1
  Hyst <- TwoThenOne
  SilentHyst <- OneThenTwo
  silent_start_min = 0
  silent_end_min = 1
  DayMinutes = 2
  MaxCount = 2
  MaxRestarts = 2
  MaxPending = 3
SPECIFICATION SystemSpec
INVARIANTS
  SystemInv
  DisplayInStep
  InStepWithPresence
  PresentIsShown
PROPERTIES
  LitBeforeAnnounced
