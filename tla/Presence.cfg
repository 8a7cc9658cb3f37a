CONSTANTS
  Delay = 3
  Hyst <- DayHyst
  SilentHyst <- NightHyst
  silent_start_min = 2
  silent_end_min = 1
  DayMinutes = 3
  MaxCount = 4
SPECIFICATION FairSpec
INVARIANTS
  Inv
PROPERTIES
  FlickerSuppressed
  LatchClearsOnVacancy
  SteadyIsAnnounced
