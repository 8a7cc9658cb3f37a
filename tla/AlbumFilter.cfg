CONSTANTS
  Filter = {all, pets, trips, odd}
  NoFilter = all
  Rejected = {odd}
  Torn = Torn
  MaxCalls = 3
  MaxDeaths = 2
SPECIFICATION Spec
INVARIANTS
  FilterInv
  FilterSurvives
CHECK_DEADLOCK FALSE
