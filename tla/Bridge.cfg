CONSTANTS
  Distance = {0, 100, 150, 2000}
  INT32_MAX = 1000
  Filter = {all, pets}
  NoFilter = NoFilter
  Cleared = all
  Backend = "immich"
  Unpublished = Unpublished
  MaxSocket = 1
  MaxQueue = 1
  MaxCommands = 1
  MaxCuts = 1
SPECIFICATION Spec
INVARIANTS
  CommandsOnce
  OccupancyCurrent
  FilterHonest
PROPERTIES
  StateForwarded
  SignalsHandled
