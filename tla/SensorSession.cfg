CONSTANTS
  Keys = {"farthest_gate"}
  Values = {1, 2}
  Wanted <- WantedGate
  Unread = 0
  RoomEmpty = 2
  QueueSize = 8
  LineDepth = 1
  HasGpio = FALSE
  Forced = FALSE
  Faults = {"answer_lost", "answer_torn", "command_lost", "refused"}
  MaxFaults = 1
  MaxNights = 1
  MaxRestarts = 1
SPECIFICATION FairSpec
INVARIANTS
  SessionInv
  ParamsApplied
  LeavesConfigMode
PROPERTIES
  RoomReported
  QuitEnds
