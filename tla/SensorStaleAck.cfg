CONSTANTS
  Keys = {"farthest_gate"}
  Values = {1, 2}
  Wanted <- WantedGate
  Unread = 0
  RoomEmpty = 2
  QueueSize = 8
  LineDepth = 1
  HasGpio = FALSE
  Forced = FALSE
  Faults = {"late"}
  MaxFaults = 1
  MaxNights = 1
  MaxRestarts = 0
SPECIFICATION FairSpec
INVARIANTS
  AckMeansDone
