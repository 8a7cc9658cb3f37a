CONSTANTS
  Clients = {ambience, tool}
  Daemons = {ambience}
  MaxStarts = 3
  MaxBuffers = 2
SPECIFICATION FairSpec
INVARIANTS
  LeaseInv
  FollowsDisplayMgr
PROPERTIES
  LeaseEnds
CHECK_DEADLOCK FALSE
