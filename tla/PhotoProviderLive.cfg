CONSTANTS
  HistoryDepth = 0
  CacheDepth = 1
  IMG_MIN_SZ = 1
  IMG_MAX_SZ = 1
  InitialConfig <- StartConfig
  NoClient = NoClient
  NoPhoto = NoPhoto
  NoCopy = NoCopy
  Memfd = {f1, f2, f3}
  MaxCalls = 2
SPECIFICATION FairSpec
PROPERTIES
  EventuallyPrefetched
  ShutdownEnds
