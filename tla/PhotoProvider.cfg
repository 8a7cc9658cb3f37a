CONSTANTS
  HistoryDepth = 0
  CacheDepth = 0
  IMG_MIN_SZ = 1
  IMG_MAX_SZ = 2
  InitialConfig <- StartConfig
  NoClient = NoClient
  NoPhoto = NoPhoto
  NoCopy = NoCopy
  Memfd = {f1, f2, f3, f4}
  MaxCalls = 3
SYMMETRY MemfdSymmetry
SPECIFICATION Spec
INVARIANTS
  Inv
  NoOutdatedPhoto
  MemfdsOwnedOnce
  NoMutualSleep
PROPERTIES
  PhotosKept
  ImplementsAlbum
