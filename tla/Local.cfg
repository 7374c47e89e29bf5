SPECIFICATION LocalSpec
CONSTANTS
  Procs = {1, 2}
  Drivers = {2}
  PageSize = 2
  MemMap <- MCMemMap
  Held <- MCHeld
  BitmapMax = 64
  LowTop = 2
  HeapPages = 1
  Levels = 3
  Fan = 3
  UserBase = 9
  DevBase = 18
  KernelBase = 21
  Guard = 1
  StackPages = 1
  UmapMax = 3
  Images <- MCImages
  CodeSizes = {1}
  MmapSizes = {0, 3, 4}
  MmapMax = 3
  DevFrames = {3}
  Probes = {18}
  DevMax = 2
  Hdr = 2
  MinSplit = 2
  FirstAt = 9
  FirstSize = 13
  MoreSize = 9
  MoreAt <- MCMoreAt
  KSizes = {0, 2, 8}
  Ovh = 2
  URest = 1
  PageUnits = 4
  Chunk = 8
  UserTop = 20
  USizes = {0, 3, 7, 9}
  Sc1 <- MCSc1
  Sc1Shift <- MCSc1Shift
  Caps <- MCCaps
  Dead <- MCDead
  Extended = {"enter"}
  Batch = 2
  MaxTyped = 3
INVARIANTS
  TypeOK
  UsedCounted
  FramesExclusive
  KTiled
  UTiled
  FreeListExact
  URejoined
  FailsOnlyAtEdge
  KeysKept
  NoKeyTwice
PROPERTIES
  LossAccounted
  NoNewHoles
  MmapAllOrNothing
CHECK_DEADLOCK FALSE
