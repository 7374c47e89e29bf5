SPECIFICATION FairSpec
CONSTANTS
  N = 4
  MaxPid = 5
  Codes = {1}
  Kormi = 0
INVARIANTS
  TypeOK
  CurrentRuns
  FramesLive
  NoDoubleFree
  TssOwnStack
  MaskedUntilLeak
  InitReady
  WaitCodeTrue
PROPERTIES
  StarvationFree
