SPECIFICATION KSpec
CONSTANTS
  Hdr = 2
  MinSplit = 2
  FirstAt = 0
  FirstSize = 14
  MoreSize = 12
  MoreAt <- GapMoreAt
  KSizes = {4, 8}
INVARIANT BlocksInHeapPages
