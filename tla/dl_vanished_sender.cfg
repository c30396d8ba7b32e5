\* One provider whose address lookup may fail.
SPECIFICATION FairSpec
CONSTANTS
  p1 = p1
  p2 = p2
  Provider = {p1}
  MayFail = {p1}
  MayVanish = {p1}
  MayIgnore = {}
  FileSize = 2
  BlockSize = 2
  DWordMod = 4096
  Window = 4
  MaxReq = 1
  MaxRetry = 0
  Garbage = {}
  DiskFaults = FALSE
PROPERTIES
  EndsSomeTime
