\* A file larger than a DWORD can count: 10 bytes where DWORDs count modulo 8.
SPECIFICATION Spec
CONSTANTS
  p1 = p1
  p2 = p2
  Provider = {p1}
  MayFail = {p1}
  MayVanish = {p1}
  MayIgnore = {}
  FileSize = 10
  BlockSize = 2
  DWordMod = 8
  Window = 2
  MaxReq = 2
  MaxRetry = 1
  Garbage = {0, 2}
  DiskFaults = FALSE
INVARIANTS
  FinishedComplete
