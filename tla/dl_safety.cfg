\* One unreliable provider; three blocks and a phantom fourth through a window
\* of two.
SPECIFICATION Spec
CONSTANTS
  p1 = p1
  p2 = p2
  Provider = {p1}
  MayFail = {p1}
  MayVanish = {p1}
  MayIgnore = {p1}
  FileSize = 6
  BlockSize = 2
  DWordMod = 4096
  Window = 2
  MaxReq = 2
  MaxRetry = 1
  Garbage = {0, 2}
  DiskFaults = FALSE
INVARIANTS
  TypeOK
  IndInv
  CountExact
  FinishedComplete
  NothingAfterClose
  WithinBounds
PROPERTIES
  ImplementsFileTransfer
