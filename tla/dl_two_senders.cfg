\* Two unreliable providers and a file of one block, with a phantom second.
SPECIFICATION Spec
CONSTANTS
  p1 = p1
  p2 = p2
  Provider = {p1, p2}
  MayFail = {p1, p2}
  MayVanish = {p1, p2}
  MayIgnore = {}
  FileSize = 2
  BlockSize = 2
  DWordMod = 4096
  Window = 4
  MaxReq = 1
  MaxRetry = 0
  Garbage = {0}
  DiskFaults = FALSE
INVARIANTS
  BlockInOnePlace
  ListMatchesSenders
  TaskGoesToLiving
SYMMETRY Symmetry
