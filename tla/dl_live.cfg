\* p1 may vanish or leave requests unanswered, p2 may fail; a file of one
\* block.
SPECIFICATION FairSpec
CONSTANTS
  p1 = p1
  p2 = p2
  Provider = {p1, p2}
  MayFail = {p2}
  MayVanish = {p1}
  MayIgnore = {p1}
  FileSize = 1
  BlockSize = 2
  DWordMod = 4096
  Window = 2
  MaxReq = 1
  MaxRetry = 0
  Garbage = {}
  DiskFaults = FALSE
PROPERTIES
  EndsWhileAnswered
  OneSteadySenderSuffices
