\* Two files, one of them with two names; two words, two searches and two
\* downloads.
SPECIFICATION Spec
CONSTANTS
  f1 = f1
  f2 = f2
  r1 = r1
  r2 = r2
  r3 = r3
  w1 = w1
  w2 = w2
  File = {f1, f2}
  Resource = {r1, r2, r3}
  MD5 <- NameOf
  Word = {w1, w2}
  Matches <- Found
  MaxSearches = 2
  MaxDownloads = 2
  MaxQueue = 2
  RedisFails = TRUE
  None = None
INVARIANTS
  TypeOK
  FlagFollowsThreads
  ShowsTheLastSearch
  ProgressFindsItsRow
  MapHoldsTheLiving
PROPERTIES
  DeletesItsOwn
CHECK_DEADLOCK FALSE
