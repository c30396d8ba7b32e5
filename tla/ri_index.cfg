\* Two drives, two files, which may appear, move and vanish; two starts, of which
\* each may end at any moment; a scan's cache of one line.
SPECIFICATION FairSpec
CONSTANTS
  d1 = d1
  d2 = d2
  f1 = f1
  f2 = f2
  Drive = {d1, d2}
  File = {f1, f2}
  CacheMax = 1
  MaxStarts = 2
  MaxChanges = 1
  Interrupted = TRUE
  RedisFails = FALSE
INVARIANTS
  TypeOK
  OfferedIsKnown
PROPERTIES
  OfferedInTime
  FlaggedInGap
CHECK_DEADLOCK FALSE
