SPECIFICATION Spec
CONSTANTS
  t1 = t1
  t2 = t2
  p1 = p1
  Thread = {t1, t2}
  Provider = {p1}
  Target <- ToOne
  Caller = {p1}
  MaxTry = 2
  MaxRounds = 2
  MaxSendRetry = 1
  MaxAddr = 2
  MaxFaults = 1
  None = None
  Server = Server
INVARIANTS
  TypeOK
  FlagsTellTheTruth
  NullOnlyInGap
  PunchedAddressIsPeers
  
SYMMETRY Symmetry
CHECK_DEADLOCK FALSE
VIEW Followed
CONSTRAINTS OneCallAfterFault CallsEarly
