\* Two clients, no fault but the loss of datagrams.
SPECIFICATION Spec
CONSTANTS
  c1 = c1
  c2 = c2
  Client = {c1, c2}
  OnServerLan = {}
  MaxTry = 1
  MaxNat = 1
  MaxFaults = 0
  MaxNet = 2
  SlowSweep = FALSE
INVARIANTS
  OwnIdentity
