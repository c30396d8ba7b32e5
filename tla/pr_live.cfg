\* One client; it moves, it crashes and starts again, or the server restarts.
SPECIFICATION FairSpec
CONSTANTS
  c1 = c1
  c2 = c2
  Client = {c1}
  OnServerLan = {}
  MaxTry = 2
  MaxNat = 2
  MaxFaults = 1
  MaxNet = 2
  SlowSweep = FALSE
PROPERTIES
  GhostsGo
  KeepsComingBack
