SPECIFICATION FairSpec
CONSTANTS
  Block <- NamedBlocks
  FileBlocks <- OneBlock
  MaxReq = 2
  MaxAddr = 2
  MaxRequests = 1
  MaxFaults = 2
  None = None
  Server = Server
  Other = Other
INVARIANTS
  TypeOK
  OnlyToWhoAsked
PROPERTIES
  BlocksComeOfRequests
  DirectArrives
  RelayArrives
