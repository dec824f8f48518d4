SPECIFICATION FairSpec
CONSTANTS
  MaxListen = 2
  MaxInput = 3
  ChanCap = 1
  Network <- MCNetwork
  Addrs <- MCAddrs
INVARIANTS
  TypeOK
  PacketFaithful
  OnePipe
  PanicNeedsClosedPipe
PROPERTIES
  ListenReturns
  ReadEnds
  HandoversEnd
  StalePipeEnds
CHECK_DEADLOCK FALSE
