\* One stream with a chunk each way, closed by its user or not; the Client
\* shuts down and the TCP connection is lost at any moment, in any order.
SPECIFICATION FairSpec
CONSTANTS
  MaxDial = 1
  MaxData = 1
  Env = {"userClose", "break", "shutdown"}
INVARIANTS
  NoOrphanStream
PROPERTIES
  DialReturns
  
  ImplementsTunnelSteps
CHECK_DEADLOCK FALSE
