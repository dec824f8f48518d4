\* One Conn used for two streams in turn; no data, targets that reset or
\* refuse; every goroutine is scheduled fairly.
SPECIFICATION FairSpec
CONSTANTS
  MaxDial = 2
  MaxData = 0
  Env = {"userClose", "targetReset", "dialFail"}
INVARIANTS
  TypeOK
  NoOrphanStream
PROPERTIES
  ImplementsTunnel
CHECK_DEADLOCK FALSE
