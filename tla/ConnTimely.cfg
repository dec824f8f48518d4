\* One Conn used for two streams in turn, with a chunk each way; targets that
\* reset or refuse; until a chunk comes to the client late.
SPECIFICATION TimelySpec
CONSTANTS
  MaxDial = 2
  MaxData = 1
  Env = {"userClose", "targetReset", "dialFail"}
INVARIANTS
  PipeTarget
  StreamServed
PROPERTIES
  SessionsAreTunnel
CHECK_DEADLOCK FALSE
