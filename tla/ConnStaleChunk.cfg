\* Two streams in turn on one Conn, a chunk each way.
SPECIFICATION Spec
CONSTANTS
  MaxDial = 2
  MaxData = 1
  Env = {"userClose"}
INVARIANTS
  StreamIntegrity
CHECK_DEADLOCK FALSE
