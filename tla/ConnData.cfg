\* One stream with two chunks each way, closed, cancelled, ended or reset at
\* any moment.
SPECIFICATION Spec
CONSTANTS
  MaxDial = 1
  MaxData = 2
  Env = {"userClose", "cancel", "dialFail", "targetEOF", "targetReset"}
INVARIANTS
  StreamIntegrity
PROPERTIES
  ImplementsTunnelSteps
CHECK_DEADLOCK FALSE
