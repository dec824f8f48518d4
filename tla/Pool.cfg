\* Two dials that share two Conns, or a packet pipe and a ping; Conns break in
\* any status; a Shutdown at any moment; every goroutine is scheduled.
SPECIFICATION FairSpec
CONSTANTS
  c1 = c1
  c2 = c2
  Call = {c1, c2}
  Mix <- MCMix
  Breaks = {"Idle", "stream", "packet"}
  MaxIdleConn = 1
  MaxConn = 2
INVARIANTS
  TypeOK
  OneOwner
  WatchedConnInPool
  ShutdownDrains
PROPERTIES
  CallReturns
  ShutdownReturns
CHECK_DEADLOCK FALSE
