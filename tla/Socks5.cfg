\* One client at a time, of every kind, that may leave between any two bytes,
\* while accounts change and the server is shut down.
SPECIFICATION FairSpec
CONSTANTS
  Conns = {c1}
  Scripts <- MCScripts
  Accounts <- MCAccounts
  MaxDown = 1
INVARIANTS
  TypeOK
  RelayFaithful
  RepliesInOrder
PROPERTIES
  HandleReturns
  ShutdownStopsServe
CHECK_DEADLOCK FALSE
