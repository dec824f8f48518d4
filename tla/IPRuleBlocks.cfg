\* Every rule set of up to two rules, and the ones read from a file.
SPECIFICATION Spec
CONSTANTS
  W4 = 1
  W6 = 2
  MaxRules = 2
  MaxLines = 2
  FileBits = {0, 2}
INVARIANTS
  TypeOK
  OrderIrrelevant
  BlocksPrefixes
  RoundTrip
  ReachesHost
CHECK_DEADLOCK FALSE
