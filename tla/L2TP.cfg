SPECIFICATION Spec
CONSTANTS
  Words = {0, 65535}
  AVPLists <- MCAVPLists
  Offsets = {0, 1, 65535}
  Lengths = {0, 3, 7, 8, 11, 12, 18, 65535}
  Cuts = {0, 1, 4, 7, 9}
  MaxCopies = 2
INVARIANTS
  TypeOK
  RoundTrip
  RepliesMatch
  Survives
CHECK_DEADLOCK FALSE
