\* The TCP connection is lost under a stream.
SPECIFICATION FairSpec
CONSTANTS
  MaxDial = 1
  MaxData = 0
  Env = {"break"}
PROPERTIES
  LostConnReleasesTarget
CHECK_DEADLOCK FALSE
