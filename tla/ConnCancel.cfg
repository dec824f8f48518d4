\* A dial whose ctx is cancelled.
SPECIFICATION FairSpec
CONSTANTS
  MaxDial = 1
  MaxData = 0
  Env = {"cancel"}
PROPERTIES
  DialReturns
CHECK_DEADLOCK FALSE
