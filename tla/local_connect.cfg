SPECIFICATION FairSpec
CONSTANTS
  Calls = {1, 2}
  Datagrams = {1, 2}
  Accepts = {1, 2}
  Readers = {1, 2}
  Buffer = 2
  MayCancel = {1}
  Worlds <- TwiceOrTwo
  MaxEnded = 1
INVARIANTS CallsKeptApart ConnectMeansGranted
PROPERTIES ResponderReleases ConnectEnds RequestIsServed
CHECK_DEADLOCK FALSE
