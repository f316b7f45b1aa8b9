SPECIFICATION FairSpec
CONSTANTS
  TotalSize = 9
  BlockSize = 2
  MaxCorrupt = 2
  Faulty = {"sender", "receiver"}
INVARIANTS TypeOK DoneMeansDelivered NoPanic NoSpuriousFailure
PROPERTIES ImplementsReliableTransfer Completes
CHECK_DEADLOCK FALSE
