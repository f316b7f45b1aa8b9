SPECIFICATION FairSpec
CONSTANTS
  Base = 3
  TagSize = 2
  Payload <- Messages
  Codecs = {"packet", "noise"}
  BufferSizes = {5, 6, 7, 8}
  Overlap = FALSE
INVARIANTS MessagesIntact FailureHasCause
PROPERTIES AllMessagesRead
CHECK_DEADLOCK FALSE
