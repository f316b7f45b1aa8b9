SPECIFICATION Spec
CONSTANTS
  Base = 3
  TagSize = 2
  Payload <- Messages
  Codecs = {"packet"}
  BufferSizes = {8}
  Overlap = TRUE
INVARIANT PacketsWhole
CHECK_DEADLOCK FALSE
