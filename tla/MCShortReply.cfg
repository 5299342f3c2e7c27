SPECIFICATION WireSpec
CONSTANTS
  Sizes = {1}
  Padding = 2
INVARIANTS
  ShortReplyReadsZero
CHECK_DEADLOCK FALSE
