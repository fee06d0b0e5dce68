CONSTANTS
  InLen = 1
  PipeSize = 1
  MaxOut = 1
  MaxErr = 2
  MaxChat = 0
  NoCopy = TRUE
  CanFail = {}
SPECIFICATION TransformSpec
INVARIANT OriginalKept
CHECK_DEADLOCK FALSE
