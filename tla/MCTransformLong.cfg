CONSTANTS
  InLen = 1
  PipeSize = 1
  MaxOut = 3
  MaxErr = 2
  MaxChat = 0
  NoCopy = FALSE
  CanFail = {"prepare", "spawn", "open", "read"}
SPECIFICATION TransformSpec
PROPERTY Returns
CHECK_DEADLOCK FALSE
