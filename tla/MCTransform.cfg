CONSTANTS
  InLen = 2
  PipeSize = 1
  MaxOut = 2
  MaxErr = 2
  MaxChat = 1
  NoCopy = FALSE
  CanFail = {"prepare", "spawn", "open", "read"}
SPECIFICATION TransformSpec
INVARIANTS
  HashSound
  NothingLeftBehind
PROPERTY Returns
CHECK_DEADLOCK FALSE
