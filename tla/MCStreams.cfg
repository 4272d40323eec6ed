\* One session of each kind.
SPECIFICATION FairSpec
CONSTANTS
  Kinds = {"console", "server", "app"}
  OutCap = 1
  InCap = 1
  SnapCap = 1
  LineCap = 1
  MaxMessages = 3
  MaxOutput = 3
  MaxStreams = 2
INVARIANTS NoSendOnClosed
PROPERTIES EveryGoroutineEnds ExitEndsSession
CHECK_DEADLOCK FALSE
