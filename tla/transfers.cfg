CONSTANTS
  MaxLength = 3
  Limits = {0, 1}
  Kilobyte = 2
  time_splice = 2
  SendBuffer = 2
  MaxTotal = 4
  ReceiveBuffer = 3
  PipeSize = 2
  MaxSpins = 1
  Faults = {"reset", "disk"}
SPECIFICATION FairSpec
INVARIANTS
  RateLimited
  NothingLeftBehind
PROPERTIES
  DownloadEnds
  CompleteIsDelivered
  StorEnds
  FailureIsFinal
  RetrIsTransfer
  StorIsTransfer
CHECK_DEADLOCK FALSE
