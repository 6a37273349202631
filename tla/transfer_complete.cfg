CONSTANTS
  MaxTotal = 3
  ReceiveBuffer = 3
  PipeSize = 2
  MaxSpins = 2
  Faults = {"reset"}
SPECIFICATION RecvSpec
INVARIANT TransferCompleteIsTrue
CHECK_DEADLOCK FALSE
