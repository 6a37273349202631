CONSTANTS
  o1 = o1
  OpIds = {o1}
  NoOp = NoOp
  Commands <- TransferCommands
  MaxCommands = 4
  MaxConnections = 1
  Pipelining = TRUE
  Faults <- AllFaults
  OpNumModulus = 8
  StartOpNums = {0}
SPECIFICATION FairSpec
PROPERTIES
  IdleSessionCloses
  RepliesDrain
  StoppedSessionEnds
CHECK_DEADLOCK FALSE
