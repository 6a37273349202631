CONSTANTS
  o1 = o1
  OpIds = {o1}
  NoOp = NoOp
  Commands <- TransferCommands
  MaxCommands = 4
  MaxConnections = 1
  Pipelining = FALSE
  Faults = {}
  OpNumModulus = 8
  StartOpNums = {0}
SPECIFICATION FairSpec
PROPERTY
  FinishedSessionDestroyed
CHECK_DEADLOCK FALSE
