CONSTANTS
  o1 = o1
  OpIds = {o1}
  NoOp = NoOp
  Commands <- TransferCommands
  MaxCommands = 4
  MaxConnections = 1
  Pipelining = FALSE
  Faults = {}
  OpNumModulus = 8
  StartOpNums = {0, 1}
SPECIFICATION Spec
INVARIANT
  IdleTimerRestarted
CHECK_DEADLOCK FALSE
