CONSTANTS
  o1 = o1
  o2 = o2
  OpIds = {o1, o2}
  NoOp = NoOp
  Commands <- TransferCommands
  MaxCommands = 5
  MaxConnections = 1
  Pipelining = TRUE
  Faults <- AllFaults
  OpNumModulus = 8
  StartOpNums = {0}
SYMMETRY Symmetry
SPECIFICATION Spec
INVARIANTS
  WriteDiscipline
  IdleTimerHeld
  IdleTimerRestarted
  OperationsHeld
  KeepaliveHasReason
PROPERTIES
  IdleCloseOnlyWhenQuiet
  CleanTeardown
  KeptForTransfers
CHECK_DEADLOCK FALSE
