CONSTANTS
  o1 = o1
  o2 = o2
  OpIds = {o1, o2}
  NoOp = NoOp
  Commands <- AllCommands
  MaxCommands = 8
  MaxConnections = 2
  Pipelining = FALSE
  Faults <- AllButPipe
  OpNumModulus = 8
  StartOpNums = {0}
SYMMETRY Symmetry
SPECIFICATION Spec
INVARIANTS
  ExclusiveDataSocket
  NoProcessEnd
PROPERTY
  ImplementsReplyChannel
CHECK_DEADLOCK FALSE
