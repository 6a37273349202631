CONSTANTS
  s1 = s1
  s2 = s2
  Sessions = {s1, s2}
  NoSession = NoSession
  w1 = w1
  w2 = w2
  Workers = {w1, w2}
  a = a
  b = b
  Names = {a, b}
  MaxDepth = 2
  MaxCommands = 4
SPECIFICATION Spec
PROPERTY
  AnonymousNeverOverwrites
CHECK_DEADLOCK FALSE
