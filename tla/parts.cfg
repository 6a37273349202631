CONSTANTS
  Lines <- SomeLines
  Separators <- SomeSeparators
  MaxLines = 4
  MaxPending = 2
  anonymous_enable = TRUE
  w1 = w1
  w2 = w2
  Workers = {w1, w2}
  a = a
  b = b
  Entries = {a, b}
  Directories = {b}
  MaxListings = 2
  MaxRemovals = 1
  Addresses <- SomeAddresses
  Ports <- SomePorts
  MaxPasv = 3
  MaxOdd = 1
SPECIFICATION MCSpec
INVARIANTS
  LoginIsWhatLinesSay
  TypeIsWhatLinesSay
  TargetListens
  TimeIsOwn
PROPERTIES
  EveryLineAnswered
  ReadIsFinal
CHECK_DEADLOCK FALSE
