CONSTANTS
  c1 = c1
  Clients = {c1}
  thread_num = 1
  MaxFile = 3
SPECIFICATION FairSpec
INVARIANTS
  SuccessIsComplete
  CrashHasCause
PROPERTIES
  ReplyAnswersRequest
  AnswerOrTimeout
CHECK_DEADLOCK FALSE
