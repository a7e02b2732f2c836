CONSTANTS
  NumInst = 2
  Attrs = {1}
  NumPos = 2
  SinglePass = FALSE
  SendQueue = 1
  Layouts <- TwoInstances
SPECIFICATION FairSpec
CHECK_DEADLOCK FALSE
INVARIANTS CachesBounded AnswersExpected NothingStray
PROPERTIES Redistributed Terminates
