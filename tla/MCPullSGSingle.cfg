CONSTANTS
  NumInst = 1
  Attrs = {1, 2}
  NumPos = 3
  SinglePass = TRUE
  SendQueue = 1
  Layouts <- OneInstance
SPECIFICATION FairSpec
CHECK_DEADLOCK FALSE
PROPERTIES Redistributed TerminatesOrPolls
