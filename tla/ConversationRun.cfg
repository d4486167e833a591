SPECIFICATION FairSpec
CONSTANTS
  Outs = {1}
  Processors = {p}
  NoOut = 0
  MaxAttempts = 2
  MaxFaults = 1
  Messages = {1}
  Inputs = {3}
  Texts = {"0", "1", "2", "3", "code"}
  MaxUnits = 2
  Nobody = 0
INVARIANTS OneOrderPerMessage AloneOrderedOnce SentOnce
PROPERTIES ConversationSettles
CHECK_DEADLOCK FALSE
