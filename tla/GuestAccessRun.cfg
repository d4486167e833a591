SPECIFICATION Spec
CONSTANTS
  Guests = {a, b}
  Nobody = Nobody
  MaxTabs = 2
  MaxJoins = 1
  MaxMessages = 3
  MaxEvents = 4
INVARIANTS
  AnsweredNotWaiting
  AloneCalledOnce
PROPERTIES
  TabsKeptApart
SYMMETRY Symmetry
CHECK_DEADLOCK FALSE
