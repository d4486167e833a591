SPECIFICATION OrderingSpec
CONSTANTS
  Categories = {"food", "drinks"}
  Items = {"soup", "drink"}
  Menus <- ThreeMenus
  MostAsked = 2
  MaxUnits = 2
  MaxLines = 2
  MaxMenuEdits = 1
  NoItem = NoItem
  NoCategory = NoCategory
  NoLine = NoLine
INVARIANTS AnswerMeansWhatWasAsked FreshLineOrderable
PROPERTY PricedAsShown
CHECK_DEADLOCK FALSE
