SPECIFICATION MCSpec
SYMMETRY Symmetry
CONSTANTS
  Hands = {h1, h2}
  Recharges = {r1}
  Amount = 2
  Window = 2
  Starts = {1}
  MaxMessages = 2
  MaxNotices = 2
  MaxPolls = 1
  MaxSaves = 1
  MaxPages = 2
  MaxStarted = 3
  MaxMonth = 3
  Desks = {d1, d2}
  Users = {1, 2, 3}
  Emails = {1, 2, 3}
  Roles = {"ADMIN", "MANAGER", "WAITER"}
  Restaurants = {a, b}
  MaxPassword = 3
  MaxRequests = 3
INVARIANT BalanceIsTheLedger
PROPERTIES ClosedMonthsStand AdminRemains RevocationsHold
CHECK_DEADLOCK FALSE
