SPECIFICATION FairSpec
CONSTANTS
  Orders = {1, 2}
  Payments = {1, 2}
  Guests = {g}
  Staff = {s}
  Chats = {c}
  Workers = {w}
  NoPayment = NoPayment
  MaxOps = 2
  MaxWebhooks = 1
INVARIANTS ConfirmedWasApproved
PROPERTIES ClosesBilled PageHears
CHECK_DEADLOCK FALSE
