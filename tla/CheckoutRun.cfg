SPECIFICATION MCSpec
CONSTANTS
  Keys = {k1}
  Creators = {c1, c2}
  Payers = {p1, p2}
  FirstPayers = {p1}
  Quotes = {q1}
  Modes = {"OWN", "EXTERNAL"}
  MaxNow = 6
  SaveMayFail = FALSE
  ExpirerMayDie = TRUE
  Capacities = {2}
  Deliveries = {d1}
  NoDelivery = NoDelivery
  NoKey = NoKey
  NoOne = NoOne
  NoQuote = NoQuote
  HoldTime = 3
  CheckoutTime = 3
  QuoteTime = 3
  RequestTime = 1
PROPERTIES
  PaidOverReservation
  EveryCheckoutSettles
CHECK_DEADLOCK FALSE
