SPECIFICATION FairSpec
CONSTANTS
  Deliveries = {d1}
  Orders = {o1, o2}
  Drivers = {x}
  Handlers = {h1, h2}
  NoDriver = NoDriver
  NoDelivery = NoDelivery
  MaxVersion = 5
  Reports = {"IN_TRANSIT", "DELIVERED"}
  MayDie = TRUE
INVARIANT SlotUntilTheEnd
PROPERTIES TerminalKept DeliverySettles
CHECK_DEADLOCK FALSE
