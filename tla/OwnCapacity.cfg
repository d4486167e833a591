SPECIFICATION FairSpec
CONSTANTS
  Keys = {k1, k2, k3}
  Deliveries = {d1}
  NoDelivery = NoDelivery
  NoKey = NoKey
  HoldTime = 1
  MaxNow = 2
  Capacities = {0, 1, 2}
INVARIANT TypeOK
PROPERTIES
  NoOvercommit
  ConfirmedHeldWithinWindow
  ImplementsPool
  HoldsLapse
CHECK_DEADLOCK FALSE
