SPECIFICATION MCSpec
CONSTANTS
  Places = {p1}
  TwoPlaces = {p1, p2}
  NoPlace = NoPlace
  Carts = {c1, c2}
  NoCart = NoCart
  AddressLimit = 1
  MaxAddresses = 1
  MaxBatches = 2
  Payments = {y1}
  Unpaid = Unpaid
  MaxEdits = 0
  MaxFaults = 1
  BatchOrders = {1, 2}
  Reqs = {r1, r2}
  NoOrder = 0
  MaxOps = 4
INVARIANTS
  GoesWhereConfirmed
  SyncedBatchTrue
PROPERTIES
  ToldWhenReady
CHECK_DEADLOCK FALSE
