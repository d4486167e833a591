SPECIFICATION MCSpec
CONSTANTS
  Orders = {1}
  Reqs = {r1, r2}
  NoOrder = 0
  MaxOps = 2
  MaxDrops = 1
  MaxPolls = 2
  ChanCap = 1
  Watched = TRUE
  Timers = {}
  NoPlace = NoPlace
  MaxVersions = 3
  MaxClock = 2
  MaxSamples = 1
  MaxAnswers = 1
  MaxSend = 1
  MaxSeen = 1
  MaxMishaps = 1
  EstimateTimers = {j1, j2}
  EstimateClock = 3
  EstimateSamples = 2
INVARIANTS
  BoardTrueWhileHeard
  EstimateOfNewest
PROPERTIES
  PollingBoardTrue
  PageSettles
CHECK_DEADLOCK FALSE
