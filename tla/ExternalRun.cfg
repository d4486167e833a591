SPECIFICATION MCSpec
CONSTANTS
  Workers = {w1}
  Overlapping = {w1, w2}
  Admins = {m1}
  AttemptsPerCycle = 2
  MaxCycle = 2
  MaxNow = 4
  Reports = {"FAILED"}
  NoAttempt = NoAttempt
  MayDie = FALSE
  CallMayBeLost = FALSE
INVARIANTS AttemptCalledOnce
PROPERTIES SuccessStopsCycle EveryCycleConcludes
CHECK_DEADLOCK FALSE
