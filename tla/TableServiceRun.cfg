SPECIFICATION FairSpec
CONSTANTS
  Tables = {1, 2}
  Tabs = {a, b}
  Requests = {r}
  Links = {k, l}
  Staff = {s1, s2}
  Workers = {w, v}
  NoTable = NoTable
  NoTab = NoTab
  NoRequest = NoRequest
  MaxEvents = 2
  MaxCrashes = 1
  MaxOps = 2
INVARIANTS OneTabPerRequest OneLiveLink

PROPERTY TableWorkEnds
CHECK_DEADLOCK FALSE
