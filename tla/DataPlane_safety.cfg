SPECIFICATION Spec
CONSTANTS
  p0 = p0
  p1 = p1
  p2 = p2
  c1 = c1
  c2 = c2
  None = None
  Port = {p0, p1, p2}
  Mgmt = p0
  Client = {c1, c2}
  Cfg <- MCCfg
  Init0 <- Huge
  MaxEvents = 3
INVARIANTS PendingHonest CardsKept CardsRecorded
PROPERTIES RestartRecovered
CHECK_DEADLOCK FALSE
