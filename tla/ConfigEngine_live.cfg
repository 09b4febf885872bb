SPECIFICATION FairSpec
CONSTANTS
  net = net
  con = con
  m0 = m0
  m1 = m1
  o1 = o1
  v0 = v0
  v1 = v1
  None = None
  Session <- MCSession
  Network <- MCNetwork
  Obj = {o1}
  Val = {v0, v1}
  Valid <- MCValid
  InitCfg <- MCInit
  Mgmt = {m0, m1}
  Keep = 2
  FaultOps = {}
  MaxFaults = 0
  MaxCrashes = 2
  MaxRev = 3
  ClockSteps = FALSE
PROPERTIES LateConfirmRefused ExpiredIsRolledBack
