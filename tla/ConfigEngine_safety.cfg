SPECIFICATION Spec
CONSTANTS
  net = net
  con = con
  m0 = m0
  m1 = m1
  o1 = o1
  v0 = v0
  v1 = v1
  None = None
  Session <- MCSession
  Network <- MCNetwork
  Obj = {o1}
  Val = {v0, v1}
  Valid <- MCValid
  InitCfg <- MCInit
  Mgmt = {m0, m1}
  Keep = 3
  FaultOps <- MCFaults
  MaxFaults = 1
  MaxCrashes = 2
  MaxRev = 4
  ClockSteps = TRUE
INVARIANTS PendingBaseRetained CandidateHoldsLock CleanCandidateIsCommitted IntentPaired HistoryRetained AppliedBeforeStored
PROPERTY ImplementsConfirmedCommit
