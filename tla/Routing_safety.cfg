SPECIFICATION Spec
CONSTANTS
  t1 = t1
  t2 = t2
  t3 = t3
  p = p
  o = o
  v = v
  sub1 = sub1
  None = None
  Default = Default
  Table = {t1, t2, t3}
  Iface <- MCIface
  Sub = {}
  Vnic <- MCVnic
  Cfg <- MCCfg
  Init0 <- Full
  MaxEvents = 2
INVARIANTS Converged NatServed LeftoversKnown
PROPERTIES DeletionSpares DeferralEnds
CHECK_DEADLOCK FALSE
