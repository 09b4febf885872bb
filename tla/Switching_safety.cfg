SPECIFICATION Spec
CONSTANTS
  p1 = p1
  p2 = p2
  p3 = p3
  b = b
  v = v
  s1 = s1
  s2 = s2
  a = a
  m = m
  q = q
  None = None
  Phys = {p1, p2, p3}
  Bond = {b}
  Vnic = {v}
  Switch = {s1, s2}
  Acl = {a}
  Span = {m}
  Qos = {q}
  Vlan = {0, 1}
  Index <- MCIndex
  Cfg <- MCCfg
  Init0 <- Full
  MaxEvents = 4
INVARIANTS Bridged Filtered Policed
PROPERTIES RecoveryConverges
CHECK_DEADLOCK FALSE
