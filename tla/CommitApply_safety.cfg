SPECIFICATION Spec
CONSTANTS
  vn = vn
  bd = bd
  vr = vr
  rt = rt
  nt = nt
  ifc = ifc
  dpk = dpk
  vm = vm
  bo = bo
  ac = ac
  sp = sp
  a = a
  b = b
  abs = abs
  Absent = abs
  Partial = partial
  Val = {a, b}
  Obj <- MCObj
  Kind <- MCKind
  Owner <- MCOwner
  Refs <- MCRefs
  Cfg <- MCCfg
  Broken <- MCBroken
  Init0 <- Full
  Dpdk <- MCDpdk
  MaxFaults = 2
  MaxCommits = 3
INVARIANTS ResidueKnown RefsLive
PROPERTY SuccessConverges
CHECK_DEADLOCK FALSE
