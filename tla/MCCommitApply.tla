---------------------------- MODULE MCCommitApply ----------------------------
(* Small instances of CommitApply: a vNIC and a bond in a bridge domain with *)
(* an ACL, the VM of the vNIC, a VRF on the vNIC with a static route, NAT over *)
(* the VRF, two interfaces, one of them a DPDK port; and by itself a bond      *)
(* mirrored by a session.                                                      *)
EXTENDS CommitApply, TLC

CONSTANTS vn, bd, vr, rt, nt, ifc, dpk, vm, bo, ac, sp, a, b, abs

MCObj == {vn, bd, vr, rt, nt, bo, ifc, dpk, vm, ac}

AllKinds ==
  vn :> "vnf-if" @@ bd :> "bridge-domain" @@ vr :> "vrf" @@ rt :> "route" @@ nt :> "nat"
  @@ bo :> "bond" @@ ifc :> "interface" @@ dpk :> "interface"
  @@ vm :> "vm" @@ ac :> "acl" @@ sp :> "span"

MCKind == [o \in MCObj |-> AllKinds[o]]
MCOwner == [o \in MCObj |-> vr]

\* Setting a refers to other objects, setting b to none.
MCRefs ==
  [o \in MCObj |-> [v \in {a, b} |->
     IF v = b THEN {}
     ELSE CASE o = bd -> {vn, bo, ac} [] o = vr -> {vn} [] o = nt -> {vr} [] o = vm -> {vn}
            [] o = rt -> {vr} [] OTHER -> {}]]

Conf(v, d, r, s, n, k, i, p, m, c) ==
  vn :> v @@ bd :> d @@ vr :> r @@ rt :> s @@ nt :> n @@ bo :> k @@ ifc :> i @@ dpk :> p
  @@ vm :> m @@ ac :> c

Empty == [o \in MCObj |-> abs]
Bare  == Conf(abs, b,   b,   abs, b,   abs, abs, a,   abs, abs)
Full  == Conf(a,   a,   a,   a,   a,   a,   a,   a,   a,   a)
Moved == Conf(b,   b,   a,   abs, abs, abs, b,   b,   b,   b)
NoVrf == Conf(a,   b,   abs, abs, b,   b,   a,   abs, abs, a)
Lost  == Conf(b,   a,   a,   a,   abs, b,   b,   abs, b,   a)  \* a vNIC on no switch
MCCfg == {Empty, Bare, Full, Moved, NoVrf, Lost}
MCBroken == {Lost}
MCDpdk == {dpk}

\* The mirroring session: it refers to the bond.
SpanObj == {bo, sp}
SpanKind == [o \in SpanObj |-> AllKinds[o]]
SpanOwner == [o \in SpanObj |-> bo]
SpanRefs == [o \in SpanObj |-> [v \in {a, b} |-> IF o = sp THEN {bo} ELSE {}]]
SpanEmpty == [o \in SpanObj |-> abs]
SpanFull == [o \in SpanObj |-> a]
SpanCfg == {SpanEmpty, SpanFull}
=============================================================================
