------------------------------ MODULE MCRouting ------------------------------
(* A switch t1 with a port and a vNIC, a switch t2 with the port to the outside, *)
(* NAT from the first to the second; changes that move the outside port to the   *)
(* switch t3, drop NAT, drop a switch, and move the vNIC.                        *)
EXTENDS Routing, TLC

CONSTANTS t1, t2, t3, p, o, v, sub1

MCIface == {p, o, v}
MCVnic == {v}

L3(a, b, c) == t1 :> a @@ t2 :> b @@ t3 :> c
Home(t) == v :> t
NatOver(pool) == [vs |-> t1, out |-> o, pool |-> pool]
C(vrfs, l3, ports, home, nat) ==
  [vrfs |-> vrfs, l3 |-> l3, ports |-> ports, home |-> home, nat |-> nat]

Full   == C({t1, t2}, L3({p}, {o}, {}), {}, Home(None), NatOver(TRUE))
Moved  == C({t1, t3}, L3({p}, {}, {o}), {v}, Home(t1), NatOver(FALSE))
Plain  == C({t2},     L3({}, {o, p}, {}), {v}, Home(t2), None)
Bare   == C({t1, t2}, L3({v}, {o}, {}), {v}, Home(t1), None)
MCCfg == {Full, Moved, Plain, Bare}

\* A change of a switch that fails beside one that is dropped later.
Drop  == C({t2},     L3({}, {o}, {}), {}, Home(None), None)
DeletionCfg == {Full, Plain, Drop}

\* A switch on a VLAN sub-interface.
SubIface == {p, sub1}
Vlan == C({t1}, L3({sub1}, {}, {}), {}, << >>, None)
SubCfg == {Vlan}

\* A switch that NAT has used is dropped and declared again, with a VLAN sub-interface
\* that a refused change then moves to the other switch.
Pooled == C({t1, t2}, L3({}, {p}, {}), {}, << >>, [vs |-> t1, out |-> p, pool |-> TRUE])
ResidueCfg ==
  {Pooled, C({t2}, L3({}, {p}, {}), {}, << >>, None),
   C({t1, t2}, L3({sub1}, {p}, {}), {}, << >>, None),
   C({t1, t2}, L3({}, {p, sub1}, {}), {}, << >>, None)}

\* A vNIC of one switch that is an interface of another.
Guest == C({t1, t2}, L3({}, {v}, {}), {v}, Home(t1), None)
GuestCfg == {Guest}
=============================================================================
