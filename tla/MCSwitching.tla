----------------------------- MODULE MCSwitching -----------------------------
(* Two switches, a bond of one or two ports, a vNIC, an ACL, a mirror and a    *)
(* policer; the changes move a port, make the bond anew, retag a switch, and   *)
(* drop what others refer to in the same commit.                               *)
EXTENDS Switching, TLC

CONSTANTS p1, p2, p3, b, v, s1, s2, a, m, q

\* Fourteen interfaces, and three interfaces left behind by each of four events.
MCIndex == 1..27

C(mem, lacp, vn, sw, pa, pb, vl, gw, acl, gd, gb, sp, qos, pol, ll) ==
  [members |-> b :> mem, lacp |-> lacp, vnics |-> vn, switches |-> sw,
   ports |-> s1 :> pa @@ s2 :> pb, vlan |-> s1 :> vl @@ s2 :> 0, gw |-> gw, acls |-> acl,
   guard |-> p1 :> gd @@ p2 :> None @@ p3 :> None @@ b :> gb, spans |-> m :> sp,
   qos |-> qos, policy |-> p1 :> pol @@ p2 :> None @@ p3 :> None, lldp |-> ll]

Full  == C({p2}, {}, {v}, {s1, s2}, {p1, b}, {v}, 0, {s1}, {a}, a, None, <<p1, p3>>, {q}, q, {p1})
Bare  == C({}, {}, {}, {s2}, {}, {p1}, 0, {}, {}, None, None, None, {}, None, {})
Tag   == C({p2, p3}, {b}, {v}, {s1, s2}, {p1, b}, {v}, 1, {s1}, {a}, a, None, None, {q}, None, {p1, p2})
Mode  == C({p2, p3}, {}, {v}, {s1, s2}, {p1, b}, {v}, 1, {s1, s2}, {a}, a, None, None, {q}, None, {p1, p2})
Swap  == C({p2}, {b}, {v}, {s1, s2}, {b, v}, {p1}, 0, {}, {a}, a, a, <<b, p3>>, {}, None, {})
MCCfg == {Full, Bare, Tag, Mode, Swap}
=============================================================================
