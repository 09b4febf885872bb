----------------------------- MODULE MCDataPlane -----------------------------
(* Two cards besides the management port, of which the first is DPDK's; a      *)
(* section with hugepages, one without, and none at all.                       *)
EXTENDS DataPlane, TLC

CONSTANTS p0, p1, p2, c1, c2

Huge  == [devs |-> {p1}, huge |-> TRUE]
Both  == [devs |-> {p1, p2}, huge |-> FALSE]
MCCfg == {Huge, Both, NoSection}
=============================================================================
