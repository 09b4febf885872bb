---------------------------- MODULE MCWorkloads -----------------------------
(* One VM, one container, one image of each type and a network object. *)
EXTENDS Workloads

CONSTANTS vm1, ct1, disk1, box1

Vm(extra) == [image |-> disk1, extra |-> extra, auto |-> TRUE]
Cfg(v, c, net) == [vm |-> (vm1 :> v), ct |-> (ct1 :> c), net |-> net]
Ct == [image |-> box1, auto |-> TRUE]

Empty == Cfg(Absent, Absent, 0)
MCConfigs == {Empty, Cfg(Vm(None), Ct, 1), Cfg(Vm(disk1), Absent, 1), Cfg(Absent, Ct, 0)}
=============================================================================
