--------------------------- MODULE MCConfigEngine ---------------------------
(* Small instances of ConfigEngine: a session that comes over the network    *)
(* and one on the local console, two management settings, one substrate      *)
(* object with two values.                                                   *)
EXTENDS ConfigEngine

CONSTANTS net, con, m0, m1, o1, v0, v1

MCSession == {net, con}
MCNetwork == {net}
MCInit == [mgmt |-> m0, net |-> [o \in {o1} |-> v0]]
\* changing both settings at once does not validate
MCValid == Config \ {[mgmt |-> m1, net |-> [o \in {o1} |-> v1]]}
MCFaults == {"append", "prune", "setConfirmed", "release"}
=============================================================================
