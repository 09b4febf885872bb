-------------------------------- MODULE Tree --------------------------------
(***************************************************************************)
(* The JSON tree of a configuration, on which set and delete statements    *)
(* work (internal/api/cliexec.go, cli_aliases_net.go).                     *)
(*                                                                         *)
(* A tree is a function from paths to nodes.  A path is the sequence of    *)
(* JSON keys and element identities that leads to a node; a node is a      *)
(* sequence of strings: <<>> for an object, <<v>> for a scalar, the values *)
(* of a list of scalars, the identities of the elements of an array, in    *)
(* order.  Scalars are the words of the statements that set them; zero     *)
(* values are absent, as with omitempty.                                   *)
(***************************************************************************)
EXTENDS SequencesExt

Refused == [p \in {<<"refused">>} |-> <<>>]   \* the statement is an error

Arrays == {"interfaces", "bonds", "virtual_switches", "vrfs", "acls", "rules",
           "port_mirroring", "qos_policies", "ntp", "users", "classes", "ports",
           "l3_interfaces", "routes", "source_pools", "static", "hugepages", "numa",
           "per_dev", "plugins", "virtual_machine_functions", "container_functions",
           "disks"}
Lists == {"dns_servers", "members", "addresses", "allow", "deny", "trunk",
          "isolated_cores", "cores", "params", "ssh_keys", "args"}

Has(t, p) == p \in DOMAIN t
Val(t, p) == IF Has(t, p) THEN t[p] ELSE <<>>
Below(t, p) == {q \in DOMAIN t : IsPrefix(p, q)}
Holds(t, p, id) == id \in ToSet(Val(t, p))

Cut(t, p) == [q \in DOMAIN t \ Below(t, p) |-> t[q]]
Write(t, p, v) == [q \in DOMAIN t \cup {p} |-> IF q = p THEN v ELSE t[q]]

\* ensureObj, along the whole of p.
Open(t, p) == [q \in DOMAIN t \cup {SubSeq(p, 1, i) : i \in 1 .. Len(p)} |-> Val(t, q)]

\* ensureElem, elemByField: the element is made when it is not there.
EnsureElem(t, p, id) ==
    IF Holds(t, p, id) THEN t
    ELSE Write(Write(t, p, Append(Val(t, p), id)), Append(p, id), <<>>)

Without(s, x) == SelectSeq(s, LAMBDA y : y # x)
RemoveElem(t, p, id) == Write(Cut(t, Append(p, id)), p, Without(Val(t, p), id))

\* appendUniqueStr, removeStr.
AddTo(t, p, v) == IF Holds(t, p, v) THEN t ELSE Write(t, p, Append(Val(t, p), v))
TakeFrom(t, p, v) == Write(t, p, Without(Val(t, p), v))

RemoveIfHeld(t, p, id) == IF Holds(t, p, id) THEN RemoveElem(t, p, id) ELSE Refused
-----------------------------------------------------------------------------
(* What becomes of a tree when it is read into the model and written back. *)

\* Fields that keep a zero value: pointers, and flags without omitempty.
KeepsZero(p) == Last(p) \in {"nmi_watchdog", "pin", "serial_console", "numa_node"}
                \/ (Last(p) = "enabled" /\ "interfaces" \in ToSet(p))

\* Structs held by value are never left as empty objects of their own.
ByValue(p) == /\ Last(p) \in {"vcpu", "memory", "action", "source", "dev"}
              /\ Len(p) > 2 \/ Last(p) = "dev"

IsPlural(p) == Last(p) \in Arrays \cup Lists

Dropped(t, p) ==
    \/ t[p] = <<>> /\ IsPlural(p)
    \/ t[p] \in {<<"0">>, <<"false">>, <<"">>} /\ ~IsPlural(p) /\ ~KeepsZero(p)
    \/ t[p] = <<>> /\ ByValue(p) /\ \A q \in Below(t, p) \ {p} : t[q] = <<>>

Normal(t) == [p \in {q \in DOMAIN t : ~Dropped(t, q)} |-> t[p]]

\* pruneEmptySingleton: of the objects left empty, two are removed.
IsShell(t, p) == Has(t, p) /\ \A q \in Below(t, p) \ {p} : t[q] = <<>>
Prune(t) ==
    LET mgmt == <<"system", "management">>
        u == IF IsShell(t, mgmt) THEN Cut(t, mgmt) ELSE t
    IN IF IsShell(u, <<"nat">>) THEN Cut(u, <<"nat">>) ELSE u

(***************************************************************************)
(* model.Diff sees leaves and elements.  Empty objects and the order of    *)
(* elements and of values do not show.                                     *)
(***************************************************************************)
IsElement(p) == Len(p) > 1 /\ p[Len(p) - 1] \in Arrays
Facts(t) == {<<p, ToSet(t[p])>> : p \in {q \in DOMAIN t :
                Last(q) \notin Arrays /\ (t[q] # <<>> \/ IsElement(q))}}
Changed(t, u) == Facts(t) # Facts(u)
=============================================================================
