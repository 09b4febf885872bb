----------------------------- MODULE Statements -----------------------------
(***************************************************************************)
(* A configuration under set and delete statements, as a session sees its  *)
(* candidate.  A scope is a small language: the statements that build the  *)
(* configuration it starts from, and those that are set and deleted.       *)
(***************************************************************************)
EXTENDS Validation

CONSTANT Scopes   \* [base: Seq(words), sets: SUBSET words, deletes: SUBSET words]

VARIABLES tree, scope
vars == <<tree, scope>>

Init ==
    /\ scope \in Scopes
    /\ tree = Replay(scope.base)

Set(s) ==
    /\ tree' = SetStatement(tree, s) /\ tree' # Refused
    /\ UNCHANGED scope
Delete(s) ==
    /\ tree' = DeleteStatement(tree, s) /\ tree' # Refused
    /\ UNCHANGED scope

Next == \/ \E s \in scope.sets : Set(s)
        \/ \E s \in scope.deletes : Delete(s)

Spec == Init /\ [][Next]_vars
-----------------------------------------------------------------------------
(* What the statements promise.                                            *)

\* What no statement can make, or none is shown for; deletes leave it behind.
Inexpressible(t) ==
    LET Alone(p) == Below(t, p) = {p}
        L3(b) == One(t, At(Switches, b, "type")) = "l3"
        Bare(r, i) == LET p == At(Vrfs, r, "l3_interfaces") \o <<i>>
                      IN ~Has(t, Append(p, "acl_in")) /\ ~Has(t, Append(p, "addresses"))
        Port(b, n, f) == Has(t, At(Switches, b, "ports") \o <<n, f>>)
    IN \/ \E p \in DOMAIN t : t[p] = <<>> /\ ~IsElement(p) /\ Alone(p)
       \/ \E u \in Ids(t, Users) : ~Has(t, At(Users, u, "class"))
       \/ Val(t, Vrfs) # SelectSeq(Val(t, Switches), L3) \o SelectSeq(Val(t, Vrfs), LAMBDA r : ~L3(r))
       \/ \E r \in Ids(t, Vrfs) : \/ ~L3(r) /\ Alone(Append(Vrfs, r))
                                  \/ \E i \in Ids(t, At(Vrfs, r, "l3_interfaces")) : Bare(r, i)
       \/ \E b \in Ids(t, Switches) :
              \/ Has(t, At(Switches, b, "cross_connect")) /\ Len(Val(t, At(Switches, b, "ports"))) # 2
              \/ \E n \in Ids(t, At(Switches, b, "ports")) :
                     \/ Port(b, n, "native") /\ ~Port(b, n, "interface")
                     \/ Port(b, n, "trunk") /\ Port(b, n, "container")
       \/ \E m \in Ids(t, Machines) : One(t, At(Machines, m, "serial_console")) = "false"
       \/ \E n \in Ids(t, <<"resource_pools", "cpu", "numa">>) :
              ~Has(t, <<"resource_pools", "cpu", "numa", n, "cores">>)

(* The statements that a valid configuration is shown as make it again on  *)
(* an empty one, in the order they are shown, however many statements      *)
(* were set and deleted before (verifySetStatements).                      *)
Replayable == Valid(tree) /\ ~Inexpressible(tree) => Displayed(tree)

\* Deletes that write values: of a flag, of both values of "vcpu", of the host.
Rewrites(s) ==
    \/ Last(s) = "disable"
    \/ Matches(s, <<"virtual-machine-functions", "*", "serial", "console", "enable">>)
    \/ Matches(s, <<"virtual-machine-functions", "*", "vcpu", "count", "*", "pin", "*">>)
    \/ MatchesHead(s, <<"system", "syslog", "host">>) /\ Len(s) > 4

\* Elements that a delete of one of their leaves makes.
MadeByDelete == {"l3_interfaces", "routes", "ports", "interfaces"}
Named(s) == ToSet(s) \cup {"0.0.0.0/0" : i \in {j \in DOMAIN s : s[j] = "default"}}
Identities(p) == {p[i] : i \in {j \in 2 .. Len(p) : p[j - 1] \in Arrays}}

\* What is new in u is no more than that.
Removes(s, t, u) ==
    u # Refused /\ ~Rewrites(s) =>
        \A f \in Facts(u) \ Facts(t) :
            \/ /\ IsElement(f[1]) /\ f[1][Len(f[1]) - 1] \in MadeByDelete
               /\ Identities(f[1]) \subseteq Named(s)
            \/ \E g \in Facts(t) : g[1] = f[1] /\ f[2] \subseteq g[2]

(* A delete that is accepted removes: it adds no leaf and no value, and at *)
(* most an empty element that it names itself (deleteStatement).           *)
DeletesRemove == \A s \in scope.deletes : Removes(s, tree, DeleteStatement(tree, s))

\* The change of p from t to u is within what the statement s names.
Names(s, p, t, u) ==
    LET keys == [i \in DOMAIN s |-> JsonKey(s[i])]
        Switched == IF Head(p) = "vrfs" THEN Switches \o Tail(p) ELSE p
        Entirely(q) == q = p \/ (Has(t, q) /\ ~Has(u, q))
    IN \/ Identities(p) = {} /\ Head(p) = Head(keys)
       \/ IsPrefix(keys, Switched)
       \/ \E i \in 2 .. Len(p) :
              LET q == SubSeq(p, 1, i)
              IN Identities(q) # {} /\ Identities(q) \subseteq Named(s) /\ Entirely(q)

Within(s, t, u) ==
    u # Refused =>
        \A f \in (Facts(t) \ Facts(u)) \cup (Facts(u) \ Facts(t)) : Names(s, f[1], t, u)

(* A statement that is accepted changes nothing but the objects it names,  *)
(* and removes others only with the object around them that it names.      *)
Confined ==
    /\ \A s \in scope.sets : Within(s, tree, SetStatement(tree, s))
    /\ \A s \in scope.deletes : Within(s, tree, DeleteStatement(tree, s))
=============================================================================
