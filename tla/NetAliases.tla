----------------------------- MODULE NetAliases -----------------------------
(***************************************************************************)
(* Statements on networks that do not follow the statement tree           *)
(* (internal/api/cli_aliases_net.go, and the port statements of            *)
(* cliexec.go).  t is the configuration, s the words of the statement, set *)
(* is FALSE for delete; the result is the configuration after it.          *)
(***************************************************************************)
EXTENDS Parser

\* patternMatches, for patterns without and with a final "**".
Matches(s, pattern) ==
    Len(s) = Len(pattern) /\ \A i \in DOMAIN s : pattern[i] \in {"*", s[i]}
MatchesHead(s, pattern) ==
    Len(s) >= Len(pattern) /\ Matches(SubSeq(s, 1, Len(pattern)), pattern)

From(s, i) == SubSeq(s, i, Len(s))
Pairs(s) == [i \in 1 .. Len(s) \div 2 |-> <<s[2 * i - 1], s[2 * i]>>]
Paired(s) == Len(s) % 2 = 0

\* The statement goes on only when what came before it was accepted.
Then(u, v) == IF u = Refused THEN Refused ELSE v

Leaf(t, p, w, set) == IF set THEN Write(t, p, <<w>>) ELSE Cut(t, p)
NumLeaf(t, p, w, set) == IF set /\ w \notin Numbers THEN Refused ELSE Leaf(t, p, w, set)

\* elemByID: an element that has to be there.
InElem(t, p, id, u) == IF Holds(t, p, id) THEN u ELSE Refused
-----------------------------------------------------------------------------
Switches == <<"virtual_switches">>
Vrfs == <<"vrfs">>
Switch(s) == <<"virtual_switches", s[2]>>
Vrf(s) == <<"vrfs", s[2]>>

\* aliasVSType.  An L3 switch and the VRF of its name come and go together.
VSType(t, s, set) ==
    LET typed == Write(EnsureElem(t, Switches, s[2]), Append(Switch(s), "type"), <<s[4]>>)
    IN IF set THEN IF s[4] = "l3" THEN EnsureElem(typed, Vrfs, s[2])
                   ELSE RemoveElem(typed, Vrfs, s[2])
       ELSE InElem(t, Switches, s[2],
                   RemoveElem(Cut(t, Append(Switch(s), "type")), Vrfs, s[2]))

\* pruneVSwitchVrf, after every delete: t before it, u after it.
SlipPruneVrfs(t, u) ==   \* every VRF without a switch, not those of the switches deleted
    FoldLeft(LAMBDA v, r : RemoveElem(v, Vrfs, r), u,
             SelectSeq(Val(u, Vrfs), LAMBDA r : ~Holds(u, Switches, r)))
PruneVrfs(t, u) ==
    FoldLeft(LAMBDA v, b : RemoveElem(v, Vrfs, b), u,
             SelectSeq(Val(t, Switches), LAMBDA b : ~Holds(u, Switches, b)))

VSGatewayIP(t, s, set) ==
    LET gw == Append(Switch(s), "gateway")
    IN InElem(t, Switches, s[2],
         IF set THEN AddTo(Open(t, gw), Append(gw, "addresses"), s[5])
         ELSE IF Has(t, gw) THEN TakeFrom(t, Append(gw, "addresses"), s[5])
         ELSE Refused)

\* "vlan access <v>", with and without the value.
VSVlanAccess(t, s, set) ==
    LET p == Append(Switch(s), "vlan_access")
    IN InElem(t, Switches, s[2], IF Len(s) = 4 THEN Cut(t, p) ELSE NumLeaf(t, p, s[5], set))

VSCrossConnect(t, s, set) ==
    LET p == Append(Switch(s), "cross_connect")
        ports == Val(t, Append(Switch(s), "ports"))
    IN InElem(t, Switches, s[2],
         IF ~set THEN Cut(t, p)
         ELSE IF Len(s) = 5 /\ Len(ports) = 2 /\ {s[4], s[5]} = ToSet(ports)
              THEN Write(t, p, <<"true">>)
         ELSE Refused)

\* portElem: the port is made when it is not there, also by a delete.
InPort(t, s, Put(_, _)) ==
    LET ports == Append(Switch(s), "ports")
    IN InElem(t, Switches, s[2],
         IF ~Holds(t, ports, s[4]) /\ s[4] \notin Numbers THEN Refused
         ELSE Put(EnsureElem(t, ports, s[4]), Append(ports, s[4])))

Member(t, port, kind, names) ==
    IF kind = "interface" THEN Write(t, Append(port, kind), <<names[1]>>)
    ELSE Write(Write(t, Append(port, kind), <<names[1]>>),
               Append(port, kind \o "_interface"), <<names[2]>>)

PortTrunk(t, s, set, kind) ==
    LET names == IF kind = "interface" THEN <<s[6]>> ELSE <<s[6], s[8]>>
        Put(u, port) ==
            IF ~set THEN Cut(u, Append(port, "trunk"))
            ELSE IF Last(s) \notin DOMAIN CoreList THEN Refused
            ELSE Write(Member(u, port, kind, names), Append(port, "trunk"), CoreList[Last(s)])
    IN InPort(t, s, Put)

PortNative(t, s, set) ==
    LET Put(u, port) ==
            IF ~set THEN Cut(u, Append(port, "native"))
            ELSE NumLeaf(Member(u, port, "interface", <<s[6]>>), Append(port, "native"),
                         s[8], set)
    IN InPort(t, s, Put)

\* aliasPortVnfMember, aliasPortContainerMember: without the interface, the
\* statement removes the member, set or not.
PortMember(t, s, set, kind) ==
    LET Put(u, port) ==
            IF set /\ Len(s) = 8 THEN Member(u, port, kind, <<s[6], s[8]>>)
            ELSE Cut(Cut(u, Append(port, kind)), Append(port, kind \o "_interface"))
    IN InPort(t, s, Put)
-----------------------------------------------------------------------------
(* L3 interfaces and static routes live in the VRF of the switch's name.   *)

\* l3VrfOf: set makes it, whether or not there is such a switch.
InVrf(t, s, set, Put(_)) ==
    IF set THEN Put(EnsureElem(t, Vrfs, s[2])) ELSE InElem(t, Vrfs, s[2], Put(t))

L3Interface(s) == <<"vrfs", s[2], "l3_interfaces", s[4]>>
Prefix(s) == IF s[4] = "default" THEN "0.0.0.0/0" ELSE s[4]
Route(s) == <<"vrfs", s[2], "routes", Prefix(s)>>

L3InterfaceAddr(t, s, set) ==
    LET p == Append(L3Interface(s), "addresses")
        Put(u) == LET v == EnsureElem(u, Append(Vrf(s), "l3_interfaces"), s[4])
                  IN IF set THEN AddTo(v, p, s[7]) ELSE TakeFrom(v, p, s[7])
    IN InVrf(t, s, set, Put)

L3InterfaceAclIn(t, s, set) ==
    LET Put(u) == Leaf(EnsureElem(u, Append(Vrf(s), "l3_interfaces"), s[4]),
                       Append(L3Interface(s), "acl_in"), s[6], set)
    IN InVrf(t, s, set, Put)

L3InterfaceDel(t, s, set) ==
    IF set THEN Refused
    ELSE InElem(t, Vrfs, s[2], RemoveIfHeld(t, Append(Vrf(s), "l3_interfaces"), s[4]))

StaticRoute(t, s, set) ==
    LET p == Append(Route(s), "next_hop")
        Put(u) == IF ~set /\ ~Has(u, p) THEN Refused
                  ELSE Leaf(EnsureElem(u, Append(Vrf(s), "routes"), Prefix(s)), p, s[6], set)
    IN InVrf(t, s, set, Put)

StaticRouteDistance(t, s, set) ==
    LET Put(u) == NumLeaf(EnsureElem(u, Append(Vrf(s), "routes"), Prefix(s)),
                          Append(Route(s), "distance"), s[6], set)
    IN InVrf(t, s, set, Put)

StaticRouteBoth(t, s, set) ==
    LET u == StaticRoute(t, SubSeq(s, 1, 6), set)
    IN Then(u, StaticRouteDistance(u, SubSeq(s, 1, 4) \o From(s, 7), set))

StaticRouteBothRev(t, s, set) ==
    LET u == StaticRouteDistance(t, SubSeq(s, 1, 6), set)
    IN Then(u, StaticRoute(u, SubSeq(s, 1, 4) \o From(s, 7), set))

StaticRouteDel(t, s, set) ==
    IF set THEN Refused
    ELSE InElem(t, Vrfs, s[2], RemoveIfHeld(t, Append(Vrf(s), "routes"), Prefix(s)))
-----------------------------------------------------------------------------
AclWords == "source" :> "source" @@ "destination" :> "destination"
            @@ "protocol" :> "protocol" @@ "action" :> "action"
            @@ "direction" :> "direction" @@ "source-port" :> "source_port"
            @@ "destination-port" :> "destination_port"

AclRule(t, s, set) ==
    LET rules == <<"acls", s[2], "rules">>
        pairs == Pairs(From(s, 5))
        made == EnsureElem(EnsureElem(t, <<"acls">>, s[2]), rules, s[4])
    IN IF Len(s) = 3 THEN Refused
       ELSE IF ~set THEN InElem(t, <<"acls">>, s[2], RemoveIfHeld(t, rules, s[4]))
       ELSE IF \/ ~Paired(From(s, 5)) \/ s[4] \notin Numbers
               \/ \E i \in DOMAIN pairs : pairs[i][1] \notin DOMAIN AclWords
            THEN Refused
       ELSE FoldLeft(LAMBDA u, kv :
                         Write(u, rules \o <<s[4], AclWords[kv[1]]>>, <<kv[2]>>), made, pairs)

NatPools == <<"nat", "source_pools">>
NatRules == <<"nat", "rules">>
NatPool(t, s, set) ==
    IF set THEN Write(EnsureElem(Open(t, <<"nat">>), NatPools, s[3]),
                      NatPools \o <<s[3], "address_range">>, <<s[5], s[7]>>)
    ELSE RemoveIfHeld(t, NatPools, s[3])
NatPoolDel(t, s, set) == RemoveIfHeld(t, NatPools, s[3])

\* The leaves that the words after the number of a rule name, with values.
NoLeaf == <<<<"unknown">>, "">>
RECURSIVE NatLeaves(_)
NatLeaves(w) ==
    LET Named(p, v, i) ==
            IF Len(w) < i - 1 THEN <<NoLeaf>> ELSE <<<<p, w[v]>>>> \o NatLeaves(From(w, i))
        second == IF Len(w) > 1 THEN w[2] ELSE ""
    IN CASE w = <<>> -> <<>>
         [] MatchesHead(w, <<"match">>) /\ second = "source" -> Named(<<"match_source">>, 3, 4)
         [] MatchesHead(w, <<"source">>) -> Named(<<"match_source">>, 2, 4)
         [] MatchesHead(w, <<"virtual-switch">>) -> Named(<<"virtual_switch">>, 2, 3)
         [] MatchesHead(w, <<"action">>) /\ second = "source-pool" ->
              Named(<<"action", "source_pool">>, 3, 4)
         [] MatchesHead(w, <<"action">>) /\ second = "interface" ->
              Named(<<"action", "interface">>, 3, 4)
         [] MatchesHead(w, <<"source-pool">>) -> Named(<<"action", "source_pool">>, 2, 3)
         [] MatchesHead(w, <<"interface">>) -> Named(<<"action", "interface">>, 2, 3)
         [] OTHER -> <<NoLeaf>>

\* clearNatRuleLeaves.
NatClear(t, rule, leaves) ==
    FoldLeft(LAMBDA u, kv : IF u # Refused /\ Has(u, rule \o kv[1])
                            THEN Cut(u, rule \o kv[1]) ELSE Refused, t, leaves)

NatRule(t, s, set) ==
    LET leaves == NatLeaves(From(s, 4))
        rule == Append(NatRules, s[3])
        made == Open(EnsureElem(Open(t, <<"nat">>), NatRules, s[3]), Append(rule, "action"))
    IN IF Len(s) = 2 \/ (set /\ s[3] \notin Numbers) THEN Refused
       ELSE IF ~set /\ Len(s) = 3 THEN RemoveIfHeld(t, NatRules, s[3])
       ELSE IF NoLeaf \in ToSet(leaves) THEN Refused
       ELSE IF ~set THEN InElem(t, NatRules, s[3], NatClear(t, rule, leaves))
       ELSE FoldLeft(LAMBDA u, kv : Write(u, rule \o kv[1], <<kv[2]>>), made, leaves)

NatStatic(t, s, set) ==
    LET static == <<"nat", "static">>
    IN IF set THEN Write(EnsureElem(Open(t, <<"nat">>), static, s[3]),
                         static \o <<s[3], "outside_ip">>, <<s[5]>>)
       ELSE RemoveIfHeld(t, static, s[3])
-----------------------------------------------------------------------------
Mirrors == <<"port_mirroring">>

\* After "vnf" an interface is one of the VNF, before it one of the host.
MirrorWord(t, source, kv) ==
    LET key == IF kv[1] = "interface" /\ Has(t, Append(source, "vnf"))
               THEN "vnf_interface" ELSE kv[1]
    IN Write(t, Append(source, key), <<kv[2]>>)

PMSource(t, s, set) ==
    LET source == <<"port_mirroring", s[2], "source">>
        pairs == Pairs(From(s, 4))
    IN IF ~set THEN InElem(t, Mirrors, s[2], Cut(t, source))
       ELSE IF \/ Len(s) = 3 \/ ~Paired(From(s, 4))
               \/ \E i \in DOMAIN pairs : pairs[i][1] \notin {"interface", "vnf", "direction"}
            THEN Refused
       ELSE FoldLeft(LAMBDA u, kv : MirrorWord(u, source, kv),
                     Open(EnsureElem(t, Mirrors, s[2]), source), pairs)

PMAnalyzer(t, s, set) ==
    LET p == <<"port_mirroring", s[2], "analyzer">>
    IN IF set THEN Write(EnsureElem(t, Mirrors, s[2]), p, <<s[5]>>)
       ELSE InElem(t, Mirrors, s[2], Cut(t, p))

QosPolicy(t, s, set) ==
    LET policies == <<"qos_policies">>
        words == From(s, 4)
        pairs == Pairs(words)
        named == [i \in 1 .. (Len(words) + 1) \div 2 |-> words[2 * i - 1]]
    IN IF Len(s) = 2 THEN Refused
       ELSE IF ~set /\ words = <<>> THEN RemoveIfHeld(t, policies, s[3])
       ELSE IF ~set THEN InElem(t, policies, s[3],
                FoldLeft(LAMBDA u, k : Cut(u, <<"qos_policies", s[3], k>>), t, named))
       ELSE IF ~Paired(words) \/ \E i \in DOMAIN pairs :
                    pairs[i][1] \notin {"cir", "cbs"} \/ pairs[i][2] \notin Numbers
            THEN Refused
       ELSE FoldLeft(LAMBDA u, kv : Write(u, <<"qos_policies", s[3], kv[1]>>, <<kv[2]>>),
                     EnsureElem(t, policies, s[3]), pairs)

IngressPolicy(t, s, set) ==
    LET p == <<"interfaces", s[2], "ingress_policy">>
    IN IF set /\ Len(s) = 4 THEN Write(EnsureElem(t, <<"interfaces">>, s[2]), p, <<s[4]>>)
       ELSE InElem(t, <<"interfaces">>, s[2], Cut(t, p))

\* lldpObj, aliasLldpEnable, aliasLldpInterface.
Lldp == <<"protocols", "lldp">>
InLldp(t, set, Put(_)) == IF set \/ Has(t, Lldp) THEN Put(Open(t, Lldp)) ELSE Refused

LldpLeaf(t, s, set, field, ok) ==
    LET Put(u) == IF set /\ s[4] \notin ok THEN Refused
                  ELSE Leaf(u, Append(Lldp, field), s[4], set)
    IN InLldp(t, set, Put)

LldpInterface(t, s, set) ==
    LET ports == Append(Lldp, "interfaces")
        Put(u) == IF ~set THEN RemoveElem(u, ports, s[4])
                  ELSE IF s[6] \notin Flags THEN Refused
                  ELSE Write(EnsureElem(u, ports, s[4]), ports \o <<s[4], "enabled">>, <<s[6]>>)
    IN InLldp(t, set, Put)
=============================================================================
