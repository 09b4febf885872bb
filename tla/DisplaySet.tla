----------------------------- MODULE DisplaySet -----------------------------
(***************************************************************************)
(* "show configuration | display set": the statements that make a          *)
(* configuration (internal/api/setstmt.go, setstmt_families.go), and their *)
(* replay on an empty one, without which they are not shown.               *)
(*                                                                         *)
(* The walk over the statement tree carries at, the place in the           *)
(* configuration, pre, the words of the statement so far, and kp, its      *)
(* keywords.  Comment lines for what has no statement are left out.        *)
(***************************************************************************)
EXTENDS Aliases

Empty == [p \in {} |-> <<>>]

Each(s, Op(_)) == FoldLeft(LAMBDA out, x : out \o Op(x), <<>>, s)
If(c, out) == IF c THEN out ELSE <<>>

\* joinScalars, of a list of numbers.
ListWord(v) == CHOOSE w \in DOMAIN CoreList : CoreList[w] = v

\* One statement for each of the fields there are, in this order.
Fields(t, at, pre, words, field) ==
    Each(words, LAMBDA w : If(Has(t, Append(at, field[w])),
                              <<pre \o <<w>> \o t[Append(at, field[w])]>>))
-----------------------------------------------------------------------------
EmitSystem(t, at, pre, kp) ==
    CASE kp = <<"system">> ->
           Each(Val(t, Append(at, "dns_servers")), LAMBDA ip : <<pre \o <<"dns", "server", ip>>>>)
      [] kp = <<"system", "ntp">> ->
           Each(Val(t, at), LAMBDA a :
                <<pre \o <<"server", a>> \o If(Has(t, at \o <<a, "prefer">>), <<"prefer">>)>>)
      [] kp = <<"system", "api">> ->
           Fields(t, at, Append(pre, "tls"), <<"cert-file", "key-file">>, TlsFields)
           \o If(Has(t, Append(at, "tls_self_signed")),
                 <<pre \o <<"tls", "self-signed", "regenerate">>>>)
      [] kp = <<"system", "management">> ->
           If(Has(t, Append(at, "address")),
              <<pre \o <<"ip", "address">> \o t[Append(at, "address")]>>)
      [] kp = <<"system", "health">> ->
           Fields(t, at, Append(pre, "thresholds"),
                  <<"cpu-temp-celsius", "disk-temp-celsius", "disk-used-percent">>, Thresholds)
      [] kp = <<"system", "syslog">> ->
           If(Has(t, Append(at, "remote_host")),
              <<pre \o <<"host">> \o t[Append(at, "remote_host")]
                \o Each(<<"port", "facility", "severity">>, LAMBDA w :
                        If(Has(t, Append(at, HostFields[w])),
                           <<w>> \o t[Append(at, HostFields[w])]))>>)
           \o Fields(t, at, Append(pre, "local"), <<"level", "retention-days", "max-size-mb">>,
                     "level" :> "level" @@ "retention-days" :> "retention_days"
                     @@ "max-size-mb" :> "max_size_mb")
      [] OTHER -> <<>>

\* A user shows by its class only: the password cannot be shown.
EmitLogin(t, at, pre) ==
    LET users == Append(at, "users")
        classes == Append(at, "classes")
        paths(c, k) == Each(Val(t, classes \o <<c, k>>), LAMBDA p : <<pre \o <<"class", c, k, p>>>>)
    IN Each(Val(t, users), LAMBDA u :
            If(Has(t, users \o <<u, "class">>),
               <<pre \o <<"user", u, "class">> \o t[users \o <<u, "class">>]>>))
       \o Each(Val(t, classes), LAMBDA c :
               LET both == paths(c, "allow") \o paths(c, "deny")
               IN IF both = <<>> THEN <<pre \o <<"class", c>>>> ELSE both)

EmitLldp(t, at, pre) ==
    LET ports == Append(at, "interfaces")
    IN If(Val(t, Append(at, "enabled")) = <<"true">>, <<pre \o <<"enable", "true">>>>)
       \o Fields(t, at, pre, <<"advertisement-interval">>,
                 "advertisement-interval" :> "advertisement_interval")
       \o Each(Val(t, ports), LAMBDA i :
               <<pre \o <<"interface", i, "enable">> \o t[ports \o <<i, "enabled">>]>>)

EmitInterface(t, at, pre) ==
    Fields(t, at, pre, <<"ingress-policy">>, "ingress-policy" :> "ingress_policy")

EmitBond(t, at, pre) ==
    Each(Val(t, Append(at, "members")), LAMBDA m : <<pre \o <<"members", m>>>>)
EmitLacp(t, at, pre) ==
    If(Has(t, Append(at, "mode")),
       <<pre \o <<"mode">> \o t[Append(at, "mode")]
         \o If(Has(t, Append(at, "interval")), <<"interval">> \o t[Append(at, "interval")])>>)

EmitVSGateway(t, at, pre) ==
    Each(Val(t, Append(at, "addresses")), LAMBDA a : <<pre \o <<"ip", a>>>>)
    \o Fields(t, at, pre, <<"vrf", "acl-in", "acl-out">>,
              "vrf" :> "vrf" @@ "acl-in" :> "acl_in" @@ "acl-out" :> "acl_out")

SlipVSPort(t, at, pre) ==   \* of an interface, the trunk or else the native VLAN
    LET F(f) == Append(at, f)
        words == IF Has(t, F("trunk")) THEN <<"trunk", "vlans", ListWord(t[F("trunk")])>>
                 ELSE IF Has(t, F("native")) THEN <<"native">> \o t[F("native")] ELSE <<>>
        vnic(kind) == pre \o <<kind>> \o t[F(kind)] \o <<"interface">>
                      \o t[F(kind \o "_interface")]
    IN CASE Has(t, F("vnf")) -> <<vnic("vnf") \o words>>
         [] Has(t, F("container")) /\ ~Has(t, F("vnf")) -> <<vnic("container")>>
         [] Has(t, F("interface")) /\ ~Has(t, F("vnf")) /\ ~Has(t, F("container")) ->
              <<pre \o <<"interface">> \o t[F("interface")] \o words>>
         [] OTHER -> <<>>

\* The member of a port: a VNF, else a container, else an interface.
EmitVSPort(t, at, pre) ==
    LET F(f) == Append(at, f)
        trunk == IF Has(t, F("trunk")) THEN <<"trunk", "vlans", ListWord(t[F("trunk")])>>
                 ELSE <<>>
        native == IF Has(t, F("native")) THEN <<"native">> \o t[F("native")] ELSE <<>>
        vnic(kind) == pre \o <<kind>> \o t[F(kind)] \o <<"interface">>
                      \o t[F(kind \o "_interface")]
        host == pre \o <<"interface">> \o Val(t, F("interface"))
    IN CASE Has(t, F("vnf")) -> <<vnic("vnf") \o trunk>>
         [] Has(t, F("container")) /\ ~Has(t, F("vnf")) -> <<vnic("container")>>
         [] Has(t, F("interface")) /\ ~Has(t, F("vnf")) /\ ~Has(t, F("container")) ->
              If(trunk # <<>>, <<host \o trunk>>) \o If(native # <<>>, <<host \o native>>)
              \o If(trunk \o native = <<>>, <<host>>)
         [] OTHER -> <<>>

EmitSwitch(t, at, pre) ==
    LET ports == Append(at, "ports")
        seqs == Val(t, ports)
    IN Fields(t, at, pre, <<"description", "type">>,
              "description" :> "description" @@ "type" :> "type")
       \o If(Has(t, Append(at, "vlan_access")),
             <<pre \o <<"vlan", "access">> \o t[Append(at, "vlan_access")]>>)
       \o Each(seqs, LAMBDA n : <<pre \o <<"ports", n>>>>
                                \o EmitVSPort(t, Append(ports, n), pre \o <<"ports", n>>))
       \o EmitVSGateway(t, Append(at, "gateway"), Append(pre, "gateway"))
       \o If(Has(t, Append(at, "cross_connect")) /\ Len(seqs) = 2,
             <<pre \o <<"cross-connect">> \o seqs>>)
-----------------------------------------------------------------------------
EmitAcl(t, at, pre) ==
    LET rules == Append(at, "rules")
    IN Each(Val(t, rules), LAMBDA n :
            <<pre \o <<"rule", n>>>>
            \o Fields(t, Append(rules, n), pre \o <<"rule", n>>,
                      <<"source", "destination", "protocol", "source-port",
                        "destination-port", "action", "direction">>, AclWords))

EmitNatRule(t, at, pre) ==
    LET match == Val(t, Append(at, "match_source"))
        switch == If(Has(t, Append(at, "virtual_switch")),
                     <<"virtual-switch">> \o t[Append(at, "virtual_switch")])
        words == If(match # <<>>, <<"match", "source">> \o match) \o switch
    IN <<pre>> \o If(words # <<>>, <<pre \o words>>)
       \o Fields(t, Append(at, "action"), Append(pre, "action"), <<"source-pool", "interface">>,
                 "source-pool" :> "source_pool" @@ "interface" :> "interface")

EmitNat(t, at, pre) ==
    LET In(a, x) == at \o <<a, x>>
        range(p) == t[Append(In("source_pools", p), "address_range")]
    IN Each(Val(t, Append(at, "source_pools")), LAMBDA p :
            <<pre \o <<"source-pool", p, "address-range", range(p)[1], "to", range(p)[2]>>>>)
       \o Each(Val(t, Append(at, "rules")), LAMBDA n :
               EmitNatRule(t, In("rules", n), pre \o <<"rules", n>>))
       \o Each(Val(t, Append(at, "static")), LAMBDA i :
               <<pre \o <<"static", i, "to">> \o t[Append(In("static", i), "outside_ip")]>>)

\* A source is a VNF, else an interface, else a direction only.
EmitMirror(t, at, pre) ==
    LET F(f) == at \o <<"source", f>>
        direction == If(Has(t, F("direction")), <<"direction">> \o Val(t, F("direction")))
        who == IF Has(t, F("vnf"))
               THEN <<"vnf">> \o t[F("vnf")]
                    \o If(Has(t, F("vnf_interface")), <<"interface">> \o Val(t, F("vnf_interface")))
               ELSE If(Has(t, F("interface")), <<"interface">> \o Val(t, F("interface")))
    IN If(who \o direction # <<>>, <<Append(pre, "source") \o who \o direction>>)
       \o If(Has(t, Append(at, "analyzer")),
             <<pre \o <<"analyzer", "interface">> \o t[Append(at, "analyzer")]>>)

EmitNuma(t, at, pre) ==
    Each(Val(t, at), LAMBDA n :
         <<pre \o <<"node", n>>
           \o If(Has(t, at \o <<n, "cores">>), <<"cores", ListWord(t[at \o <<n, "cores">>])>>)>>)

EmitDev(t, at, pre) ==
    Fields(t, at, pre, <<"rx-queues", "tx-queues", "rx-descriptors", "tx-descriptors">>, DevKeys)
EmitDpdk(t, at, pre) ==
    EmitDev(t, Append(at, "dev"), Append(pre, "dev"))
    \o Each(Val(t, Append(at, "per_dev")), LAMBDA i :
            <<pre \o <<"dev", i>>>> \o EmitDev(t, at \o <<"per_dev", i>>, pre \o <<"dev", i>>))

EmitMachine(t, at, pre) ==
    If(Val(t, Append(at, "serial_console")) = <<"true">>,
       <<pre \o <<"serial", "console", "enable">>>>)
EmitMemory(t, at, pre) ==
    If(Has(t, Append(at, "numa_node")), <<pre \o <<"numa", "node">> \o t[Append(at, "numa_node")]>>)

EmitContainer(t, at, pre) ==
    LET env == Append(at, "env")
        keys == SetToSeq({k \in {Last(p) : p \in Below(t, env)} : Has(t, Append(env, k))})
    IN If(Has(t, Append(at, "memory_mb")),
          <<pre \o <<"memory", "size-mb">> \o t[Append(at, "memory_mb")]>>)
       \o Each(keys, LAMBDA k : <<pre \o <<"env", k>> \o t[Append(env, k)]>>)
       \o If(Has(t, Append(at, "args")), <<Append(pre, "args") \o t[Append(at, "args")]>>)
       \o If(Has(t, Append(at, "vcpu")), <<pre \o <<"vcpu", "count">> \o t[Append(at, "vcpu")]>>)

\* emitVrfsFallback: an L3 interface shows by its ACL and its addresses, a
\* route by its next hop.
EmitVrf(t, b) ==
    LET at == <<"vrfs", b>>
        pre == <<"virtual-switches", b>>
        ports == Append(at, "l3_interfaces")
        routes == Append(at, "routes")
    IN Each(Val(t, ports), LAMBDA i :
            Fields(t, Append(ports, i), pre \o <<"l3-interface", i>>, <<"acl-in">>,
                   "acl-in" :> "acl_in")
            \o Each(Val(t, ports \o <<i, "addresses">>), LAMBDA a :
                    <<pre \o <<"l3-interface", i, "ip", "address", a>>>>))
       \o Each(Val(t, routes), LAMBDA r :
               If(Has(t, routes \o <<r, "next_hop">>),
                  Fields(t, Append(routes, r), pre \o <<"static-routes", r>>,
                         <<"next-hop", "distance">>,
                         "next-hop" :> "next_hop" @@ "distance" :> "distance")))

\* emitQosFallback: both rates, also when they are zero.
EmitQos(t, q) ==
    LET rate(k) == IF Has(t, <<"qos_policies", q, k>>) THEN t[<<"qos_policies", q, k>>]
                   ELSE <<"0">>
    IN <<<<"qos", "policies", q, "cir">> \o rate("cir") \o <<"cbs">> \o rate("cbs")>>
-----------------------------------------------------------------------------
\* emitterFor: what a family of statements adds at this place of the walk.
Family(t, at, pre, kp) ==
    CASE kp = <<"system", "login">> -> EmitLogin(t, at, pre)
      [] kp # <<>> /\ Head(kp) = "system" /\ kp # <<"system", "login">> ->
           EmitSystem(t, at, pre, kp)
      [] kp = <<"protocols", "lldp">> -> EmitLldp(t, at, pre)
      [] kp = <<"interfaces">> -> EmitInterface(t, at, pre)
      [] kp = <<"bonds">> -> EmitBond(t, at, pre)
      [] kp = <<"bonds", "lacp">> -> EmitLacp(t, at, pre)
      [] kp = <<"virtual-switches">> -> EmitSwitch(t, at, pre)
      [] kp = <<"acls">> -> EmitAcl(t, at, pre)
      [] kp = <<"nat">> -> EmitNat(t, at, pre)
      [] kp = <<"port-mirroring">> -> EmitMirror(t, at, pre)
      [] kp = <<"resource-pools", "cpu", "numa">> -> EmitNuma(t, at, pre)
      [] kp = <<"vpp", "dpdk">> -> EmitDpdk(t, at, pre)
      [] kp = <<"virtual-machine-functions">> -> EmitMachine(t, at, pre)
      [] kp = <<"virtual-machine-functions", "memory">> -> EmitMemory(t, at, pre)
      [] kp = <<"container-functions">> -> EmitContainer(t, at, pre)
      [] OTHER -> <<>>

\* The families that show all of their part themselves.
Whole == {<<"virtual-switches">>, <<"bonds", "lacp">>}

\* Leaves that are written back also when they are zero.
Mandatory(at) == IF Head(at) = "vpp" THEN "state" :> "" ELSE "count" :> "0"
Zero(k, at) == k.sort = "value" /\ Len(at) = 3 /\ Head(at) \in {"vpp", "resource_pools"}
               /\ k.field \in DOMAIN Mandatory(at)

\* emitMechanical, emitMechanicalInner.
RECURSIVE Emit(_, _, _, _, _)
EmitKid(t, k, at, pre, kp) ==
    LET p == Append(at, k.field)
        w == Append(pre, k.word)
        below(q, words) == Emit(t, k.kids, q, words, Append(kp, k.word))
    IN CASE k.word = "disable" -> If(Val(t, Append(at, "enabled")) = <<"false">>, <<w>>)
         [] k.word # "disable" /\ ~Has(t, p) ->
              If(Zero(k, at), <<Append(w, Mandatory(at)[k.field])>>)
         [] k.sort = "scalar" /\ Has(t, p) -> <<w \o t[p]>> \o below(at, w \o t[p])
         [] k.sort = "list" /\ Has(t, p) -> Each(t[p], LAMBDA v : <<Append(w, v)>>)
         [] k.sort = "identity" /\ Has(t, p) ->
              Each(t[p], LAMBDA id : below(Append(p, id), w \o <<k.type, id>>))
         [] k.sort = "array" /\ Has(t, p) ->
              If(k.field \in Arrays,
                 Each(t[p], LAMBDA id : <<Append(w, id)>> \o below(Append(p, id), Append(w, id))))
         [] k.sort = "value" /\ Has(t, p) ->
              <<IF k.type = "cores" THEN Append(w, ListWord(t[p])) ELSE w \o t[p]>>
         [] k.sort = "object" /\ k.word # "disable" /\ Has(t, p) -> below(p, w)

Emit(t, kids, at, pre, kp) ==
    Family(t, at, pre, kp)
    \o If(kp \notin Whole, Each(kids, LAMBDA k : EmitKid(t, k, at, pre, kp)))

\* generateSetStmts, from the root.
Statements(t) ==
    Emit(t, Root.kids, <<>>, <<>>, <<>>)
    \o Each(Val(t, <<"qos_policies">>), LAMBDA q : EmitQos(t, q))
    \o Each(Val(t, Vrfs), LAMBDA b : EmitVrf(t, b))

\* stripUnreplayable, stripDefaultTrue.
Shown(t) == [p \in {q \in DOMAIN t : /\ Last(q) # "password_hash"
                                     /\ ~(/\ Len(q) = 3 /\ Head(q) = "interfaces"
                                          /\ Last(q) = "enabled" /\ t[q] = <<"true">>)} |-> t[p]]

Replay(stmts) == FoldLeft(LAMBDA u, s : Then(u, SetStatement(u, s)), Empty, stmts)

\* verifySetStatements: the statements, when they make the configuration.
ShownAlike(t, u) == u # Refused /\ Shown(u) = Shown(t)
Displayed(t) == ShownAlike(t, Replay(Statements(t)))
=============================================================================
