---------------------------- MODULE MCStatements ----------------------------
(* Small languages of statements, one for each part of the configuration. *)
EXTENDS Statements

MCNum == "0" :> 0 @@ "1" :> 1 @@ "2" :> 2 @@ "5" :> 5 @@ "10" :> 10 @@ "20" :> 20
         @@ "30" :> 30 @@ "64" :> 64 @@ "514" :> 514 @@ "1500" :> 1500
MCCoreList == "2" :> <<"2">> @@ "3" :> <<"3">> @@ "2,3" :> <<"2", "3">>
              @@ "10" :> <<"10">> @@ "10,20" :> <<"10", "20">> @@ "20" :> <<"20">>
MCCidr == "10.0.0.1/24" :> {"a", "b"} @@ "10.0.0.2/24" :> {"a", "b"}
          @@ "10.1.0.1/24" :> {"c"} @@ "0.0.0.0/0" :> {"a", "b", "c"}
MCIps == {"10.0.0.9", "10.0.0.8"}
MCWeak == {"weak"}

LOCAL Under(pre, tails) == {pre \o x : x \in tails}
LOCAL Scope(base, both, sets, deletes) ==
    [base |-> base, sets |-> both \cup sets, deletes |-> both \cup deletes]

LOCAL VS(b) == <<"virtual-switches", b>>
LOCAL Iface(i) == <<"interfaces", i>>
LOCAL VM(m) == <<"virtual-machine-functions", m>>
LOCAL CT(c) == <<"container-functions", c>>

LOCAL Bare(m) == <<VM(m) \o <<"image", "i">>, VM(m) \o <<"vcpu", "count", "2">>,
                   VM(m) \o <<"memory", "size-mb", "64">>>>
LOCAL Ifaces == <<Iface("e0"), Iface("e1")>>

Routed ==
    LET l3 == <<"l3-interface", "e0">>
        route == <<"static-routes", "default">>
    IN Scope(<<Iface("e0"), <<"acls", "a", "rule", "10", "action", "permit">>>>,
             Under(VS("b"), {l3 \o <<"ip", "address", "10.0.0.1/24">>, l3 \o <<"acl-in", "a">>,
                             route \o <<"next-hop", "10.0.0.9">>,
                             <<"static-routes", "0.0.0.0/0", "distance", "5">>,
                             <<"type", "l3">>}),
             {VS("c") \o <<"type", "l3">>, VS("b") \o <<"type", "l2">>},
             Under(VS("b"), {<<>>, <<"type">>, l3, route})
             \cup {VS("c"), <<"virtual-switches">>})

BothWays ==
    LET route == <<"static-routes", "10.1.0.1/24">>
        hop == <<"next-hop", "10.0.0.8">>
    IN Scope(<<VS("b") \o <<"type", "l3">>>>,
             Under(VS("b") \o route, {hop, hop \o <<"distance", "20">>,
                                      <<"distance", "10">> \o hop, <<"distance", "5">>}),
             {VS("b") \o <<"l3-interface", "e0">>, VS("b") \o route},
             {VS("b") \o route})

Ported ==
    Scope(Ifaces \o <<VS("b") \o <<"type", "l2">>>> \o Bare("m")
              \o <<VM("m") \o <<"interfaces", "n", "type", "vhost-user">>>>,
          Under(VS("b"), {<<"ports", "1", "interface", "e0">>,
                          <<"ports", "1", "interface", "e0", "trunk", "vlans", "10,20">>,
                          <<"ports", "1", "interface", "e0", "native", "5">>,
                          <<"ports", "2", "vnf", "m", "interface", "n">>,
                          <<"cross-connect", "1", "2">>, <<"vlan", "access", "10">>}),
          Under(VS("b"), {<<"ports", "1", "vnf", "m">>, <<"ports", "1", "vnf", "m", "interface", "n">>}),
          Under(VS("b"), {<<"ports", "1">>, <<"ports", "2">>, <<"ports", "2", "vnf", "m">>,
                          <<"ports", "1", "interface", "e0", "native">>, <<"vlan", "access">>}))

Vnics ==
    Scope(<<VS("b") \o <<"type", "l2">>, CT("c") \o <<"image", "i">>>> \o Bare("m")
              \o <<VM("m") \o <<"interfaces", "n", "type", "vhost-user">>,
                   CT("c") \o <<"interfaces", "k", "type", "memif">>>>,
          {VS("b") \o <<"ports", "1", "vnf", "m", "interface", "n", "trunk", "vlans", "10">>,
           VS("b") \o <<"ports", "1", "container", "c", "interface", "k">>,
           VM("m") \o <<"interfaces", "n", "virtual-switch", "b">>,
           CT("c") \o <<"interfaces", "k", "virtual-switch", "b">>,
           VM("m") \o <<"interfaces", "n", "mac", "m0">>,
           CT("c") \o <<"interfaces", "k", "mac", "m0">>},
          {VS("b") \o <<"ports", "x">>},
          {VS("b") \o <<"ports", "1">>, VS("b") \o <<"ports", "1", "vnf", "m">>,
           VM("m") \o <<"interfaces", "n">>})

Gateways ==
    Scope(<<VS("b") \o <<"type", "l2">>, VS("c") \o <<"type", "l3">>, Iface("e0"),
            <<"acls", "a", "rule", "10", "action", "permit">>>>,
          Under(VS("b"), {<<"gateway", "ip", "10.0.0.1/24">>, <<"gateway", "ip", "10.1.0.1/24">>,
                          <<"gateway", "vrf", "c">>, <<"gateway", "acl-in", "a">>})
          \cup {VS("c") \o <<"l3-interface", "e0", "ip", "address", "10.0.0.2/24">>},
          {VS("b") \o <<"type", "l3">>},
          {VS("b") \o <<"gateway", "ip">>, VS("b") \o <<"gateway">>, VS("c")})

Machined ==
    Scope(Bare("m"),
          Under(VM("m"), {<<"vcpu", "count", "2", "pin", "true">>, <<"vcpu", "pin", "false">>,
                          <<"memory", "numa", "node", "0">>, <<"memory", "backing", "hugepage">>,
                          <<"serial", "console", "enable">>, <<"disks", "d", "size-gb", "10">>}),
          {VM("m") \o <<"autostart", "true">>},
          Under(VM("m"), {<<"vcpu">>, <<"memory", "numa", "node">>, <<"disks", "d">>,
                          <<"memory", "size-mb">>}) \cup {VM("m")})

Instances ==
    Scope(Bare("m") \o <<Iface("e0"),
                         <<"resource-pools", "hugepages", "page-size", "2M", "count", "64">>>>,
          Under(VM("m"), {<<"cloud-init", "ssh-key", "k1">>, <<"cloud-init", "hostname", "h">>,
                          <<"interfaces", "n", "type", "sriov-vf">>,
                          <<"interfaces", "n", "sriov", "physical-interface", "e0">>,
                          <<"memory", "hugepage-size", "2M">>}),
          {VM("m") \o <<"cloud-init", "ssh-key", "k2">>,
           VM("m") \o <<"interfaces", "n", "sriov", "physical-interface", "e0", "vf", "1">>},
          {VM("m") \o <<"cloud-init">>,
           <<"resource-pools", "hugepages", "page-size", "2M">>})

Contained ==
    Scope(<<CT("c") \o <<"image", "i">>>>,
          Under(CT("c"), {<<"env", "A", "1x">>, <<"env", "B", "2x">>, <<"args", "x", "y">>,
                          <<"memory", "size-mb", "64">>, <<"vcpu", "count", "2">>}),
          {CT("c") \o <<"args", "x">>, CT("c") \o <<"restart-policy", "no">>},
          Under(CT("c"), {<<"env", "A">>, <<"env">>, <<"args">>, <<"vcpu", "count">>,
                          <<"memory", "size-mb">>, <<"restart-policy">>}))

Filtered ==
    LET rule(n) == <<"acls", "a", "rule", n>>
        host == <<"system", "hostname", "h">>
    IN Scope(<<>>,
             {rule("10") \o <<"action", "permit">>,
              rule("20") \o <<"source", "any", "protocol", "tcp", "destination-port", "64">>,
              rule("20") \o <<"action", "deny">>, host},
             {rule("x") \o <<"action", "deny">>, rule("10") \o <<"action">>, <<"acls", "b">>},
             {rule("10"), <<"acls", "a">>, <<"acls">>, <<"acls", "b">>, <<"acls", "a", "rule">>})

Translated ==
    LET inside == <<"match", "source", "10.1.0.1/24", "virtual-switch", "b">>
        rule == <<"nat", "rules", "1">>
    IN Scope(<<Iface("e0"), VS("b") \o <<"type", "l3">>, VS("c") \o <<"type", "l3">>,
               VS("c") \o <<"l3-interface", "e0", "ip", "address", "10.0.0.1/24">>>>,
             {<<"nat", "source-pool", "p", "address-range", "10.0.0.8", "to", "10.0.0.9">>,
              rule \o inside, rule \o <<"action", "source-pool", "p">>,
              rule \o <<"action", "interface", "e0">>,
              <<"nat", "static", "10.0.0.8", "to", "10.0.0.9">>},
             {rule, <<"nat", "rules", "x">> \o <<"action", "interface", "e0">>},
             {rule, <<"nat", "source-pool", "p">>, rule \o <<"match", "source", "10.1.0.1/24">>,
              VS("c"), <<"nat">>})

Mirrored ==
    Scope(Ifaces \o Bare("m") \o <<VM("m") \o <<"interfaces", "n", "type", "vhost-user">>>>,
          Under(<<"port-mirroring", "s">>,
                {<<"source", "interface", "e0", "direction", "both">>,
                 <<"source", "vnf", "m", "interface", "n", "direction", "ingress">>,
                 <<"source", "interface", "e0">>,
                 <<"analyzer", "interface", "e1">>})
          \cup {<<"qos", "policies", "q", "cir", "10", "cbs", "20">>,
                Iface("e0") \o <<"ingress-policy", "q">>, Iface("e1") \o <<"disable">>},
          {<<"qos", "policies", "q", "cir">>},
          {<<"port-mirroring", "s">>, <<"port-mirroring", "s", "source">>,
           <<"qos", "policies", "q">>, <<"qos", "policies", "q", "cbs">>,
           Iface("e0") \o <<"ingress-policy">>, Iface("e0")})

LOCAL Sys(s) == <<"system">> \o s
Managed ==
    Scope(<<>>,
          Under(Sys(<<>>), {<<"management", "interface", "mg">>, <<"management", "gateway", "10.0.0.9">>,
                            <<"management", "ip", "address", "10.0.0.1/24">>,
                            <<"ntp", "server", "t1">>, <<"ntp", "server", "t1", "prefer">>,
                            <<"dns", "server", "d1">>,
                            <<"dns", "server", "d1", "secondary", "d2">>}),
          {Sys(<<"ntp", "server", "t2">>)},
          {Sys(<<"management">>), Sys(<<"ntp">>), Sys(<<"dns", "server", "d2">>)})

Logged ==
    Scope(<<>>,
          Under(Sys(<<"syslog">>), {<<"host", "h", "port", "514", "severity", "warn">>,
                                    <<"host", "h", "facility", "local0">>, <<"host", "h">>,
                                    <<"local", "level", "info">>, <<"local", "retention-days", "30">>,
                                    <<"local", "max-size-mb", "64">>}),
          {Sys(<<"syslog", "host", "h2">>), Sys(<<"syslog", "host", "h", "port", "x">>)},
          {Sys(<<"syslog">>)})

Tuned ==
    Scope(<<>>,
          Under(Sys(<<>>), {<<"kernel", "params", "p1">>, <<"kernel", "params", "p2">>,
                            <<"kernel", "nmi-watchdog", "false">>,
                            <<"health", "thresholds", "cpu-temp-celsius", "64">>,
                            <<"health", "thresholds", "disk-used-percent", "0">>,
                            <<"api", "tls", "self-signed", "regenerate">>,
                            <<"api", "tls", "cert-file", "f", "key-file", "k">>}),
          {Sys(<<"api", "port", "64">>)},
          {Sys(<<"health", "thresholds">>), Sys(<<"api">>), Sys(<<"kernel">>),
           Sys(<<"api", "tls", "cert-file", "f">>)})

Secured ==
    LET user == Sys(<<"login", "user", "u">>)
        class == Sys(<<"login", "class", "k">>)
    IN Scope(<<>>,
             {user \o <<"password", "good">>, user \o <<"class", "k">>, class,
              class \o <<"allow", "show">>, class \o <<"deny", "set">>,
              Sys(<<"login", "password-policy", "min-length", "10">>)},
             {user, user \o <<"password", "weak", "class", "operator">>},
             {user, Append(class, "allow"), Sys(<<"login">>)})

Platform ==
    Scope(<<Iface("e0")>>,
          {<<"resource-pools", "hugepages", "page-size", "2M", "count", "64">>,
           <<"resource-pools", "cpu", "isolated-cores", "2,3">>,
           <<"resource-pools", "cpu", "numa", "node", "0", "cores", "2">>,
           <<"vpp", "cpu", "main-core", "2">>, <<"vpp", "cpu", "corelist-workers", "3">>,
           <<"vpp", "memory", "hugepage-preference", "2M">>},
          {<<"resource-pools", "cpu", "numa", "node", "0">>,
           <<"resource-pools", "hugepages", "page-size", "2M">>},
          {<<"resource-pools", "cpu", "numa", "node", "0">>,
           <<"resource-pools", "cpu", "isolated-cores", "2">>, <<"resource-pools", "hugepages">>})

Cards ==
    Scope(<<Iface("e0")>>,
          {<<"vpp", "dpdk", "dev", "rx-queues", "2">>, <<"vpp", "dpdk", "dev", "e0", "tx-queues", "2">>,
           <<"vpp", "dpdk", "dev", "e0">>, <<"vpp", "plugins", "nat", "state", "enable">>,
           <<"vpp", "dpdk", "uio-driver", "vfio-pci">>},
          {<<"vpp", "dpdk", "dev", "e0", "rx-queues">>, <<"vpp", "dpdk", "dev", "e1">>},
          {<<"vpp", "dpdk", "dev", "e0", "tx-queues">>, <<"vpp", "plugins", "nat">>,
           <<"vpp", "dpdk", "dev", "rx-queues">>, Iface("e0")})

Bonded ==
    Scope(Ifaces,
          {<<"bonds", "o", "members", "e0">>, <<"bonds", "o", "members", "1", "e1">>,
           <<"bonds", "o", "lacp", "mode", "active", "interval", "fast">>,
           <<"bonds", "o", "description", "d">>,
           <<"protocols", "lldp", "enable", "true">>,
           <<"protocols", "lldp", "interface", "e0", "enable", "false">>,
           <<"protocols", "lldp", "advertisement-interval", "30">>},
          {<<"bonds", "o", "lacp", "disable">>, <<"protocols", "lldp", "enable", "x">>},
          {<<"bonds", "o">>, <<"bonds", "o", "lacp">>, <<"protocols", "lldp", "enable">>,
           <<"protocols", "lldp">>})

Scoped == {Routed, BothWays, Ported, Vnics, Gateways, Machined, Instances, Contained, Filtered,
           Translated, Mirrored, Managed, Logged, Tuned, Secured, Platform, Cards, Bonded}
=============================================================================
