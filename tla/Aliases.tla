------------------------------ MODULE Aliases ------------------------------
(***************************************************************************)
(* The other statements that do not follow the statement tree, and the     *)
(* choice between them (cliexec.go, internal/api/cli_aliases_compute.go,   *)
(* _system.go, _array.go, _auth.go).  A password is stored as a salted     *)
(* hash: the word, and the salt, which differs from that of the hash that  *)
(* was there before.                                                       *)
(***************************************************************************)
EXTENDS NetAliases

CONSTANT Weak   \* the passwords that a password policy refuses

\* appendOrRemove: a value that is not there cannot be removed.
InList(t, p, v, set) ==
    IF set THEN AddTo(t, p, v) ELSE IF Holds(t, p, v) THEN TakeFrom(t, p, v) ELSE Refused

\* A leaf that has to be there to be removed.
HeldLeaf(t, p, w, set) == IF set \/ Has(t, p) THEN Leaf(t, p, w, set) ELSE Refused
-----------------------------------------------------------------------------
Machines == <<"virtual_machine_functions">>
Containers == <<"container_functions">>
Machine(s) == Append(Machines, s[2])
Container(s) == Append(Containers, s[2])

\* "memory numa node <n>", with and without the value.
MachineNuma(t, s, set) ==
    LET memory == Append(Machine(s), "memory")
        p == Append(memory, "numa_node")
    IN InElem(t, Machines, s[2],
         IF Len(s) = 5 THEN Cut(t, p)
         ELSE IF set THEN NumLeaf(Open(t, memory), p, s[6], set)
         ELSE IF Has(t, memory) THEN Cut(t, p) ELSE Refused)

SerialConsole(t, s, set) ==
    InElem(t, Machines, s[2],
           Write(t, Append(Machine(s), "serial_console"), <<IF set THEN "true" ELSE "false">>))

\* "vcpu count <n> pin <b>" writes both also when it is a delete.
VcpuPinned(t, s) ==
    LET vcpu == Append(Machine(s), "vcpu")
    IN InElem(t, Machines, s[2],
         IF s[5] \notin Numbers \/ s[7] \notin Flags THEN Refused
         ELSE Write(Write(Open(t, vcpu), Append(vcpu, "count"), <<s[5]>>),
                    Append(vcpu, "pin"), <<s[7]>>))

VnicVirtualSwitch(t, s, set) ==
    LET key == IF s[1] = "container-functions" THEN Containers ELSE Machines
        nics == key \o <<s[2], "interfaces">>
    IN InElem(t, key, s[2],
              Leaf(EnsureElem(t, nics, s[4]), nics \o <<s[4], "virtual_switch">>, s[6], set))

ContainerArgs(t, s, set) ==
    LET p == Append(Container(s), "args")
    IN InElem(t, Containers, s[2],
              IF set /\ Len(s) > 3 THEN Write(t, p, From(s, 4)) ELSE Cut(t, p))

\* "memory size-mb <n>" and "vcpu count <n>", with and without the value.
ContainerSize(t, s, set, field) ==
    LET p == Append(Container(s), field)
    IN InElem(t, Containers, s[2], IF Len(s) = 4 THEN Cut(t, p) ELSE NumLeaf(t, p, s[5], set))

ContainerEnv(t, s, set) ==
    LET env == Append(Container(s), "env")
        p == Append(env, s[4])
    IN InElem(t, Containers, s[2],
         IF ~set THEN HeldLeaf(t, p, "", FALSE)
         ELSE IF Len(s) = 5 THEN Write(Open(t, env), p, <<s[5]>>) ELSE Refused)
-----------------------------------------------------------------------------
Dev == <<"vpp", "dpdk", "dev">>
PerDev == <<"vpp", "dpdk", "per_dev">>
DevKeys == "rx-queues" :> "rx_queues" @@ "tx-queues" :> "tx_queues"
           @@ "rx-descriptors" :> "rx_descriptors" @@ "tx-descriptors" :> "tx_descriptors"

\* dpdkDevDefault.  Without a value, set stores null: nothing.
DpdkDefault(t, s, set) ==
    LET p == Append(Dev, DevKeys[s[4]])
    IN IF Len(s) = 5 /\ s[5] \notin Numbers THEN Refused
       ELSE IF ~set THEN HeldLeaf(t, p, "", FALSE)
       ELSE IF Len(s) = 5 THEN Write(Open(t, Dev), p, <<s[5]>>)
       ELSE Cut(Open(t, Dev), p)

\* dpdkPerDev: of one interface, all of it or one of its keys.
DpdkPerDev(t, s, set) ==
    IF ~set THEN IF Len(s) = 4 THEN RemoveIfHeld(t, PerDev, s[4])
                 ELSE IF \/ s[5] \notin DOMAIN DevKeys
                         \/ Len(s) = 6 /\ Last(s) \notin Numbers THEN Refused
                 ELSE InElem(t, PerDev, s[4], Cut(t, PerDev \o <<s[4], DevKeys[s[5]]>>))
    ELSE LET made == EnsureElem(Open(t, <<"vpp", "dpdk">>), PerDev, s[4])
         IN IF Len(s) = 4 THEN made
            ELSE IF Len(s) = 5 \/ s[5] \notin DOMAIN DevKeys \/ Last(s) \notin Numbers
                 THEN Refused
            ELSE Write(made, PerDev \o <<s[4], DevKeys[s[5]]>>, <<s[6]>>)

DpdkDev(t, s, set) ==
    IF s[4] \in DOMAIN DevKeys /\ Len(s) < 6 THEN DpdkDefault(t, s, set)
    ELSE DpdkPerDev(t, s, set)

NumaNode(t, s, set) ==
    LET cpu == <<"resource_pools", "cpu">>
        nodes == Append(cpu, "numa")
        cores == nodes \o <<s[5], "cores">>
    IN IF ~set THEN IF Len(s) = 5 THEN RemoveIfHeld(t, nodes, s[5])
                    ELSE HeldLeaf(t, cores, "", FALSE)
       ELSE IF Len(s) = 5 \/ s[5] \notin Numbers \/ Last(s) \notin DOMAIN CoreList
            THEN Refused
       ELSE Write(EnsureElem(Open(t, cpu), nodes, s[5]), cores, CoreList[s[7]])

BondMembers(t, s, set) ==
    InList(EnsureElem(t, <<"bonds">>, s[2]), <<"bonds", s[2], "members">>, Last(s), set)
-----------------------------------------------------------------------------
System == <<"system">>
SysLeaf(t, object, field, w, set) ==
    Leaf(Open(t, Append(System, object)), <<"system", object, field>>, w, set)
SlipNumber(t, object, field, w, set) ==   \* written by a delete too
    IF w \notin Numbers THEN Refused ELSE SysLeaf(t, object, field, w, TRUE)
SysNumber(t, object, field, w, set) ==
    IF set /\ w \notin Numbers THEN Refused ELSE SysLeaf(t, object, field, w, set)

NtpServer(t, s, set) ==
    LET servers == <<"system", "ntp">>
        prefer == servers \o <<s[4], "prefer">>
        made == EnsureElem(Open(t, System), servers, s[4])
    IN IF set THEN IF Len(s) = 5 THEN Write(made, prefer, <<"true">>) ELSE made
       ELSE IF Len(s) = 5 THEN HeldLeaf(t, prefer, "", FALSE)
       ELSE RemoveIfHeld(t, servers, s[4])

DnsServers(t, ips, set) ==
    FoldLeft(LAMBDA u, ip : Then(u, InList(u, <<"system", "dns_servers">>, ip, set)),
             Open(t, System), ips)

KernelParams(t, s, set) ==
    InList(Open(t, <<"system", "kernel">>), <<"system", "kernel", "params">>, s[4], set)

Thresholds == "cpu-temp-celsius" :> "cpu_temp_celsius"
              @@ "disk-temp-celsius" :> "disk_temp_celsius"
              @@ "disk-used-percent" :> "disk_used_percent"
HealthThreshold(t, s, set) ==
    IF Len(s) = 3 THEN Cut(t, <<"system", "health">>)
    ELSE IF s[4] \notin DOMAIN Thresholds THEN Refused
    ELSE SysNumber(t, "health", Thresholds[s[4]], s[5], set)

SyslogLocal(t, s, set) ==
    CASE s[4] = "level" -> SysLeaf(t, "syslog", "level", s[5], set)
      [] s[4] = "retention-days" -> SysNumber(t, "syslog", "retention_days", s[5], set)
      [] s[4] = "max-size-mb" -> SysNumber(t, "syslog", "max_size_mb", s[5], set)
      [] OTHER -> Refused

HostFields == "port" :> "remote_port" @@ "facility" :> "facility"
              @@ "severity" :> "severity"
HostTakes(kv) ==
    CASE kv[1] = "port" -> kv[2] \in Numbers
      [] kv[1] = "facility" -> kv[2] \in {"kern", "user", "daemon", "local0", "local7"}
      [] kv[1] = "severity" -> kv[2] \in {"debug", "info", "warn", "error"}

\* The parameters of a log host; the host itself is written by a delete too.
SyslogHost(t, s, set) ==
    LET host == SysLeaf(t, "syslog", "remote_host", s[4], set)
        pairs == Pairs(From(s, 5))
        whole == {"remote_host", "remote_port", "facility", "severity"}
    IN IF Len(s) = 4
       THEN IF set THEN host
            ELSE [p \in DOMAIN host \ {<<"system", "syslog", f>> : f \in whole} |-> host[p]]
       ELSE IF \/ ~Paired(From(s, 5))
               \/ \E i \in DOMAIN pairs : \/ pairs[i][1] \notin DOMAIN HostFields
                                          \/ set /\ ~HostTakes(pairs[i])
            THEN Refused
       ELSE FoldLeft(LAMBDA u, kv : SysLeaf(u, "syslog", HostFields[kv[1]], kv[2], set),
                     SysLeaf(t, "syslog", "remote_host", s[4], TRUE), pairs)

TlsFields == "cert-file" :> "cert_file" @@ "key-file" :> "key_file"
ApiTls(t, s, set) ==
    IF s[4] \in DOMAIN TlsFields THEN SysLeaf(t, "api", TlsFields[s[4]], s[5], set)
    ELSE IF set THEN Refused ELSE t
ApiTlsPair(t, s, set) == SysLeaf(ApiTls(t, s, set), "api", "key_file", s[7], set)
-----------------------------------------------------------------------------
Login == <<"system", "login">>
Users == Append(Login, "users")
Classes == Append(Login, "classes")

Hash(t, p, w) == IF Val(t, p) = <<w, "salt 1">> THEN <<w, "salt 2">> ELSE <<w, "salt 1">>

\* passwordPolicyOf: a policy with a minimal length or complexity.
Policed(t) == \E f \in {"min_length", "complexity"} :
                  Has(t, Login \o <<"password_policy", f>>)

\* The rest of the statement names a password, a class, or both.
LoginUser(t, s, set) ==
    LET user == Append(Users, s[4])
        hash == Append(user, "password_hash")
        class == Append(user, "class")
        given == ToSet([i \in DOMAIN Pairs(From(s, 5)) |-> Pairs(From(s, 5))[i][1]])
        made == EnsureElem(Open(t, Login), Users, s[4])
        keyed == IF "password" \in given THEN Write(made, hash, Hash(t, hash, s[6])) ELSE made
    IN IF set
       THEN IF \/ s[4] \in {"password", "class"}
               \/ "password" \in given /\ Policed(t) /\ s[6] \in Weak THEN Refused
            ELSE IF "class" \in given THEN Write(keyed, class, <<Last(s)>>) ELSE keyed
       ELSE InElem(t, Users, s[4],
              IF "password" \in given THEN HeldLeaf(t, hash, "", FALSE)
              ELSE IF "class" \in given THEN HeldLeaf(t, class, "", FALSE)
              ELSE RemoveElem(t, Users, s[4]))

\* "class <c>", "class <c> allow|deny <path>", and without the path.
LoginClass(t, s, set) ==
    LET made == EnsureElem(Open(t, Login), Classes, s[4])
        p == Classes \o <<s[4], s[5]>>
    IN IF set /\ Len(s) # 5
       THEN IF Len(s) = 4 THEN made ELSE AddTo(made, p, s[6])
       ELSE InElem(t, Classes, s[4],
              CASE Len(s) = 4 -> RemoveElem(t, Classes, s[4])
                [] Len(s) = 5 -> Cut(t, p)
                [] Len(s) = 6 -> InList(t, p, s[6], FALSE))
-----------------------------------------------------------------------------
(* matchAlias: the statement's own reading, else the generic one.          *)

SwitchAlias(t, s, set) ==
    LET Is(tail) == Matches(s, <<"virtual-switches", "*">> \o tail)
    IN CASE Is(<<"type", "*">>) -> VSType(t, s, set)
         [] Is(<<"gateway", "ip", "*">>) -> VSGatewayIP(t, s, set)
         [] Is(<<"gateway", "ip">>) ->
              InElem(t, Switches, s[2], Cut(t, Switch(s) \o <<"gateway", "addresses">>))
         [] Is(<<"gateway">>) -> InElem(t, Switches, s[2], Cut(t, Append(Switch(s), "gateway")))
         [] Is(<<"vlan", "access", "*">>) \/ Is(<<"vlan", "access">>) -> VSVlanAccess(t, s, set)
         [] Is(<<"cross-connect", "*", "*">>) \/ Is(<<"cross-connect">>) ->
              VSCrossConnect(t, s, set)
         [] Is(<<"l3-interface", "*", "ip", "address", "*">>) -> L3InterfaceAddr(t, s, set)
         [] Is(<<"l3-interface", "*", "acl-in", "*">>) -> L3InterfaceAclIn(t, s, set)
         [] Is(<<"l3-interface", "*">>) -> L3InterfaceDel(t, s, set)
         [] Is(<<"static-routes", "*", "next-hop", "*">>) -> StaticRoute(t, s, set)
         [] Is(<<"static-routes", "*", "distance", "*">>) -> StaticRouteDistance(t, s, set)
         [] Is(<<"static-routes", "*", "next-hop", "*", "distance", "*">>) ->
              StaticRouteBoth(t, s, set)
         [] Is(<<"static-routes", "*", "distance", "*", "next-hop", "*">>) ->
              StaticRouteBothRev(t, s, set)
         [] Is(<<"static-routes", "*">>) -> StaticRouteDel(t, s, set)
         [] Is(<<"ports", "*", "interface", "*", "trunk", "vlans", "*">>) ->
              PortTrunk(t, s, set, "interface")
         [] Is(<<"ports", "*", "vnf", "*", "interface", "*", "trunk", "vlans", "*">>) ->
              PortTrunk(t, s, set, "vnf")
         [] Is(<<"ports", "*", "interface", "*", "native", "*">>) -> PortNative(t, s, set)
         [] Is(<<"ports", "*", "vnf", "*", "interface", "*">>) \/ Is(<<"ports", "*", "vnf", "*">>)
              -> PortMember(t, s, set, "vnf")
         [] \/ Is(<<"ports", "*", "container", "*", "interface", "*">>)
            \/ Is(<<"ports", "*", "container", "*">>) -> PortMember(t, s, set, "container")
         [] OTHER -> Generic(t, s, set)

ServiceAlias(t, s, set) ==
    CASE MatchesHead(s, <<"acls", "*", "rule">>) -> AclRule(t, s, set)
      [] Matches(s, <<"nat", "source-pool", "*", "address-range", "*", "to", "*">>) ->
           NatPool(t, s, set)
      [] Matches(s, <<"nat", "source-pool", "*">>) -> NatPoolDel(t, s, set)
      [] MatchesHead(s, <<"nat", "rules">>) -> NatRule(t, s, set)
      [] Matches(s, <<"nat", "static", "*", "to", "*">>) -> NatStatic(t, s, set)
      [] MatchesHead(s, <<"port-mirroring", "*", "source">>) -> PMSource(t, s, set)
      [] Matches(s, <<"port-mirroring", "*", "analyzer", "interface", "*">>) ->
           PMAnalyzer(t, s, set)
      [] MatchesHead(s, <<"qos", "policies">>) -> QosPolicy(t, s, set)
      [] \/ Matches(s, <<"interfaces", "*", "ingress-policy", "*">>)
         \/ Matches(s, <<"interfaces", "*", "ingress-policy">>) -> IngressPolicy(t, s, set)
      [] Matches(s, <<"protocols", "lldp", "enable", "*">>) ->
           LldpLeaf(t, s, set, "enabled", Flags)
      [] Matches(s, <<"protocols", "lldp", "enable">>) -> Cut(t, Append(Lldp, "enabled"))
      [] Matches(s, <<"protocols", "lldp", "advertisement-interval", "*">>) ->
           LldpLeaf(t, s, set, "advertisement_interval", Numbers)
      [] Matches(s, <<"protocols", "lldp", "interface", "*", "enable", "*">>) ->
           LldpInterface(t, s, set)
      [] OTHER -> Generic(t, s, set)

FunctionAlias(t, s, set) ==
    LET Machine4(tail) == Matches(s, <<"virtual-machine-functions", "*">> \o tail)
        Container4(tail) == Matches(s, <<"container-functions", "*">> \o tail)
        nic == <<"interfaces", "*", "virtual-switch", "*">>
    IN CASE Machine4(<<"memory", "numa", "node", "*">>) \/ Machine4(<<"memory", "numa", "node">>)
              -> MachineNuma(t, s, set)
         [] Machine4(<<"serial", "console", "enable">>) -> SerialConsole(t, s, set)
         [] Machine4(<<"vcpu", "count", "*", "pin", "*">>) -> VcpuPinned(t, s)
         [] Machine4(nic) \/ Container4(nic) -> VnicVirtualSwitch(t, s, set)
         [] MatchesHead(s, <<"container-functions", "*", "args">>) -> ContainerArgs(t, s, set)
         [] Container4(<<"memory", "size-mb", "*">>) \/ Container4(<<"memory", "size-mb">>) ->
              ContainerSize(t, s, set, "memory_mb")
         [] Container4(<<"vcpu", "count", "*">>) \/ Container4(<<"vcpu", "count">>) ->
              ContainerSize(t, s, set, "vcpu")
         [] Container4(<<"env", "*", "*">>) \/ Container4(<<"env", "*">>) ->
              ContainerEnv(t, s, set)
         [] OTHER -> Generic(t, s, set)

PlatformAlias(t, s, set) ==
    CASE \E n \in 1 .. 3 : Matches(s, <<"vpp", "dpdk", "dev">> \o [i \in 1 .. n |-> "*"]) ->
           DpdkDev(t, s, set)
      [] \/ Matches(s, <<"resource-pools", "cpu", "numa", "node", "*", "cores", "*">>)
         \/ Matches(s, <<"resource-pools", "cpu", "numa", "node", "*">>) -> NumaNode(t, s, set)
      [] \/ Matches(s, <<"bonds", "*", "members", "*">>)
         \/ Matches(s, <<"bonds", "*", "members", "*", "*">>) -> BondMembers(t, s, set)
      [] OTHER -> Generic(t, s, set)

SystemAlias(t, s, set) ==
    LET Is(tail) == Matches(s, System \o tail)
    IN CASE Is(<<"ntp", "server", "*">>) \/ Is(<<"ntp", "server", "*", "prefer">>) ->
              NtpServer(t, s, set)
         [] Is(<<"dns", "server", "*", "secondary", "*">>) -> DnsServers(t, <<s[4], s[6]>>, set)
         [] Is(<<"dns", "server", "*">>) -> DnsServers(t, <<s[4]>>, set)
         [] Is(<<"kernel", "params", "*">>) -> KernelParams(t, s, set)
         [] Is(<<"management", "interface", "*">>) \/ Is(<<"management", "gateway", "*">>) ->
              SysLeaf(t, "management", s[3], s[4], set)
         [] Is(<<"management", "ip", "address", "*">>) ->
              SysLeaf(t, "management", "address", s[5], set)
         [] Is(<<"health", "thresholds", "*", "*">>) \/ Is(<<"health", "thresholds">>) ->
              HealthThreshold(t, s, set)
         [] Is(<<"syslog", "local", "*", "*">>) -> SyslogLocal(t, s, set)
         [] MatchesHead(s, <<"system", "syslog", "host", "*">>) -> SyslogHost(t, s, set)
         [] Is(<<"api", "tls", "self-signed", "regenerate">>) ->
              SysLeaf(t, "api", "tls_self_signed", "true", set)
         [] Is(<<"api", "tls", "cert-file", "*", "key-file", "*">>) -> ApiTlsPair(t, s, set)
         [] Is(<<"api", "tls", "*", "*">>) -> ApiTls(t, s, set)
         [] Is(<<"login", "user", "*", "*">>) -> Refused
         [] \/ Is(<<"login", "user", "*">>) \/ Is(<<"login", "user", "*", "password", "*">>)
            \/ Is(<<"login", "user", "*", "class", "*">>)
            \/ Is(<<"login", "user", "*", "password", "*", "class", "*">>) ->
              LoginUser(t, s, set)
         [] \/ Is(<<"login", "class", "*">>)
            \/ \E k \in {"allow", "deny"} : \/ Is(<<"login", "class", "*", k>>)
                                            \/ Is(<<"login", "class", "*", k, "*">>) ->
              LoginClass(t, s, set)
         [] OTHER -> Generic(t, s, set)

Apply(t, s, set) ==
    CASE Head(s) = "virtual-switches" -> SwitchAlias(t, s, set)
      [] Head(s) \in {"acls", "nat", "port-mirroring", "qos", "interfaces", "protocols"} ->
           ServiceAlias(t, s, set)
      [] Head(s) \in {"virtual-machine-functions", "container-functions"} ->
           FunctionAlias(t, s, set)
      [] Head(s) \in {"vpp", "resource-pools", "bonds"} -> PlatformAlias(t, s, set)
      [] Head(s) = "system" -> SystemAlias(t, s, set)

\* commitTree: through the structs; a statement that changes nothing is refused,
\* which to a client is a warning.
Accepted(t, v) == IF v = Refused \/ ~Changed(t, v) THEN Refused ELSE v
CommitTree(t, u) == Accepted(t, Then(u, Decode(Prune(u))))

\* applyStatement, checkRequireSub.
SetStatement(t, s) ==
    IF Matches(s, <<"system", "login", "user", "*">>) THEN Refused
    ELSE CommitTree(t, Apply(t, s, TRUE))

\* deleteStatement.
WithoutVrfs(t, u) == Then(u, PruneVrfs(t, u))
DeleteStatement(t, s) == CommitTree(t, WithoutVrfs(t, Apply(t, s, FALSE)))
=============================================================================
