----------------------------- MODULE Validation -----------------------------
(***************************************************************************)
(* When a configuration is valid (internal/model/validate.go): every       *)
(* conjunct of Valid is one of the checks, of the relations between parts  *)
(* of the configuration as well as of single values.  Names are            *)
(* well-formed, and identities are not repeated, by the shape of the tree. *)
(***************************************************************************)
EXTENDS DisplaySet

CONSTANTS Cidr,   \* the words that are prefixes, and the addresses in each
          Ips     \* the words that are addresses

\* An absent leaf reads as the zero value of its type.
One(t, p) == IF Has(t, p) THEN t[p][1] ELSE ""
NumAt(t, p) == IF Has(t, p) THEN Num[t[p][1]] ELSE 0
Ids(t, p) == ToSet(Val(t, p))
At(p, id, f) == p \o <<id, f>>
Between(n, low, high) == n # 0 => n \in low .. high
IsVlan(w) == w \in Numbers /\ Num[w] \in 1 .. 4094

Interfaces == <<"interfaces">>
Bonds == <<"bonds">>
Acls == <<"acls">>
Policies == <<"qos_policies">>

\* collect: what is declared, by name.
Phys(t) == Ids(t, Interfaces)
AnyIface(t) == Phys(t) \cup Ids(t, Bonds)
Typed(t, type) == {b \in Ids(t, Switches) : One(t, At(Switches, b, "type")) = type}
VnicsOf(t, fns) ==
    UNION {{<<f, n>> : n \in Ids(t, At(fns, f, "interfaces"))} : f \in Ids(t, fns)}
VmVnics(t) == VnicsOf(t, Machines)
CtVnics(t) == VnicsOf(t, Containers)
NicType(t, fns, x) == One(t, At(fns, x[1], "interfaces") \o <<x[2], "type">>)
VnicNames(t) ==
    {"vh-" \o x[1] \o "-" \o x[2] : x \in {y \in VmVnics(t) : NicType(t, Machines, y) = "vhost-user"}}
    \cup {"mf-" \o x[1] \o "-" \o x[2] : x \in {y \in CtVnics(t) : NicType(t, Containers, y) = "memif"}}
PoolSizes(t) == Ids(t, <<"resource_pools", "hugepages">>)
Isolated(t) == Ids(t, <<"resource_pools", "cpu", "isolated_cores">>)

AclKnown(t, p) == Has(t, p) => One(t, p) \in Ids(t, Acls)
-----------------------------------------------------------------------------
CheckSystem(t) ==
    LET F(o, f) == <<"system", o, f>>
        levels == {"", "debug", "info", "warn", "error"}
    IN /\ Has(t, F("management", "address")) => One(t, F("management", "address")) \in DOMAIN Cidr
       /\ Has(t, F("management", "gateway")) => One(t, F("management", "gateway")) \in Ips
       /\ NumAt(t, F("api", "max_sessions")) >= 0
       /\ One(t, F("syslog", "level")) \in levels /\ One(t, F("syslog", "severity")) \in levels
       /\ Between(NumAt(t, F("syslog", "remote_port")), 1, 65535)
       /\ \A u \in Ids(t, Users) : Has(t, At(Users, u, "password_hash"))

CheckSystemLogin(t) ==
    LET policy(f) == NumAt(t, Login \o <<"password_policy", f>>)
    IN /\ \A u \in Ids(t, Users) :
              One(t, At(Users, u, "class"))
                  \in {"", "super-user", "operator", "read-only"} \cup Ids(t, Classes)
       /\ Between(policy("min_length"), 4, 128)
       /\ Between(policy("lockout_threshold"), 1, 100)
       /\ Between(policy("lockout_minutes"), 1, 10080)

CheckHealth(t) ==
    \A f \in {"cpu_temp_celsius", "disk_temp_celsius", "disk_used_percent"} :
        NumAt(t, <<"system", "health", f>>) \in 0 .. (IF f = "cpu_temp_celsius" THEN 120 ELSE 100)

CheckInterfaces(t) ==
    \A i \in Phys(t) :
        /\ Between(NumAt(t, At(Interfaces, i, "mtu")), 68, 9216)
        /\ One(t, At(Interfaces, i, "ingress_policy")) \in {""} \cup Ids(t, Policies)

CheckBonds(t) ==
    \A b \in Ids(t, Bonds) :
        LET members == Ids(t, At(Bonds, b, "members"))
            lacp == At(Bonds, b, "lacp")
        IN /\ members # {} /\ members \subseteq Phys(t)
           /\ Has(t, lacp) => /\ One(t, Append(lacp, "mode")) \in {"active", "passive"}
                              /\ One(t, Append(lacp, "interval")) \in {"", "fast", "slow"}

\* A port has exactly one member, which is declared.
PortOk(t, b, p) ==
    LET F(f) == Append(p, f)
        access == One(t, At(Switches, b, "vlan_access"))
        trunk == Ids(t, F("trunk"))
    IN /\ Cardinality({k \in {"interface", "vnf", "container"} : Has(t, F(k))}) = 1
       /\ Has(t, F("interface")) => One(t, F("interface")) \in AnyIface(t)
       /\ Has(t, F("vnf")) => <<One(t, F("vnf")), One(t, F("vnf_interface"))>> \in VmVnics(t)
       /\ Has(t, F("container")) =>
              <<One(t, F("container")), One(t, F("container_interface"))>> \in CtVnics(t)
       /\ \A v \in trunk : IsVlan(v)
       /\ Has(t, F("native")) => IsVlan(One(t, F("native"))) /\ One(t, F("native")) \notin trunk
       /\ access # "" /\ trunk # {} => access \in trunk
       /\ AclKnown(t, F("acl_in")) /\ AclKnown(t, F("acl_out"))

CheckVirtualSwitches(t) ==
    \A b \in Ids(t, Switches) :
        LET F(f) == At(Switches, b, f)
        IN /\ One(t, F("type")) \in {"l2", "l3"}
           /\ One(t, F("type")) = "l3" =>
                  /\ b \in Ids(t, Vrfs)
                  /\ \A f \in {"vlan_access", "cross_connect", "ports", "gateway"} : ~Has(t, F(f))
           /\ Has(t, F("vlan_access")) => IsVlan(One(t, F("vlan_access")))
           /\ Ids(t, F("gateway") \o <<"addresses">>) \subseteq DOMAIN Cidr
           /\ One(t, F("gateway") \o <<"vrf">>) \in {""} \cup Ids(t, Vrfs)
           /\ AclKnown(t, F("gateway") \o <<"acl_in">>)
           /\ AclKnown(t, F("gateway") \o <<"acl_out">>)
           /\ \A n \in Ids(t, F("ports")) : PortOk(t, b, F("ports") \o <<n>>)

\* Sub-interfaces, named after their parent, are left out.
L3IfaceExists(t, i) == i \in AnyIface(t) \cup VnicNames(t)

CheckVrfs(t) ==
    \A r \in Ids(t, Vrfs) :
        LET ports == At(Vrfs, r, "l3_interfaces")
            routes == At(Vrfs, r, "routes")
        IN /\ \A i \in Ids(t, ports) : /\ L3IfaceExists(t, i)
                                       /\ Ids(t, At(ports, i, "addresses")) \subseteq DOMAIN Cidr
                                       /\ AclKnown(t, At(ports, i, "acl_in"))
           /\ \A x \in Ids(t, routes) : /\ x \in DOMAIN Cidr
                                        /\ One(t, At(routes, x, "next_hop")) \in Ips
                                        /\ NumAt(t, At(routes, x, "distance")) \in 0 .. 255

CheckAcls(t) ==
    \A a \in Ids(t, Acls) :
        LET rules == At(Acls, a, "rules")
        IN /\ Has(t, rules)
           /\ \A n \in Ids(t, rules) :
                  LET F(f) == One(t, At(rules, n, f))
                  IN /\ F("direction") \in {"", "ingress", "egress"}
                     /\ {F("source"), F("destination")} \subseteq {"", "any"} \cup DOMAIN Cidr
                     /\ F("protocol") \in {"", "tcp", "udp", "icmp", "any"}
                     /\ {F("source_port"), F("destination_port")} \subseteq {""} \cup Numbers
                     /\ F("action") \in {"permit", "deny"}

\* One inside switch and one outside VRF, whose interface has an address.
CheckNat(t) ==
    LET F(n, f) == One(t, NatRules \o <<n>> \o f)
        rules == Ids(t, NatRules)
        out(n) == F(n, <<"action", "interface">>)
        owners(n) == {r \in Ids(t, Vrfs) : out(n) \in Ids(t, At(Vrfs, r, "l3_interfaces"))}
        owner(n) == FoldLeft(LAMBDA o, r : IF r \in owners(n) THEN r ELSE o, "", Val(t, Vrfs))
    IN /\ \A p \in Ids(t, NatPools) :
              ToSet(t[At(NatPools, p, "address_range")]) \subseteq Ips
       /\ \A n \in rules :
              /\ F(n, <<"match_source">>) \in DOMAIN Cidr
              /\ F(n, <<"virtual_switch">>) \in Typed(t, "l3")
              /\ owners(n) # {}
              /\ Has(t, <<"vrfs", owner(n), "l3_interfaces", out(n), "addresses">>)
              /\ F(n, <<"action", "source_pool">>) \in {""} \cup Ids(t, NatPools)
       /\ \A m, n \in rules : /\ F(m, <<"virtual_switch">>) = F(n, <<"virtual_switch">>)
                              /\ owner(m) = owner(n)
       /\ \A i \in Ids(t, <<"nat", "static">>) :
              {i, One(t, <<"nat", "static", i, "outside_ip">>)} \subseteq Ips

CheckPortMirroring(t) ==
    \A m \in Ids(t, Mirrors) :
        LET F(f) == At(Mirrors, m, "source") \o <<f>>
        IN /\ Cardinality({k \in {"interface", "vnf"} : Has(t, F(k))}) = 1
           /\ Has(t, F("interface")) => One(t, F("interface")) \in AnyIface(t)
           /\ Has(t, F("vnf")) => <<One(t, F("vnf")), One(t, F("vnf_interface"))>> \in VmVnics(t)
           /\ One(t, F("direction")) \in {"ingress", "egress", "both"}
           /\ One(t, At(Mirrors, m, "analyzer")) \in Phys(t)

CheckQos(t) ==
    \A q \in Ids(t, Policies), k \in {"cir", "cbs"} : NumAt(t, At(Policies, q, k)) > 0

CheckResourcePools(t) ==
    LET numa == <<"resource_pools", "cpu", "numa">>
    IN /\ \A s \in PoolSizes(t) :
              s \in {"2M", "1G"} /\ NumAt(t, <<"resource_pools", "hugepages", s, "count">>) > 0
       /\ \A n \in Ids(t, numa) : Num[n] >= 0 /\ Ids(t, At(numa, n, "cores")) \subseteq Isolated(t)

CheckVpp(t) ==
    LET F(o, f) == <<"vpp", o, f>>
        workers == One(t, F("cpu", "corelist_workers"))
        preference == One(t, F("memory", "hugepage_preference"))
        plugins == <<"vpp", "plugins">>
    IN /\ NumAt(t, F("cpu", "main_core")) # 0 => One(t, F("cpu", "main_core")) \in Isolated(t)
       /\ workers # "" => /\ workers \in DOMAIN CoreList
                          /\ Has(t, <<"resource_pools", "cpu">>)
                          /\ ToSet(CoreList[workers]) \subseteq Isolated(t)
                          /\ NumAt(t, F("cpu", "workers_per_numa")) = 0
       /\ preference \in {""} \cup PoolSizes(t)
       /\ Ids(t, PerDev) \subseteq Phys(t)
       /\ One(t, F("dpdk", "uio_driver")) \in {"", "vfio-pci", "igb-uio"}
       /\ \A p \in Ids(t, plugins) : One(t, At(plugins, p, "state")) \in {"enable", "disable"}

CheckProtocols(t) == Ids(t, Append(Lldp, "interfaces")) \subseteq Phys(t)

\* A physical interface with a VF in use is no port of an L2 switch.
InDataPath(t, pf) ==
    \E b \in Typed(t, "l2") : \E n \in Ids(t, At(Switches, b, "ports")) :
        One(t, At(Switches, b, "ports") \o <<n, "interface">>) = pf

VnicOk(t, m, p) ==
    LET type == One(t, Append(p, "type"))
        pf == One(t, p \o <<"sriov", "physical_interface">>)
    IN /\ type \in {"vhost-user", "sriov-vf"}
       /\ type = "vhost-user" => One(t, At(Machines, m, "memory") \o <<"backing">>) # "normal"
       /\ type = "sriov-vf" => pf \in Phys(t) /\ ~InDataPath(t, pf)
       /\ One(t, Append(p, "virtual_switch")) \in {""} \cup Ids(t, Switches)
       /\ Has(t, Append(p, "vlan")) => IsVlan(One(t, Append(p, "vlan")))

CheckVMFunctions(t) ==
    \A m \in Ids(t, Machines) :
        LET F(f) == Append(Machines, m) \o f
        IN /\ Has(t, F(<<"image">>))
           /\ NumAt(t, F(<<"vcpu", "count">>)) > 0 /\ NumAt(t, F(<<"memory", "size_mb">>)) > 0
           /\ One(t, F(<<"memory", "hugepage_size">>)) \in {""} \cup PoolSizes(t)
           /\ One(t, F(<<"memory", "backing">>)) \in {"", "hugepage", "normal"}
           /\ \A d \in Ids(t, F(<<"disks">>)) :
                  Has(t, F(<<"disks", d, "size_gb">>)) # Has(t, F(<<"disks", d, "image">>))
           /\ \A n \in Ids(t, F(<<"interfaces">>)) : VnicOk(t, m, F(<<"interfaces", n>>))

CheckContainerFunctions(t) ==
    \A c \in Ids(t, Containers) :
        LET F(f) == Append(Containers, c) \o f
        IN /\ Has(t, F(<<"image">>))
           /\ One(t, F(<<"restart_policy">>)) \in {"", "no", "on-failure"}
           /\ \A n \in Ids(t, F(<<"interfaces">>)) :
                  /\ One(t, F(<<"interfaces", n, "type">>)) = "memif"
                  /\ One(t, F(<<"interfaces", n, "virtual_switch">>)) \in {""} \cup Ids(t, Switches)

\* macOwner: no MAC address twice, over machines and containers.
MacUnique(t) ==
    LET mac(fns, x) == One(t, At(fns, x[1], "interfaces") \o <<x[2], "mac">>)
        used == {<<"vm", x, mac(Machines, x)>> : x \in VmVnics(t)}
                \cup {<<"ct", x, mac(Containers, x)>> : x \in CtVnics(t)}
    IN \A a, b \in used : a # b => a[3] # b[3] \/ a[3] = ""

\* checkAddressOverlap: of the addresses of the management port, of L3
\* interfaces and of gateways, each by its place.
CheckAddressOverlap(t) ==
    LET places == {<<"system", "management", "address">>}
                  \cup UNION {{At(Vrfs, r, "l3_interfaces") \o <<i, "addresses">> :
                                i \in Ids(t, At(Vrfs, r, "l3_interfaces"))} : r \in Ids(t, Vrfs)}
                  \cup {At(Switches, b, "gateway") \o <<"addresses">> : b \in Ids(t, Switches)}
        used == UNION {{<<p, a>> : a \in Ids(t, p) \cap DOMAIN Cidr} : p \in places}
    IN \A x, y \in used : x # y => Cidr[x[2]] \cap Cidr[y[2]] = {}

\* The roles that an interface has, each with the place that gives it.
Roles(t) ==
    LET mirror(m) == {<<At(Mirrors, m, "source"), One(t, At(Mirrors, m, "source") \o <<"interface">>)>>,
                      <<At(Mirrors, m, "analyzer"), One(t, At(Mirrors, m, "analyzer"))>>}
    IN UNION {{<<At(Bonds, b, "members"), m>> : m \in Ids(t, At(Bonds, b, "members"))} :
              b \in Ids(t, Bonds)}
       \cup UNION {{<<At(Switches, b, "ports") \o <<n>>,
                      One(t, At(Switches, b, "ports") \o <<n, "interface">>)>> :
                    n \in Ids(t, At(Switches, b, "ports"))} : b \in Ids(t, Switches)}
       \cup UNION {{<<At(Vrfs, r, "l3_interfaces"), i>> : i \in Ids(t, At(Vrfs, r, "l3_interfaces"))} :
                   r \in Ids(t, Vrfs)}
       \cup UNION {mirror(m) : m \in Ids(t, Mirrors)}

CheckPortRoleExclusivity(t) ==
    \A x, y \in {z \in Roles(t) : L3IfaceExists(t, z[2])} : x[2] = y[2] => x = y

CheckManagementIsolation(t) ==
    LET mgmt == One(t, <<"system", "management", "interface">>)
    IN mgmt # "" => mgmt \notin Phys(t) \cup Ids(t, PerDev) \cup {x[2] : x \in Roles(t)}

\* Validate.
Valid(t) ==
    /\ CheckSystem(t) /\ CheckSystemLogin(t) /\ CheckHealth(t)
    /\ CheckInterfaces(t) /\ CheckBonds(t) /\ CheckVirtualSwitches(t)
    /\ CheckVrfs(t) /\ CheckAcls(t) /\ CheckNat(t)
    /\ CheckPortMirroring(t) /\ CheckQos(t)
    /\ CheckResourcePools(t) /\ CheckVpp(t) /\ CheckProtocols(t)
    /\ CheckVMFunctions(t) /\ CheckContainerFunctions(t) /\ MacUnique(t)
    /\ CheckAddressOverlap(t) /\ CheckPortRoleExclusivity(t) /\ CheckManagementIsolation(t)
=============================================================================
