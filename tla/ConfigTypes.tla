---------------------------- MODULE ConfigTypes ----------------------------
(***************************************************************************)
(* The structs of the configuration (internal/model/model.go): for each,   *)
(* its JSON fields and what each holds, "word" for a scalar or a list of   *)
(* scalars, else the name of a struct.  Decoding refuses any other field   *)
(* (cliexec.go: fromJSONTree, DisallowUnknownFields).                      *)
(***************************************************************************)
EXTENDS Tree

LOCAL Words(names) == [n \in names |-> "word"]

RootTypes ==
    [Config |-> [system |-> "System", interfaces |-> "Interface", bonds |-> "Bond",
                 virtual_switches |-> "Switch", vrfs |-> "Vrf", acls |-> "Acl",
                 nat |-> "Nat", port_mirroring |-> "Mirror", qos_policies |-> "Qos",
                 resource_pools |-> "Pools", vpp |-> "Vpp", protocols |-> "Protocols",
                 virtual_machine_functions |-> "Machine",
                 container_functions |-> "Container"]]

SystemTypes ==
    [System |-> Words({"hostname", "timezone", "dns_servers", "idle_timeout_minutes"})
                @@ [kernel |-> "Kernel", ntp |-> "Ntp", management |-> "Mgmt",
                    login |-> "Login", syslog |-> "Syslog", api |-> "Api",
                    health |-> "Health"],
     Health |-> Words({"cpu_temp_celsius", "disk_temp_celsius", "disk_used_percent"}),
     Login |-> [users |-> "User", classes |-> "Class", password_policy |-> "Policy"],
     User |-> Words({"password_hash", "class"}),
     Class |-> Words({"allow", "deny"}),
     Policy |-> Words({"min_length", "complexity", "expire_days", "lockout_threshold",
                       "lockout_minutes"}),
     Ntp |-> Words({"prefer"}),
     Mgmt |-> Words({"interface", "address", "gateway"}),
     Syslog |-> Words({"remote_host", "remote_port", "facility", "severity", "level",
                       "retention_days", "max_size_mb"}),
     Api |-> Words({"port", "token_ttl_minutes", "max_sessions", "cert_file", "key_file",
                    "tls_self_signed"}),
     Kernel |-> Words({"nmi_watchdog", "transparent_hugepages", "iommu", "low_latency",
                       "tuned_profile", "params"})]

NetworkTypes ==
    [Interface |-> Words({"description", "mtu", "enabled", "ingress_policy"})
                   @@ [sriov |-> "Sriov"],
     Sriov |-> Words({"vf_count"}),
     Bond |-> Words({"members", "mtu", "description"}) @@ [lacp |-> "Lacp"],
     Lacp |-> Words({"mode", "interval"}),
     Switch |-> Words({"type", "description", "vlan_access", "cross_connect"})
                @@ [gateway |-> "Gateway", ports |-> "Port"],
     Vrf |-> Words({"description"}) @@ [l3_interfaces |-> "L3", routes |-> "Route"],
     Gateway |-> Words({"addresses", "vrf", "acl_in", "acl_out"}),
     Port |-> Words({"interface", "vnf", "vnf_interface", "container",
                     "container_interface", "trunk", "native", "acl_in", "acl_out"}),
     L3 |-> Words({"vlan", "addresses", "acl_in"}),
     Route |-> Words({"next_hop", "distance"})]

ServiceTypes ==
    [Acl |-> Words({"description"}) @@ [rules |-> "AclRule"],
     AclRule |-> Words({"direction", "source", "destination", "protocol", "source_port",
                        "destination_port", "action"}),
     Nat |-> [source_pools |-> "NatPool", rules |-> "NatRule", static |-> "NatStatic"],
     NatPool |-> Words({"address_range"}),
     NatRule |-> Words({"match_source", "virtual_switch"}) @@ [action |-> "NatAction"],
     NatAction |-> Words({"source_pool", "interface"}),
     NatStatic |-> Words({"outside_ip"}),
     Mirror |-> Words({"analyzer"}) @@ [source |-> "MirrorSource"],
     MirrorSource |-> Words({"interface", "vnf", "vnf_interface", "direction"}),
     Qos |-> Words({"cir", "cbs"})]

PlatformTypes ==
    [Pools |-> [hugepages |-> "HPool", cpu |-> "CpuSetup"],
     HPool |-> Words({"count"}),
     CpuSetup |-> Words({"isolated_cores"}) @@ [numa |-> "NumaNode"],
     NumaNode |-> Words({"cores"}),
     Vpp |-> [cpu |-> "VppCpu", memory |-> "VppMemory", dpdk |-> "Dpdk",
              plugins |-> "Plugin"],
     VppCpu |-> Words({"main_core", "corelist_workers", "workers_per_numa"}),
     VppMemory |-> Words({"main_heap_size", "buffers_per_numa", "hugepage_preference"}),
     Dpdk |-> Words({"uio_driver"}) @@ [dev |-> "Dev", per_dev |-> "Dev"],
     Dev |-> Words({"rx_queues", "tx_queues", "rx_descriptors", "tx_descriptors"}),
     Plugin |-> Words({"state"}),
     Protocols |-> [lldp |-> "Lldp"],
     Lldp |-> Words({"enabled", "advertisement_interval"}) @@ [interfaces |-> "LldpPort"],
     LldpPort |-> Words({"enabled"})]

FunctionTypes ==
    [Machine |-> Words({"description", "image", "serial_console", "autostart"})
                 @@ [vcpu |-> "VmCpu", memory |-> "VmMemory", disks |-> "Disk",
                     interfaces |-> "Nic", cloud_init |-> "CloudInit"],
     VmCpu |-> Words({"count", "pin"}),
     VmMemory |-> Words({"size_mb", "hugepage_size", "numa_node", "backing"}),
     Disk |-> Words({"size_gb", "image"}),
     Nic |-> Words({"type", "virtual_switch", "mac", "vlan"}) @@ [sriov |-> "VfBind"],
     VfBind |-> Words({"physical_interface", "vf_id"}),
     CloudInit |-> Words({"user_data", "ssh_keys", "hostname"}),
     Container |-> Words({"description", "image", "vcpu", "memory_mb", "command", "args",
                          "restart_policy", "autostart"})
                   @@ [interfaces |-> "Nic", env |-> "Env"]]

Types == RootTypes @@ SystemTypes @@ NetworkTypes @@ ServiceTypes @@ PlatformTypes
         @@ FunctionTypes

\* What the path p holds below type s; an element's identity is no field.
RECURSIVE TypeBelow(_, _)
TypeBelow(s, p) ==
    CASE p = <<>> -> s
      [] p # <<>> /\ s = "Env" -> IF Len(p) = 1 THEN "word" ELSE "unknown"
      [] p # <<>> /\ s # "Env" ->
           IF s = "word" \/ Head(p) \notin DOMAIN Types[s] THEN "unknown"
           ELSE TypeBelow(Types[s][Head(p)],
                          IF Head(p) \in Arrays /\ Len(p) > 1 THEN Tail(Tail(p)) ELSE Tail(p))

\* fromJSONTree: an unknown field is an error, else zero values are dropped.
Decode(t) ==
    IF t = Refused \/ \E p \in DOMAIN t : TypeBelow("Config", p) = "unknown" THEN Refused
    ELSE Normal(t)
=============================================================================
