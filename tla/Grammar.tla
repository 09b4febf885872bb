------------------------------ MODULE Grammar ------------------------------
(***************************************************************************)
(* The statement tree (internal/schema/tree_config.go): the keywords that  *)
(* set and delete walk over when no alias takes the statement, children    *)
(* in the order of their names.  Texts for help and completion are left    *)
(* out, and so are keywords that only aliases read.                        *)
(***************************************************************************)
EXTENDS Sequences, TLC

LOCAL Node(w, sort, type, field, kids) ==
    [word |-> w, sort |-> sort, type |-> type, field |-> field, kids |-> kids]

\* jsonKeyOf: the JSON key of a keyword.
Dashed == ("idle-timeout-minutes" :> "idle_timeout_minutes"
           @@ "token-ttl-minutes" :> "token_ttl_minutes"
           @@ "max-sessions" :> "max_sessions" @@ "nmi-watchdog" :> "nmi_watchdog"
           @@ "transparent-hugepages" :> "transparent_hugepages"
           @@ "low-latency" :> "low_latency" @@ "tuned-profile" :> "tuned_profile"
           @@ "password-policy" :> "password_policy" @@ "min-length" :> "min_length"
           @@ "expire-days" :> "expire_days" @@ "lockout-threshold" :> "lockout_threshold"
           @@ "lockout-minutes" :> "lockout_minutes"
           @@ "virtual-switches" :> "virtual_switches" @@ "acl-in" :> "acl_in"
           @@ "acl-out" :> "acl_out" @@ "port-mirroring" :> "port_mirroring"
           @@ "resource-pools" :> "resource_pools" @@ "isolated-cores" :> "isolated_cores"
           @@ "main-core" :> "main_core" @@ "corelist-workers" :> "corelist_workers"
           @@ "workers-per-numa" :> "workers_per_numa"
           @@ "main-heap-size" :> "main_heap_size"
           @@ "buffers-per-numa" :> "buffers_per_numa"
           @@ "hugepage-preference" :> "hugepage_preference"
           @@ "uio-driver" :> "uio_driver"
           @@ "virtual-machine-functions" :> "virtual_machine_functions"
           @@ "size-mb" :> "size_mb" @@ "hugepage-size" :> "hugepage_size"
           @@ "size-gb" :> "size_gb" @@ "virtual-switch" :> "virtual_switch"
           @@ "physical-interface" :> "physical_interface" @@ "ssh-key" :> "ssh_key"
           @@ "cloud-init" :> "cloud_init" @@ "user-data" :> "user_data"
           @@ "container-functions" :> "container_functions"
           @@ "restart-policy" :> "restart_policy")
JsonKey(w) == IF w \in DOMAIN Dashed THEN Dashed[w] ELSE w

K(w, kids) == Node(w, "object", "", JsonKey(w), kids)      \* a container
P(w, type, kids) == Node(w, "array", type, JsonKey(w), kids)  \* an array of elements
V(w, type) == Node(w, "value", type, JsonKey(w), <<>>)     \* a value leaf
VK(w, type, kids) == Node(w, "value", type, JsonKey(w), kids)
SP(w, field, kids) == Node(w, "scalar", "text", field, kids)  \* a transparent parameter
SPA(w, field) == Node(w, "list", "text", field, <<>>)
Identity(w, marker, kids) == Node(w, "identity", marker, JsonKey(w), kids)

SystemKids ==
    <<K("api", <<V("max-sessions", "number"), V("port", "number"),
                 V("token-ttl-minutes", "number")>>),
      K("health", <<>>), V("hostname", "text"), V("idle-timeout-minutes", "number"),
      K("kernel", <<V("iommu", "text"), V("low-latency", "flag"), V("nmi-watchdog", "flag"),
                    SPA("params", "params"), V("transparent-hugepages", "text"),
                    V("tuned-profile", "text")>>),
      K("login", <<K("password-policy",
            <<V("complexity", "flag"), V("expire-days", "number"),
              V("lockout-minutes", "number"), V("lockout-threshold", "number"),
              V("min-length", "number")>>)>>),
      K("management", <<V("gateway", "text"), SP("interface", "interface", <<>>)>>),
      K("ntp", <<>>), K("syslog", <<>>), V("timezone", "text")>>

InterfaceKids ==
    <<V("description", "text"), K("disable", <<>>), V("mtu", "number")>>

BondKids ==
    <<V("description", "text"),
      K("lacp", <<K("disable", <<>>), VK("mode", "text", <<V("interval", "text")>>)>>),
      P("members", "text", <<>>), V("mtu", "number")>>

SwitchKids ==
    <<K("gateway", <<SP("acl-in", "acl_in", <<>>), SP("acl-out", "acl_out", <<>>),
                     SP("vrf", "vrf", <<>>)>>),
      P("ports", "number",
        <<SP("interface", "interface", <<K("native", <<>>), K("trunk", <<>>)>>),
          K("vnf", <<>>), K("container", <<>>)>>),
      V("type", "text"), K("vlan", <<>>)>>

PoolKids ==
    <<K("cpu", <<V("isolated-cores", "cores"), K("numa", <<>>)>>),
      Identity("hugepages", "page-size", <<V("count", "number")>>)>>

VppKids ==
    <<K("cpu", <<V("corelist-workers", "text"), V("main-core", "number"),
                 V("workers-per-numa", "number")>>),
      K("dpdk", <<K("dev", <<>>), V("uio-driver", "text")>>),
      K("memory", <<V("buffers-per-numa", "number"), V("hugepage-preference", "text"),
                    V("main-heap-size", "text")>>),
      P("plugins", "text", <<V("state", "text")>>)>>

MachineKids ==
    <<V("autostart", "flag"),
      K("cloud-init", <<V("hostname", "text"), SPA("ssh-key", "ssh_keys"),
                        V("user-data", "text")>>),
      V("description", "text"),
      P("disks", "text", <<SP("image", "image", <<>>), V("size-gb", "number")>>),
      SP("image", "image", <<>>),
      P("interfaces", "text",
        <<V("mac", "text"),
          K("sriov", <<SP("physical-interface", "physical_interface",
                          <<V("vf", "number")>>)>>),
          V("type", "text"), SP("virtual-switch", "virtual_switch", <<>>),
          V("vlan", "number")>>),
      K("memory", <<V("backing", "text"), V("hugepage-size", "text"), K("numa", <<>>),
                    V("size-mb", "number")>>),
      K("serial", <<>>),
      K("vcpu", <<V("count", "number"), V("pin", "flag")>>)>>

ContainerKids ==
    <<V("autostart", "flag"), V("command", "text"), V("description", "text"),
      K("env", <<>>), SP("image", "image", <<>>),
      P("interfaces", "text",
        <<V("mac", "text"), V("type", "text"), SP("virtual-switch", "virtual_switch", <<>>),
          V("vlan", "number")>>),
      K("memory", <<>>), V("restart-policy", "text"), K("vcpu", <<>>)>>

\* ConfigPathTree.
Root ==
    K("", <<P("acls", "text", <<>>), P("bonds", "text", BondKids),
            P("container-functions", "text", ContainerKids),
            P("interfaces", "text", InterfaceKids), K("nat", <<>>),
            P("port-mirroring", "text", <<K("analyzer", <<>>), K("source", <<>>)>>),
            K("protocols", <<K("lldp", <<>>)>>), K("resource-pools", PoolKids),
            K("system", SystemKids),
            P("virtual-machine-functions", "text", MachineKids),
            P("virtual-switches", "text", SwitchKids), K("vpp", VppKids)>>)
=============================================================================
