--------------------------- MODULE Requirements -----------------------------
(***************************************************************************)
(* What OperationGraph::new of src/target_modules/graph.rs asks of a       *)
(* daemon or a target before it plans a resource: the capabilities its     *)
(* fields require, and the two settings no capability admits.              *)
(***************************************************************************)
EXTENDS Resources

When(condition, capabilities) == IF condition THEN capabilities ELSE {}

NetworkRequires(n) ==
  IF n.external
  THEN {"NetworkExternalReference"}
         \cup When(n.expected_internal # <<>>, {"NetworkExternalInternalExpectation"})
  ELSE {"BridgeNetwork"}
         \cup When(n.internal, {"NetworkInternal"})
         \cup When(n.enable_ipv6, {"NetworkIpv6"})
         \cup When(n.ipam # <<>>, {"NetworkIpam"})
         \cup When(\E ipam \in Range(n.ipam) : ipam.driver # <<>>, {"NetworkIpamDriver"})
         \cup When(n.options # <<>>, {"NetworkOptions"})
         \cup When(n.labels # <<>>, {"NetworkLabels"})

VolumeRequires(v) ==
  IF v.external THEN {"VolumeExternalReference"}
  ELSE {"NamedVolume"} \cup When(v.labels # <<>>, {"VolumeLabels"})

BindingRequires_AnyFamily(b) ==     \* mutant: an IPv6 host address passes for an IPv4 one
  When(b.host_ip # <<>>, {"PortHostIpv4"}) \cup When(b.host_port = Ephemeral, {"PortEphemeral"})
BindingRequires(b) ==
  {IF ip.family = "v4" THEN "PortHostIpv4" ELSE "PortHostIpv6" : ip \in Range(b.host_ip)}
    \cup When(b.host_port = Ephemeral, {"PortEphemeral"})

PortRequires(p) ==
  {IF p.bindings = <<>> THEN "PortExposeOnly" ELSE "PortPublish"}
    \cup When(Len(p.bindings) > 1, {"PortMultipleBindings"})
    \cup UNION {BindingRequires(b) : b \in Range(p.bindings)}

MountRequires(m) ==
  {CASE m.type = "bind" -> "BindMount" [] m.type = "volume" -> "NamedVolume"
     [] m.type = "tmpfs" -> "TmpfsMount"}
    \cup {IF r = "shared" THEN "BindRelabelShared" ELSE "BindRelabelPrivate" : r \in Range(m.relabel)}

AttachmentsRequire(networks) ==
  When(networks # <<>>, {"BridgeNetwork"})
    \cup When(Len(networks) > 1, {"NetworkMultipleAttachment"})
    \cup When(\E a \in Range(networks) : a.aliases # <<>>, {"NetworkAliases"})
    \cup When(\E a \in Range(networks) : a.ipv4 # <<>> \/ a.ipv6 # <<>>, {"NetworkStaticAddress"})

CommandRequires(command, clear, exec) ==
  When(command.form = "clear", {clear}) \cup When(command.form = "exec", {exec})

HealthRequires(h) ==
  {CASE h.form = "exec" -> "Healthcheck" [] h.form = "shell" -> "HealthShell"
     [] h.form = "disabled" -> "HealthDisabled"}
    \cup When(h.start_period # <<>>, {"HealthStartPeriod"})
    \cup When(h.start_interval # <<>>, {"HealthStartInterval"})

\* A setting is a list or an Option: it requires something when it is there.
SettingCapabilities ==
  [labels |-> {"ContainerLabels"}, user |-> {"ContainerUser"}, working_dir |-> {"ContainerWorkdir"},
   hostname |-> {"ContainerHostname"}, read_only_rootfs |-> {"ReadOnlyRootfs"},
   init |-> {"ContainerInit"}, stop_signal |-> {"StopSignal"}, stop_timeout |-> {"StopTimeout"},
   memory |-> {"MemoryLimit"}, pids |-> {"PidsLimit"}, shm |-> {"ShmSize"},
   ulimits |-> {"Ulimits", "UlimitNofile"}, devices |-> {"DeviceMappings"},
   cap_add |-> {"LinuxCapabilities", "CapAddNetBindService"},
   cap_drop |-> {"LinuxCapabilities", "CapDropSysAdmin"}, security |-> {"SecurityOptions"},
   sysctls |-> {"Sysctls", "SysctlIpv4Forward"}, group_add |-> {"SupplementaryGroups"},
   dns |-> {"DnsServers"}, extra_hosts |-> {"ExtraHosts"}, log |-> {"LogConfig"},
   userns |-> {"UserNamespace"}]
SettingsRequire(settings) ==
  (UNION {SettingCapabilities[k] : k \in {j \in DOMAIN settings : settings[j] # <<>>}})
    \cup When(\E log \in Range(settings.log) : log.options # <<>>, {"LogOptionMaxSize"})

ContainerRequires(c) ==
  {"StandaloneContainer"}
    \cup (UNION {PortRequires(p) : p \in Range(c.ports)})
    \cup (UNION {MountRequires(m) : m \in Range(c.mounts)})
    \cup AttachmentsRequire(c.networks)
    \cup When(c.environment # <<>>, {"EnvironmentAssignment"})
    \cup CommandRequires(c.command, "CommandClear", "Command")
    \cup CommandRequires(c.entrypoint, "EntrypointClear", "Entrypoint")
    \cup (UNION {HealthRequires(h) : h \in Range(c.healthcheck)})
    \cup When(c.restart # <<>>, {"RestartPolicy"})
    \cup SettingsRequire(c.settings)

Requires(s) ==
  CASE s.kind = "Container" -> ContainerRequires(s)
    [] s.kind = "Network"   -> NetworkRequires(s)
    [] s.kind = "Volume"    -> VolumeRequires(s)

\* The capability a resource is asked about first, whatever its fields say.
BaseCapability(s) ==
  CASE s.kind = "Container" -> "StandaloneContainer"
    [] s.kind = "Network"   -> IF s.external THEN "NetworkExternalReference" ELSE "BridgeNetwork"
    [] s.kind = "Volume"    -> IF s.external THEN "VolumeExternalReference" ELSE "NamedVolume"

\* A bridge pool of /31 or /32: no evidence of what the Engine does with it.
Narrow(s) ==
  /\ s.kind = "Network" /\ ~s.external
  /\ \E ipam \in Range(s.ipam) : \E pool \in Range(ipam.pools) :
       pool.subnet.family = "v4" /\ pool.subnet.prefix >= 31

\* A fixed host port below 1024, which a rootless daemon cannot bind.
Restricted(s) ==
  /\ s.kind = "Container"
  /\ \E p \in Range(s.ports) : \E b \in Range(p.bindings) :
       b.host_port # Ephemeral /\ b.host_port < 1024

\* The first complaint about a resource, or the empty text.
ResourceError(s, supports, mode) ==
  IF BaseCapability(s) \notin supports THEN "MissingCapability"
  ELSE IF Narrow(s) THEN "UnsupportedNetworkIpam"
  ELSE IF Restricted(s) /\ mode = "Rootless" THEN "RestrictedPort"
  ELSE IF ~(Requires(s) \subseteq supports) THEN "MissingCapability"
  ELSE ""
=============================================================================
