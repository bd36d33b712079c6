------------------------------ MODULE Branches ------------------------------
(***************************************************************************)
(* Which of its branches DockerApiRenderer takes for a resource            *)
(* (src/target_modules/render.rs, render/container.rs, render/network.rs), *)
(* by the name NativeCapabilityShape has for the branch.                   *)
(***************************************************************************)
EXTENDS Requirements

PoolBranches(pool) ==
  {IF pool.subnet.family = "v4" THEN "NetworkIpamV4" ELSE "NetworkIpamV6"}
    \cup When(pool.gateway # <<>>, {"NetworkIpamGateway"})
    \cup When(pool.ip_range # <<>>, {"NetworkIpamRange"})
    \cup When(pool.auxiliary # <<>>, {"NetworkIpamAuxiliary"})

OptionBranch(o) ==
  CASE o.option = "mtu" -> "NetworkBridgeMtu"
    [] o.option = "icc" -> IF o.enabled THEN "NetworkBridgeIcc" ELSE "NetworkBridgeIccDisabled"
    [] o.option = "masquerade" -> IF o.enabled THEN "NetworkBridgeMasqueradeEnabled"
                                  ELSE "NetworkBridgeMasquerade"
    [] o.option = "host_binding" -> "NetworkBridgeHostBindingIp"

NetworkBranches(n) ==
  IF n.external
  THEN {"ExternalNetworkReference"}
         \cup {IF e THEN "ExternalNetworkInternalTrue" ELSE "ExternalNetworkInternalFalse" :
                 e \in Range(n.expected_internal)}
  ELSE {"BridgeNetworkCreate"}
         \cup When(n.internal, {"InternalBridgeNetworkCreate"})
         \cup When(n.enable_ipv6, {"Ipv6BridgeNetworkCreate"})
         \cup (UNION {When(ipam.driver # <<>>, {"NetworkIpamDefaultDriver"})
                        \cup UNION {PoolBranches(p) : p \in Range(ipam.pools)} : ipam \in Range(n.ipam)})
         \cup {OptionBranch(o) : o \in Range(n.options)}
         \cup When(n.labels # <<>>, {"NetworkCreateLabels"})

VolumeBranches(v) ==
  IF v.external THEN {"ExternalVolumeReference"}
  ELSE {"NamedVolumeCreate"} \cup When(v.labels # <<>>, {"VolumeCreateLabels"})

BindingBranches(b, protocol) ==
  LET ephemeral == b.host_port = Ephemeral IN
  {IF ephemeral THEN "EphemeralHostPort" ELSE IF protocol = "tcp" THEN "FixedTcpPort" ELSE "FixedUdpPort"}
    \cup {IF ip.family = "v4"
          THEN IF ephemeral THEN "EphemeralIpv4HostPort" ELSE "FixedIpv4HostPort"
          ELSE IF ephemeral THEN "EphemeralIpv6HostPort" ELSE "FixedIpv6HostPort" :
            ip \in Range(b.host_ip)}
PortBranches(p) ==
  When(p.bindings = <<>>, {"ExposedOnlyPort"})
    \cup (UNION {BindingBranches(b, p.protocol) : b \in Range(p.bindings)})
    \cup When(Len(p.bindings) > 1,
              {IF b.host_port = Ephemeral THEN "MultipleEphemeralPortBindings"
               ELSE "MultipleFixedPortBindings" : b \in Range(p.bindings)})

MountBranches(m) ==
  LET by(read_write, read_only) == IF m.read_only THEN read_only ELSE read_write IN
  CASE m.relabel = <<"shared">> ->
         {by("BindMountSharedRelabelReadWrite", "BindMountSharedRelabelReadOnly")}
    [] m.relabel = <<"private">> ->
         {by("BindMountPrivateRelabelReadWrite", "BindMountPrivateRelabelReadOnly")}
    [] m.relabel = <<>> /\ m.type = "bind" -> {by("BindMountReadWrite", "BindMountReadOnly")}
    [] m.type = "volume" -> {by("NamedVolumeMountReadWrite", "NamedVolumeMountReadOnly")}
    [] m.type = "tmpfs" -> {by("TmpfsMountReadWrite", "TmpfsMountReadOnly")}
                             \cup When(m.size # <<>> \/ m.mode # <<>>, {"TmpfsMountOptions"})

\* The first attachment is part of the create request, the others connect.
AttachmentBranches(networks) ==
  UNION {{IF i = 1 THEN "BridgeNetworkAttach" ELSE "NetworkSecondaryConnect"}
           \cup When(networks[i].aliases # <<>>,
                     {IF i = 1 THEN "NetworkPrimaryAliases" ELSE "NetworkSecondaryAliases"})
           \cup When(networks[i].ipv4 # <<>>, {"NetworkStaticIpv4"})
           \cup When(networks[i].ipv6 # <<>>, {"NetworkStaticIpv6"}) : i \in DOMAIN networks}

ZeroOr(option, zero, positive) == {IF x = 0 THEN zero ELSE positive : x \in Range(option)}
HealthBranches(h) ==
  {CASE h.form = "exec" -> "ExecHealthcheck" [] h.form = "shell" -> "ShellHealthcheck"
     [] h.form = "disabled" -> "DisabledHealthcheck"}
    \cup ZeroOr(h.start_period, "HealthStartPeriodZero", "HealthStartPeriodPositive")
    \cup ZeroOr(h.start_interval, "HealthStartIntervalZero", "HealthStartIntervalPositive")

RestartBranch(r) ==
  CASE r.name = "no" -> "RestartNo" [] r.name = "always" -> "RestartAlways"
    [] r.name = "unless-stopped" -> "RestartUnlessStopped"
    [] r.name = "on-failure" -> IF r.retries = 0 THEN "RestartOnFailureUnlimited"
                                ELSE "RestartOnFailureLimited"

Flag(option, yes, no) == {IF x THEN yes ELSE no : x \in Range(option)}
Limit(option, unlimited, counted) == {IF x = Unlimited THEN unlimited ELSE counted : x \in Range(option)}
Family(addresses, v4, v6) == {IF a.family = "v4" THEN v4 ELSE v6 : a \in Range(addresses)}
LogBranches(log) ==
  {CASE log.driver = "json-file" -> "LogJsonFile" [] log.driver = "local" -> "LogLocal"
     [] log.driver = "none" -> "LogNone"}
    \cup When(log.options # <<>>, {"LogOptions"})
    \cup When(\E o \in Range(log.options) : o.key = "max-size", {"LogOptionMaxSize"})
SettingsBranches(s) ==
  When(s.labels # <<>>, {"ContainerCreateLabels"}) \cup When(s.user # <<>>, {"ContainerUser"})
    \cup When(s.working_dir # <<>>, {"ContainerWorkdir"})
    \cup When(s.hostname # <<>>, {"ContainerHostname"})
    \cup Flag(s.read_only_rootfs, "ReadOnlyRootfsTrue", "ReadOnlyRootfsFalse")
    \cup Flag(s.init, "ContainerInitTrue", "ContainerInitFalse")
    \cup When(s.stop_signal # <<>>, {"StopSignal"})
    \cup ZeroOr(s.stop_timeout, "StopTimeoutZero", "StopTimeoutPositive")
    \cup Limit(s.memory, "MemoryUnlimited", "MemoryBytes")
    \cup Limit(s.pids, "PidsUnlimited", "PidsCount")
    \cup When(s.shm # <<>>, {"ShmSize"})
    \cup (UNION {Limit(<<u.soft, u.hard>>, "UlimitsUnlimited", "UlimitsFinite")
                   \cup When(u.name = "nofile", {"UlimitNofile"}) : u \in Range(s.ulimits)})
    \cup When(s.devices # <<>>, {"DeviceMappings"})
    \cup When(s.cap_add # <<>>, {"LinuxCapAdd", "CapAddNetBindService"})
    \cup When(s.cap_drop # <<>>, {"LinuxCapDrop", "CapDropSysAdmin"})
    \cup Flag(s.security, "NoNewPrivilegesEnabled", "NoNewPrivilegesDisabled")
    \cup When(s.sysctls # <<>>, {"Sysctls", "SysctlIpv4Forward"})
    \cup When(s.group_add # <<>>, {"SupplementaryGroups"})
    \cup Family(s.dns, "DnsIpv4", "DnsIpv6")
    \cup Family([i \in DOMAIN s.extra_hosts |-> s.extra_hosts[i].address],
                "ExtraHostsIpv4", "ExtraHostsIpv6")
    \cup UNION {LogBranches(log) : log \in Range(s.log)}

ContainerBranches(c) ==
  {"StandaloneCreate"}
    \cup {IF e.value = "" THEN "EnvironmentEmptyValue" ELSE "EnvironmentValue" : e \in Range(c.environment)}
    \cup When(c.entrypoint.form = "exec", {"ExecEntrypoint"})
    \cup When(c.entrypoint.form = "clear", {"ClearEntrypoint"})
    \cup When(c.command.form = "exec", {"ExecCommand"})
    \cup When(c.command.form = "clear", {"ClearCommand"})
    \cup (UNION {HealthBranches(h) : h \in Range(c.healthcheck)})
    \cup (UNION {PortBranches(p) : p \in Range(c.ports)})
    \cup (UNION {MountBranches(m) : m \in Range(c.mounts)})
    \cup AttachmentBranches(c.networks)
    \cup {RestartBranch(r) : r \in Range(c.restart)}
    \cup SettingsBranches(c.settings)

Branches(s) ==
  CASE s.kind = "Container" -> ContainerBranches(s)
    [] s.kind = "Network"   -> NetworkBranches(s)
    [] s.kind = "Volume"    -> VolumeBranches(s)
=============================================================================
