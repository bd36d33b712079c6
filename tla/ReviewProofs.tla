---------------------------- MODULE ReviewProofs ----------------------------
(***************************************************************************)
(* What is planned is what was reviewed, for every catalog and every       *)
(* resource the types of the target let a caller author.  The heart of it  *)
(* is a fact about four tables that the code keeps in three places: every  *)
(* branch the renderer takes for a resource is evidence required for some  *)
(* capability the planner requires of it.  Around it, what admission has   *)
(* established of the records it has let through.                          *)
(***************************************************************************)
EXTENDS Review, FiniteSetTheorems, WellFoundedInduction, TLAPS

\* The branches that native evidence of these capabilities exercises.
Evidence(capabilities) == UNION {RequiredFor[c] : c \in capabilities}

\* A shape that a capability needs is among the evidence for the capabilities.
LEMMA Shown ==
  ASSUME NEW C, NEW c \in C, NEW b \in RequiredFor[c]
  PROVE  b \in Evidence(C)
  BY DEF Evidence

\* More capabilities take no less evidence.
LEMMA EvidenceGrows ==
  ASSUME NEW C, NEW D, C \subseteq D
  PROVE  Evidence(C) \subseteq Evidence(D)
  BY DEF Evidence

(***************************************************************************)
(* Networks and volumes.                                                   *)
(***************************************************************************)
LEMMA VolumeShown ==
  ASSUME NEW v
  PROVE  VolumeBranches(v) \subseteq Evidence(VolumeRequires(v))
<1>1. \A c \in VolumeRequires(v) : RequiredFor[c] \subseteq Evidence(VolumeRequires(v))
  BY Shown
<1>2. CASE v.external
  BY <1>1, <1>2 DEF VolumeBranches, VolumeRequires, RequiredFor
<1>3. CASE ~v.external
  <2>1. "NamedVolumeCreate" \in Evidence(VolumeRequires(v))
    <3>1. "NamedVolume" \in VolumeRequires(v)
      BY <1>3 DEF VolumeRequires
    <3>. QED BY <1>1, <3>1 DEF RequiredFor
  <2>2. v.labels # <<>> => "VolumeCreateLabels" \in Evidence(VolumeRequires(v))
    BY <1>1, <1>3 DEF VolumeRequires, When, RequiredFor
  <2>. HIDE DEF Evidence
  <2>. QED BY <1>3, <2>1, <2>2 DEF VolumeBranches, When
<1>. QED BY <1>2, <1>3

\* Every branch taken for an address pool is evidence for NetworkIpam.
LEMMA PoolShown ==
  ASSUME NEW pool
  PROVE  PoolBranches(pool) \subseteq RequiredFor["NetworkIpam"]
  BY DEF PoolBranches, When, RequiredFor

\* The branch taken for a bridge option is evidence for NetworkOptions.
LEMMA OptionShown ==
  ASSUME NEW o, o.option \in {"mtu", "icc", "masquerade", "host_binding"}
  PROVE  OptionBranch(o) \in RequiredFor["NetworkOptions"]
  BY DEF OptionBranch, RequiredFor

\* Every branch taken for a network is evidence for what it requires.
LEMMA NetworkShown ==
  ASSUME NEW n, ~n.external =>
           \A o \in Range(n.options) : o.option \in {"mtu", "icc", "masquerade", "host_binding"}
  PROVE  NetworkBranches(n) \subseteq Evidence(NetworkRequires(n))
<1>. DEFINE E == Evidence(NetworkRequires(n))
<1>1. \A c \in NetworkRequires(n) : RequiredFor[c] \subseteq E
  BY Shown
<1>2. \A S : Range(S) # {} => S # <<>>
  BY DEF Range
<1>. SUFFICES NetworkBranches(n) \subseteq E
  OBVIOUS
<1>. HIDE DEF E
<1>3. CASE n.external
  <2>1. {"ExternalNetworkReference"} \subseteq E
    BY <1>1, <1>3 DEF NetworkRequires, RequiredFor
  <2>2. \A e \in Range(n.expected_internal) :
          {"ExternalNetworkInternalTrue", "ExternalNetworkInternalFalse"} \subseteq E
    BY <1>1, <1>2, <1>3 DEF NetworkRequires, When, RequiredFor
  <2>3. \A b \in NetworkBranches(n) :
          \/ b = "ExternalNetworkReference"
          \/ \E e \in Range(n.expected_internal) :
               b \in {"ExternalNetworkInternalTrue", "ExternalNetworkInternalFalse"}
    BY <1>3 DEF NetworkBranches
  <2>. QED BY <2>1, <2>2, <2>3
<1>4. CASE ~n.external
  <2>1. {"BridgeNetworkCreate"} \cup When(n.internal, {"InternalBridgeNetworkCreate"})
          \cup When(n.enable_ipv6, {"Ipv6BridgeNetworkCreate"})
          \cup When(n.labels # <<>>, {"NetworkCreateLabels"}) \subseteq E
    BY <1>1, <1>4 DEF NetworkRequires, When, RequiredFor
  <2>2. \A ipam \in Range(n.ipam) :
          /\ When(ipam.driver # <<>>, {"NetworkIpamDefaultDriver"}) \subseteq E
          /\ \A p \in Range(ipam.pools) : PoolBranches(p) \subseteq E
    <3>. TAKE ipam \in Range(n.ipam)
    <3>1. When(ipam.driver # <<>>, {"NetworkIpamDefaultDriver"}) \subseteq E
      BY <1>1, <1>4 DEF NetworkRequires, When, RequiredFor
    <3>2. "NetworkIpam" \in NetworkRequires(n)
      BY <1>2, <1>4 DEF NetworkRequires, When
    <3>. QED BY <1>1, <3>1, <3>2, PoolShown
  <2>3. \A o \in Range(n.options) : OptionBranch(o) \in E
    <3>1. Range(n.options) # {} => "NetworkOptions" \in NetworkRequires(n)
      BY <1>2, <1>4 DEF NetworkRequires, When
    <3>. QED BY <1>1, <1>4, <3>1, OptionShown
  <2>4. \A b \in NetworkBranches(n) :
          \/ b \in {"BridgeNetworkCreate"} \cup When(n.internal, {"InternalBridgeNetworkCreate"})
                     \cup When(n.enable_ipv6, {"Ipv6BridgeNetworkCreate"})
                     \cup When(n.labels # <<>>, {"NetworkCreateLabels"})
          \/ \E ipam \in Range(n.ipam) :
               \/ b \in When(ipam.driver # <<>>, {"NetworkIpamDefaultDriver"})
               \/ \E p \in Range(ipam.pools) : b \in PoolBranches(p)
          \/ \E o \in Range(n.options) : b = OptionBranch(o)
    <3>. HIDE DEF E
    <3>1. NetworkBranches(n) =
            ({"BridgeNetworkCreate"} \cup When(n.internal, {"InternalBridgeNetworkCreate"})
               \cup When(n.enable_ipv6, {"Ipv6BridgeNetworkCreate"}))
            \cup (UNION {When(ipam.driver # <<>>, {"NetworkIpamDefaultDriver"})
                           \cup UNION {PoolBranches(p) : p \in Range(ipam.pools)} : ipam \in Range(n.ipam)})
            \cup {OptionBranch(o) : o \in Range(n.options)}
            \cup When(n.labels # <<>>, {"NetworkCreateLabels"})
      BY Zenon, <1>4 DEF NetworkBranches
    <3>2. \A b \in UNION {When(ipam.driver # <<>>, {"NetworkIpamDefaultDriver"})
                 \cup UNION {PoolBranches(p) : p \in Range(ipam.pools)} : ipam \in Range(n.ipam)} :
            \E ipam \in Range(n.ipam) :
               \/ b \in When(ipam.driver # <<>>, {"NetworkIpamDefaultDriver"})
               \/ \E p \in Range(ipam.pools) : b \in PoolBranches(p)
      OBVIOUS
    <3>. QED BY <3>1, <3>2
  <2>. QED BY <2>1, <2>2, <2>3, <2>4
<1>. QED BY <1>3, <1>4

(***************************************************************************)
(* Containers, a part at a time.                                           *)
(***************************************************************************)
LEMMA PortShown ==
  ASSUME NEW p
  PROVE  PortBranches(p) \subseteq Evidence(PortRequires(p))
<1>. DEFINE E == Evidence(PortRequires(p))
<1>1. \A c \in PortRequires(p) : RequiredFor[c] \subseteq E
  BY Shown
<1>2. \A S : Range(S) # {} => S # <<>>
  BY DEF Range
<1>. SUFFICES PortBranches(p) \subseteq E
  OBVIOUS
<1>. HIDE DEF E
<1>3. When(p.bindings = <<>>, {"ExposedOnlyPort"}) \subseteq E
  BY <1>1 DEF PortRequires, When, RequiredFor
<1>4. \A b \in Range(p.bindings) : {"FixedTcpPort", "FixedUdpPort"} \subseteq E
  BY <1>1, <1>2 DEF PortRequires, RequiredFor
<1>5. Len(p.bindings) > 1 => {"MultipleEphemeralPortBindings", "MultipleFixedPortBindings"} \subseteq E
  BY <1>1 DEF PortRequires, When, RequiredFor
<1>6. \A b \in Range(p.bindings) : BindingBranches(b, p.protocol) \subseteq E
  <2>. TAKE b \in Range(p.bindings)
  <2>1. \A c \in BindingRequires(b) : RequiredFor[c] \subseteq E
    BY <1>1 DEF PortRequires
  <2>2. b.host_port = Ephemeral => "EphemeralHostPort" \in E
    BY <2>1 DEF BindingRequires, When, RequiredFor
  <2>3. \A ip \in Range(b.host_ip) :
          IF ip.family = "v4" THEN {"EphemeralIpv4HostPort", "FixedIpv4HostPort"} \subseteq E
          ELSE {"EphemeralIpv6HostPort", "FixedIpv6HostPort"} \subseteq E
    <3>. TAKE ip \in Range(b.host_ip)
    <3>1. (IF ip.family = "v4" THEN "PortHostIpv4" ELSE "PortHostIpv6") \in BindingRequires(b)
      BY DEF BindingRequires
    <3>. QED BY <2>1, <3>1 DEF RequiredFor
  <2>4. \A x \in BindingBranches(b, p.protocol) :
          \/ x = "EphemeralHostPort" /\ b.host_port = Ephemeral
          \/ x \in {"FixedTcpPort", "FixedUdpPort"}
          \/ \E ip \in Range(b.host_ip) :
               x \in IF ip.family = "v4" THEN {"EphemeralIpv4HostPort", "FixedIpv4HostPort"}
                     ELSE {"EphemeralIpv6HostPort", "FixedIpv6HostPort"}
    BY DEF BindingBranches
  <2>. QED BY <1>4, <2>2, <2>3, <2>4
<1>7. \A x \in PortBranches(p) :
        \/ x \in When(p.bindings = <<>>, {"ExposedOnlyPort"})
        \/ \E b \in Range(p.bindings) : x \in BindingBranches(b, p.protocol)
        \/ /\ Len(p.bindings) > 1
           /\ x \in {"MultipleEphemeralPortBindings", "MultipleFixedPortBindings"}
  <2>. SUFFICES ASSUME NEW x \in PortBranches(p),
                       x \notin When(p.bindings = <<>>, {"ExposedOnlyPort"}),
                       \A b \in Range(p.bindings) : x \notin BindingBranches(b, p.protocol)
                PROVE  /\ Len(p.bindings) > 1
                       /\ x \in {"MultipleEphemeralPortBindings", "MultipleFixedPortBindings"}
    OBVIOUS
  <2>1. x \in When(Len(p.bindings) > 1,
                  {IF b.host_port = Ephemeral THEN "MultipleEphemeralPortBindings"
                   ELSE "MultipleFixedPortBindings" : b \in Range(p.bindings)})
    BY Zenon DEF PortBranches
  <2>. QED BY <2>1 DEF When
<1>. QED BY <1>3, <1>5, <1>6, <1>7

\* Every branch taken for a mount is evidence for what it requires.
LEMMA MountShown ==
  ASSUME NEW m, m.type \in {"bind", "volume", "tmpfs"},
         m.relabel = <<>> \/ (m.relabel \in {<<"shared">>, <<"private">>} /\ m.type = "bind")
  PROVE  MountBranches(m) \subseteq Evidence(MountRequires(m))
<1>. DEFINE E == Evidence(MountRequires(m))
<1>1. \A c \in MountRequires(m) : RequiredFor[c] \subseteq E
  BY Shown
<1>2. <<"shared">> # <<"private">> /\ <<"shared">> # <<>> /\ <<"private">> # <<>>
  OBVIOUS
<1>. SUFFICES MountBranches(m) \subseteq E
  OBVIOUS
<1>. HIDE DEF E
<1>3. CASE m.relabel = <<"shared">>
  <2>1. "BindRelabelShared" \in MountRequires(m)
    BY <1>3 DEF MountRequires, Range
  <2>2. MountBranches(m) \subseteq {"BindMountSharedRelabelReadWrite", "BindMountSharedRelabelReadOnly"}
    BY <1>2, <1>3 DEF MountBranches
  <2>. QED BY <1>1, <2>1, <2>2 DEF RequiredFor
<1>4. CASE m.relabel = <<"private">>
  <2>1. "BindRelabelPrivate" \in MountRequires(m)
    BY <1>4 DEF MountRequires, Range
  <2>2. MountBranches(m) \subseteq {"BindMountPrivateRelabelReadWrite", "BindMountPrivateRelabelReadOnly"}
    BY <1>2, <1>4 DEF MountBranches
  <2>. QED BY <1>1, <2>1, <2>2 DEF RequiredFor
<1>5. CASE m.relabel = <<>> /\ m.type = "bind"
  <2>1. "BindMount" \in MountRequires(m)
    BY <1>5 DEF MountRequires
  <2>2. MountBranches(m) \subseteq {"BindMountReadWrite", "BindMountReadOnly"}
    BY <1>2, <1>5 DEF MountBranches
  <2>. QED BY <1>1, <2>1, <2>2 DEF RequiredFor
<1>6. CASE m.relabel = <<>> /\ m.type = "volume"
  <2>1. "NamedVolume" \in MountRequires(m)
    BY <1>6 DEF MountRequires
  <2>2. MountBranches(m) \subseteq {"NamedVolumeMountReadWrite", "NamedVolumeMountReadOnly"}
    BY <1>2, <1>6 DEF MountBranches
  <2>. QED BY <1>1, <2>1, <2>2 DEF RequiredFor
<1>7. CASE m.relabel = <<>> /\ m.type = "tmpfs"
  <2>1. "TmpfsMount" \in MountRequires(m)
    BY <1>7 DEF MountRequires
  <2>2. MountBranches(m) \subseteq {"TmpfsMountReadWrite", "TmpfsMountReadOnly", "TmpfsMountOptions"}
    BY <1>2, <1>7 DEF MountBranches, When
  <2>. QED BY <1>1, <2>1, <2>2 DEF RequiredFor
<1>. QED BY <1>3, <1>4, <1>5, <1>6, <1>7

\* So is every branch taken for the networks of a container.
LEMMA AttachmentShown ==
  ASSUME NEW networks, networks \in Seq(Range(networks))
  PROVE  AttachmentBranches(networks) \subseteq Evidence(AttachmentsRequire(networks))
<1>. DEFINE E == Evidence(AttachmentsRequire(networks))
<1>1. \A c \in AttachmentsRequire(networks) : RequiredFor[c] \subseteq E
  BY Shown
<1>. SUFFICES AttachmentBranches(networks) \subseteq E
  OBVIOUS
<1>. HIDE DEF E
<1>. SUFFICES ASSUME NEW i \in DOMAIN networks
              PROVE  {IF i = 1 THEN "BridgeNetworkAttach" ELSE "NetworkSecondaryConnect"}
                       \cup When(networks[i].aliases # <<>>,
                                 {IF i = 1 THEN "NetworkPrimaryAliases" ELSE "NetworkSecondaryAliases"})
                       \cup When(networks[i].ipv4 # <<>>, {"NetworkStaticIpv4"})
                       \cup When(networks[i].ipv6 # <<>>, {"NetworkStaticIpv6"}) \subseteq E
  BY DEF AttachmentBranches
<1>2. networks # <<>> /\ (i # 1 => Len(networks) > 1) /\ networks[i] \in Range(networks)
  BY DEF Range
<1>3. "BridgeNetworkAttach" \in E
  <2>1. "BridgeNetwork" \in AttachmentsRequire(networks)
    BY <1>2 DEF AttachmentsRequire, When
  <2>. QED BY <1>1, <2>1 DEF RequiredFor
<1>4. i # 1 => "NetworkSecondaryConnect" \in E
  <2>1. i # 1 => "NetworkMultipleAttachment" \in AttachmentsRequire(networks)
    BY <1>2 DEF AttachmentsRequire, When
  <2>. QED BY <1>1, <2>1 DEF RequiredFor
<1>5. networks[i].aliases # <<>> => {"NetworkPrimaryAliases", "NetworkSecondaryAliases"} \subseteq E
  <2>1. networks[i].aliases # <<>> => "NetworkAliases" \in AttachmentsRequire(networks)
    BY <1>2 DEF AttachmentsRequire, When
  <2>. QED BY <1>1, <2>1 DEF RequiredFor
<1>6. networks[i].ipv4 # <<>> \/ networks[i].ipv6 # <<>>
        => {"NetworkStaticIpv4", "NetworkStaticIpv6"} \subseteq E
  <2>1. networks[i].ipv4 # <<>> \/ networks[i].ipv6 # <<>>
          => "NetworkStaticAddress" \in AttachmentsRequire(networks)
    BY <1>2 DEF AttachmentsRequire, When
  <2>. QED BY <1>1, <2>1 DEF RequiredFor
<1>. QED BY <1>3, <1>4, <1>5, <1>6 DEF When

\* So is every branch taken for a health check.
LEMMA HealthShown ==
  ASSUME NEW h, h.form \in {"exec", "shell", "disabled"}
  PROVE  HealthBranches(h) \subseteq Evidence(HealthRequires(h))
<1>. DEFINE E == Evidence(HealthRequires(h))
<1>1. \A c \in HealthRequires(h) : RequiredFor[c] \subseteq E
  BY Shown
<1>2. \A S : Range(S) # {} => S # <<>>
  BY DEF Range
<1>. SUFFICES HealthBranches(h) \subseteq E
  OBVIOUS
<1>. HIDE DEF E
<1>3. (CASE h.form = "exec" -> "ExecHealthcheck" [] h.form = "shell" -> "ShellHealthcheck"
         [] h.form = "disabled" -> "DisabledHealthcheck") \in E
  BY <1>1 DEF HealthRequires, RequiredFor
<1>4. ZeroOr(h.start_period, "HealthStartPeriodZero", "HealthStartPeriodPositive") \subseteq E
  BY <1>1, <1>2 DEF HealthRequires, When, ZeroOr, RequiredFor
<1>5. ZeroOr(h.start_interval, "HealthStartIntervalZero", "HealthStartIntervalPositive") \subseteq E
  BY <1>1, <1>2 DEF HealthRequires, When, ZeroOr, RequiredFor
<1>. QED BY <1>3, <1>4, <1>5 DEF HealthBranches

\* The branch taken for a restart policy is evidence for RestartPolicy.
LEMMA RestartShown ==
  ASSUME NEW r, r.name \in {"no", "always", "unless-stopped", "on-failure"}
  PROVE  RestartBranch(r) \in RequiredFor["RestartPolicy"]
  BY DEF RestartBranch, RequiredFor

\* A setting that is there requires its capabilities.
LEMMA SettingShown ==
  ASSUME NEW s, DOMAIN s = DOMAIN SettingCapabilities,
         NEW k \in DOMAIN SettingCapabilities, s[k] # <<>>,
         NEW c \in SettingCapabilities[k]
  PROVE  RequiredFor[c] \subseteq Evidence(SettingsRequire(s))
<1>1. c \in SettingsRequire(s)
  BY DEF SettingsRequire
<1>. QED BY <1>1, Shown

\* Every branch taken for the settings is evidence for what they require.
LEMMA SettingsShown ==
  ASSUME NEW s, DOMAIN s = DOMAIN SettingCapabilities,
         \A log \in Range(s.log) : log.driver \in {"json-file", "local", "none"}
  PROVE  SettingsBranches(s) \subseteq Evidence(SettingsRequire(s))
<1>. DEFINE E == Evidence(SettingsRequire(s))
<1>1. \A k \in DOMAIN SettingCapabilities : s[k] # <<>> =>
        \A c \in SettingCapabilities[k] : RequiredFor[c] \subseteq E
  BY SettingShown
<1>2. \A S : Range(S) # {} => S # <<>>
  BY DEF Range
<1>. SUFFICES SettingsBranches(s) \subseteq E
  OBVIOUS
<1>3. \A log \in Range(s.log) : LogBranches(log) \subseteq E
  <2>. SUFFICES ASSUME NEW log \in Range(s.log)
                PROVE  LogBranches(log) \subseteq E
    OBVIOUS
  <2>1. RequiredFor["LogConfig"] \subseteq E
    BY <1>1, <1>2 DEF SettingCapabilities
  <2>2. log.options # <<>> => "LogOptionMaxSize" \in E
    <3>1. log.options # <<>> => "LogOptionMaxSize" \in SettingsRequire(s)
      BY DEF SettingsRequire, When
    <3>. QED BY <3>1, Shown DEF RequiredFor
  <2>3. \A b \in LogBranches(log) :
          \/ b \in {"LogJsonFile", "LogLocal", "LogNone"}
          \/ b = "LogOptions"
          \/ b = "LogOptionMaxSize" /\ log.options # <<>>
    BY <1>2 DEF LogBranches, When
  <2>. HIDE DEF E
  <2>. QED BY <2>1, <2>2, <2>3 DEF RequiredFor
<1>. HIDE DEF E
<1>4. /\ When(s.labels # <<>>, {"ContainerCreateLabels"}) \subseteq E
      /\ When(s.user # <<>>, {"ContainerUser"}) \subseteq E
      /\ When(s.working_dir # <<>>, {"ContainerWorkdir"}) \subseteq E
      /\ When(s.hostname # <<>>, {"ContainerHostname"}) \subseteq E
      /\ When(s.stop_signal # <<>>, {"StopSignal"}) \subseteq E
      /\ When(s.shm # <<>>, {"ShmSize"}) \subseteq E
      /\ When(s.devices # <<>>, {"DeviceMappings"}) \subseteq E
  BY <1>1 DEF SettingCapabilities, When, RequiredFor
<1>5. /\ When(s.cap_add # <<>>, {"LinuxCapAdd", "CapAddNetBindService"}) \subseteq E
      /\ When(s.cap_drop # <<>>, {"LinuxCapDrop", "CapDropSysAdmin"}) \subseteq E
      /\ When(s.sysctls # <<>>, {"Sysctls", "SysctlIpv4Forward"}) \subseteq E
      /\ When(s.group_add # <<>>, {"SupplementaryGroups"}) \subseteq E
  BY <1>1 DEF SettingCapabilities, When, RequiredFor
<1>6. /\ Flag(s.read_only_rootfs, "ReadOnlyRootfsTrue", "ReadOnlyRootfsFalse") \subseteq E
      /\ Flag(s.init, "ContainerInitTrue", "ContainerInitFalse") \subseteq E
      /\ Flag(s.security, "NoNewPrivilegesEnabled", "NoNewPrivilegesDisabled") \subseteq E
  BY <1>1, <1>2 DEF SettingCapabilities, Flag, RequiredFor
<1>7. /\ ZeroOr(s.stop_timeout, "StopTimeoutZero", "StopTimeoutPositive") \subseteq E
      /\ Limit(s.memory, "MemoryUnlimited", "MemoryBytes") \subseteq E
      /\ Limit(s.pids, "PidsUnlimited", "PidsCount") \subseteq E
  BY <1>1, <1>2 DEF SettingCapabilities, ZeroOr, Limit, RequiredFor
<1>8. \A u \in Range(s.ulimits) :
        Limit(<<u.soft, u.hard>>, "UlimitsUnlimited", "UlimitsFinite")
          \cup When(u.name = "nofile", {"UlimitNofile"}) \subseteq E
  BY <1>1, <1>2 DEF SettingCapabilities, Limit, When, RequiredFor
<1>9. /\ Family(s.dns, "DnsIpv4", "DnsIpv6") \subseteq E
      /\ Family([i \in DOMAIN s.extra_hosts |-> s.extra_hosts[i].address],
                    "ExtraHostsIpv4", "ExtraHostsIpv6") \subseteq E
  <2>1. s.dns # <<>> => {"DnsIpv4", "DnsIpv6"} \subseteq E
    BY <1>1 DEF SettingCapabilities, RequiredFor
  <2>2. s.extra_hosts # <<>> => {"ExtraHostsIpv4", "ExtraHostsIpv6"} \subseteq E
    BY <1>1 DEF SettingCapabilities, RequiredFor
  <2>3. s.extra_hosts = <<>> =>
          Range([i \in DOMAIN s.extra_hosts |-> s.extra_hosts[i].address]) = {}
    BY DEF Range
  <2>4. \A addresses, v4, v6 : (Range(addresses) # {} => {v4, v6} \subseteq E)
                                 => Family(addresses, v4, v6) \subseteq E
    BY DEF Family
  <2>5. Family(s.dns, "DnsIpv4", "DnsIpv6") \subseteq E
    BY <1>2, <2>1, <2>4
  <2>6. Family([i \in DOMAIN s.extra_hosts |-> s.extra_hosts[i].address],
               "ExtraHostsIpv4", "ExtraHostsIpv6") \subseteq E
    BY <2>2, <2>3, <2>4, Zenon
  <2>. QED BY <2>5, <2>6
<1>10. /\ UNION {Limit(<<u.soft, u.hard>>, "UlimitsUnlimited", "UlimitsFinite")
                  \cup When(u.name = "nofile", {"UlimitNofile"}) : u \in Range(s.ulimits)} \subseteq E
       /\ UNION {LogBranches(log) : log \in Range(s.log)} \subseteq E
  BY <1>3, <1>8
<1>. DEFINE Process ==
       When(s.labels # <<>>, {"ContainerCreateLabels"}) \cup When(s.user # <<>>, {"ContainerUser"})
         \cup When(s.working_dir # <<>>, {"ContainerWorkdir"})
         \cup When(s.hostname # <<>>, {"ContainerHostname"})
         \cup Flag(s.read_only_rootfs, "ReadOnlyRootfsTrue", "ReadOnlyRootfsFalse")
         \cup Flag(s.init, "ContainerInitTrue", "ContainerInitFalse")
         \cup When(s.stop_signal # <<>>, {"StopSignal"})
         \cup ZeroOr(s.stop_timeout, "StopTimeoutZero", "StopTimeoutPositive")
         \cup Limit(s.memory, "MemoryUnlimited", "MemoryBytes")
         \cup Limit(s.pids, "PidsUnlimited", "PidsCount")
         \cup When(s.shm # <<>>, {"ShmSize"})
<1>11. Process \subseteq E
  <2>. SUFFICES ASSUME NEW b \in Process, b \notin E
                PROVE  FALSE
    OBVIOUS
  <2>. QED BY <1>4, <1>6, <1>7, SMT DEF Process
<1>. HIDE DEF Process
<1>12. SettingsBranches(s) \subseteq
         Process
           \cup (UNION {Limit(<<u.soft, u.hard>>, "UlimitsUnlimited", "UlimitsFinite")
                         \cup When(u.name = "nofile", {"UlimitNofile"}) : u \in Range(s.ulimits)})
           \cup When(s.devices # <<>>, {"DeviceMappings"})
           \cup When(s.cap_add # <<>>, {"LinuxCapAdd", "CapAddNetBindService"})
           \cup When(s.cap_drop # <<>>, {"LinuxCapDrop", "CapDropSysAdmin"})
           \cup Flag(s.security, "NoNewPrivilegesEnabled", "NoNewPrivilegesDisabled")
           \cup When(s.sysctls # <<>>, {"Sysctls", "SysctlIpv4Forward"})
           \cup When(s.group_add # <<>>, {"SupplementaryGroups"})
           \cup Family(s.dns, "DnsIpv4", "DnsIpv6")
           \cup Family([i \in DOMAIN s.extra_hosts |-> s.extra_hosts[i].address],
                       "ExtraHostsIpv4", "ExtraHostsIpv6")
           \cup UNION {LogBranches(log) : log \in Range(s.log)}
  BY DEF SettingsBranches, Process
<1>. QED BY <1>4, <1>5, <1>6, <1>9, <1>10, <1>11, <1>12, Zenon

\* Every branch taken for a container is evidence for what it requires.
LEMMA ContainerShown ==
  ASSUME NEW c, Authored(c), c.kind = "Container"
  PROVE  ContainerBranches(c) \subseteq Evidence(ContainerRequires(c))
<1>. DEFINE E == Evidence(ContainerRequires(c))
<1>. SUFFICES ContainerBranches(c) \subseteq E
  OBVIOUS
<1>1. \A x \in ContainerRequires(c) : RequiredFor[x] \subseteq E
  BY Shown
<1>2. \A C : C \subseteq ContainerRequires(c) => Evidence(C) \subseteq E
  BY EvidenceGrows
<1>. HIDE DEF E
<1>3. \A S : Range(S) # {} => S # <<>>
  BY DEF Range
<1>4. /\ c.networks \in Seq(Range(c.networks))
      /\ \A m \in Range(c.mounts) :
           /\ m.type \in {"bind", "volume", "tmpfs"}
           /\ m.relabel = <<>> \/ (m.relabel \in {<<"shared">>, <<"private">>} /\ m.type = "bind")
      /\ \A h \in Range(c.healthcheck) : h.form \in {"exec", "shell", "disabled"}
      /\ \A r \in Range(c.restart) : r.name \in {"no", "always", "unless-stopped", "on-failure"}
      /\ DOMAIN c.settings = DOMAIN SettingCapabilities
      /\ \A log \in Range(c.settings.log) : log.driver \in {"json-file", "local", "none"}
  BY DEF Authored
<1>5. /\ "StandaloneContainer" \in ContainerRequires(c)
      /\ c.environment # <<>> => "EnvironmentAssignment" \in ContainerRequires(c)
      /\ c.restart # <<>> => "RestartPolicy" \in ContainerRequires(c)
      /\ CommandRequires(c.command, "CommandClear", "Command") \subseteq ContainerRequires(c)
      /\ CommandRequires(c.entrypoint, "EntrypointClear", "Entrypoint") \subseteq ContainerRequires(c)
      /\ AttachmentsRequire(c.networks) \subseteq ContainerRequires(c)
      /\ SettingsRequire(c.settings) \subseteq ContainerRequires(c)
      /\ \A p \in Range(c.ports) : PortRequires(p) \subseteq ContainerRequires(c)
      /\ \A m \in Range(c.mounts) : MountRequires(m) \subseteq ContainerRequires(c)
      /\ \A h \in Range(c.healthcheck) : HealthRequires(h) \subseteq ContainerRequires(c)
  BY DEF ContainerRequires, When
<1>6. "StandaloneCreate" \in E
  BY <1>1, <1>5 DEF RequiredFor
<1>7. Range(c.environment) # {} => {"EnvironmentEmptyValue", "EnvironmentValue"} \subseteq E
  BY <1>1, <1>3, <1>5 DEF RequiredFor
<1>8. When(c.entrypoint.form = "exec", {"ExecEntrypoint"}) \cup When(c.entrypoint.form = "clear", {"ClearEntrypoint"})
        \cup When(c.command.form = "exec", {"ExecCommand"})
        \cup When(c.command.form = "clear", {"ClearCommand"}) \subseteq E
  BY <1>1, <1>5 DEF CommandRequires, When, RequiredFor
<1>9. \A h \in Range(c.healthcheck) : HealthBranches(h) \subseteq E
  BY <1>2, <1>4, <1>5, HealthShown
<1>10. \A p \in Range(c.ports) : PortBranches(p) \subseteq E
  BY <1>2, <1>5, PortShown
<1>11. \A m \in Range(c.mounts) : MountBranches(m) \subseteq E
  BY <1>2, <1>4, <1>5, MountShown
<1>12. AttachmentBranches(c.networks) \subseteq E
  BY <1>2, <1>4, <1>5, AttachmentShown
<1>13. \A r \in Range(c.restart) : RestartBranch(r) \in E
  BY <1>1, <1>3, <1>4, <1>5, RestartShown
<1>14. SettingsBranches(c.settings) \subseteq E
  <2>1. SettingsBranches(c.settings) \subseteq Evidence(SettingsRequire(c.settings))
    BY <1>4, SettingsShown, Zenon
  <2>. QED BY <1>2, <1>5, <2>1
<1>15. /\ {"StandaloneCreate"} \subseteq E
       /\ {IF e.value = "" THEN "EnvironmentEmptyValue" ELSE "EnvironmentValue" : e \in Range(c.environment)} \subseteq E
       /\ UNION {HealthBranches(h) : h \in Range(c.healthcheck)} \subseteq E
       /\ UNION {PortBranches(p) : p \in Range(c.ports)} \subseteq E
       /\ UNION {MountBranches(m) : m \in Range(c.mounts)} \subseteq E
       /\ {RestartBranch(r) : r \in Range(c.restart)} \subseteq E
  BY <1>6, <1>7, <1>9, <1>10, <1>11, <1>13
<1>. QED BY <1>8, <1>12, <1>14, <1>15, Zenon DEF ContainerBranches

\* Every branch taken for any resource is evidence for what it requires.
LEMMA BranchesShown ==
  ASSUME NEW s, Authored(s)
  PROVE  Branches(s) \subseteq Evidence(Requires(s))
<1>. HIDE DEF Evidence
<1>1. CASE s.kind = "Container"
  BY <1>1, ContainerShown DEF Branches, Requires
<1>2. CASE s.kind = "Network"
  <2>1. ~s.external =>
          \A o \in Range(s.options) : o.option \in {"mtu", "icc", "masquerade", "host_binding"}
    BY <1>2 DEF Authored
  <2>. QED BY <1>2, <2>1, NetworkShown DEF Branches, Requires
<1>3. CASE s.kind = "Volume"
  BY <1>3, VolumeShown DEF Branches, Requires
<1>. QED BY <1>1, <1>2, <1>3 DEF Authored

(***************************************************************************)
(* The first element of a sequence that is this or that.                   *)
(***************************************************************************)
\* A sequence is a function on an interval that starts at 1.
LEMMA Positions ==
  ASSUME NEW S, NEW t \in Seq(S)
  PROVE  DOMAIN t = 1 .. Len(t) /\ Len(t) \in Nat /\ DOMAIN t \subseteq Nat
  OBVIOUS

\* A set of naturals has a least element.
LEMMA LeastElement ==
  ASSUME NEW T \in SUBSET Nat, T # {}
  PROVE  \E x \in T : \A y \in T : x <= y
<1>1. PICK n \in T : TRUE
  OBVIOUS
<1>2. IsFiniteSet(0 .. n)
  BY <1>1, FS_Interval
<1> DEFINE F == {0 .. m : m \in {k \in T : k <= n}}
<1>3. F \subseteq SUBSET (0 .. n) /\ F # {}
  BY <1>1
<1>4. PICK s \in F : \A t \in F : ~ (<<t, s>> \in StrictSubsetOrdering(0 .. n))
  <2>1. IsWellFoundedOn(StrictSubsetOrdering(0 .. n), SUBSET (0 .. n))
    BY <1>2, FS_StrictSubsetOrderingWellFounded, FS_FiniteSubsetsOfFinite
  <2>. QED BY <1>3, <2>1, WFMin
<1>5. PICK x \in T : x <= n /\ s = 0 .. x
  BY <1>4
<1>6. ASSUME NEW y \in T, y < x PROVE FALSE
  <2>1. 0 .. y \in F /\ 0 .. y \subseteq 0 .. x /\ 0 .. y # 0 .. x
    BY <1>5, <1>6
  <2>2. <<0 .. y, 0 .. x>> \in StrictSubsetOrdering(0 .. n)
    BY <1>3, <1>5, <2>1 DEF StrictSubsetOrdering
  <2>. QED BY <1>4, <1>5, <2>1, <2>2
<1>. QED BY <1>5, <1>6

\* The least element is in its set.
LEMMA MinIsMember ==
  ASSUME NEW T \in SUBSET Nat, T # {}
  PROVE  Min(T) \in T
<1>1. PICK x \in T : \A y \in T : x <= y
  BY LeastElement
<1>. QED BY <1>1 DEF Min

(***************************************************************************)
(* What admission has established.                                         *)
(***************************************************************************)
\* Of the records admission has let through: each is its lane's own and has all
\* the evidence it needs, and no two of them are about one identity.
CatalogInv ==
  /\ records \in Offered /\ at \in Nat /\ 1 <= at /\ at <= Len(records) + 1
  /\ phase = "admitted" => at = Len(records) + 1
  /\ profiles = {Profile(records[i]) : i \in 1 .. at - 1}
  /\ \A i \in 1 .. at - 1 :
       /\ MatchesIdentity(records[i].lane, records[i].profile.identity)
       /\ Evidenced(records[i])
  /\ \A i, j \in 1 .. at - 1 : Profile(records[i]) = Profile(records[j]) => i = j

\* No complaint about a record is mistaken for its admission.
LEMMA ErrorIsNotAdmission ==
  ASSUME NEW record
  PROVE  RecordError(record) # "admitted"
<1>1. ShapeError(record) # "admitted"
  BY DEF ShapeError
<1>. QED BY <1>1 DEF RecordError

\* Admission has let nothing through at first.
LEMMA CatalogInvInit == Init => CatalogInv
<1>. SUFFICES ASSUME Init PROVE CatalogInv
  OBVIOUS
<1>1. records \in Offered /\ at = 1 /\ profiles = {} /\ phase # "admitted"
  BY DEF Init, CatalogInit
<1>2. Len(records) \in Nat
  BY <1>1, ReviewAssumption
<1>. QED BY <1>1, <1>2 DEF CatalogInv

\* Every step keeps what admission has established.
LEMMA CatalogInvStep == CatalogInv /\ [Next]_vars => CatalogInv'
<1>. SUFFICES ASSUME CatalogInv, [Next]_vars
              PROVE  CatalogInv'
  OBVIOUS
<1>0. records \in Seq(Range(records)) /\ Len(records) \in Nat
  BY ReviewAssumption DEF CatalogInv
<1>1. CASE UNCHANGED catalog
  BY <1>1 DEF CatalogInv, catalog
<1>2. CASE Compile
  <2>1. UNCHANGED <<records, at, profiles>> /\ phase' # "admitted"
    BY <1>2 DEF Compile
  <2>. QED BY <2>1 DEF CatalogInv
<1>3. CASE Admit /\ at > Len(records)
  <2>1. UNCHANGED <<records, at, profiles>> /\ at = Len(records) + 1
    BY <1>0, <1>3 DEF Admit, CatalogInv
  <2>. QED BY <2>1 DEF CatalogInv
<1>4. CASE Admit /\ ~(at > Len(records)) /\ RecordError(records[at]) # ""
  <2>1. UNCHANGED <<records, at, profiles>> /\ phase' # "admitted"
    BY <1>4, ErrorIsNotAdmission DEF Admit
  <2>. QED BY <2>1 DEF CatalogInv
<1>5. CASE Admit /\ ~(at > Len(records)) /\ RecordError(records[at]) = ""
  <2>1. /\ records' = records /\ at' = at + 1 /\ phase' = "admit"
        /\ profiles' = profiles \cup {Profile(records[at])}
    BY <1>5 DEF Admit
  <2>2. /\ Profile(records[at]) \notin profiles
        /\ MatchesIdentity(records[at].lane, records[at].profile.identity)
        /\ Evidenced(records[at])
    <3>1. ShapeError(records[at]) # "" => RecordError(records[at]) # ""
      BY DEF RecordError
    <3>. QED BY <1>5, <3>1 DEF RecordError
  <2>3. 1 .. at' - 1 = (1 .. at - 1) \cup {at} /\ at' \in Nat /\ 1 <= at' /\ at' <= Len(records') + 1
    <3>1. at \in Nat /\ 1 <= at /\ at <= Len(records) /\ at' = at + 1 /\ records' = records
      <4>1. at \in Nat /\ 1 <= at
        BY DEF CatalogInv
      <4>2. ~(at > Len(records))
        BY <1>5
      <4>. QED BY <1>0, <2>1, <4>1, <4>2
    <3>. QED BY <1>0, <3>1
  <2>4. profiles' = {Profile(records'[i]) : i \in 1 .. at' - 1}
    BY <2>1, <2>3 DEF CatalogInv, Profile
  <2>5. \A i \in 1 .. at' - 1 :
          /\ MatchesIdentity(records'[i].lane, records'[i].profile.identity)
          /\ Evidenced(records'[i])
    BY <2>1, <2>2, <2>3 DEF CatalogInv
  <2>6. \A i, j \in 1 .. at' - 1 : Profile(records'[i]) = Profile(records'[j]) => i = j
    <3>1. \A i \in 1 .. at - 1 : Profile(records[i]) # Profile(records[at])
      BY <2>2 DEF CatalogInv
    <3>. QED BY <2>1, <2>3, <3>1 DEF CatalogInv
  <2>. QED BY <2>1, <2>3, <2>4, <2>5, <2>6 DEF CatalogInv, Profile, Evidenced, Available
<1>. QED BY <1>1, <1>2, <1>3, <1>4, <1>5 DEF Next, CatalogStep, CatalogNext, PlanTarget, PlanObserved, vars

\* What admission has established of the records holds throughout.
THEOREM CatalogIsReviewed == Spec => []CatalogInv
  BY CatalogInvInit, CatalogInvStep, PTL DEF Spec

(***************************************************************************)
(* Planning under a profile of the catalog.                                *)
(***************************************************************************)
\* What resolves is one of the records the catalog holds, and one that matches.
LEMMA ResolvedIsHeld ==
  ASSUME CatalogInv, phase = "admitted", NEW profile, NEW record \in Resolve(profile)
  PROVE  \E i \in 1 .. at - 1 : record = records[i] /\ records[i].profile = profile
<1>. DEFINE found == {i \in DOMAIN records : records[i] \in {r \in Range(records) : r.profile = profile}}
<1>1. records \in Seq(Range(records)) /\ DOMAIN records = 1 .. at - 1 /\ at \in Nat
  <2>1. records \in Seq(Range(records)) /\ at = Len(records) + 1 /\ at \in Nat
    BY ReviewAssumption DEF CatalogInv
  <2>. QED BY <2>1
<1>2. found # {} /\ record = records[Min(found)]
  BY DEF Resolve, First
<1>3. Min(found) \in found
  <2>1. found \in SUBSET Nat
    BY <1>1
  <2>. HIDE DEF found
  <2>. QED BY <1>2, <2>1, MinIsMember
<1>. QED BY <1>1, <1>2, <1>3

\* Nothing is admitted or planned a second time.
LEMMA PlansWhenAdmitted ==
  ASSUME [Next]_vars
  PROVE  \/ plan' = plan /\ records' = records
         \/ phase = "admitted" /\ UNCHANGED catalog /\ (PlanTarget \/ PlanObserved)
  BY DEF Next, CatalogStep, CatalogNext, Compile, Admit, PlanTarget, PlanObserved, vars, catalog

\* p is the outcome of planning s in this context on these supports: if it is no
\* refusal, every capability s requires is supported.
Answers(p, context, s, supports) ==
  /\ p.context = context /\ p.resource = s
  /\ p.error = "" => Requires(s) \subseteq supports

\* That is what the planner answers: its last check before it accepts.
LEMMA NoErrorIsSupported ==
  ASSUME NEW context, NEW s, NEW supports, NEW api, NEW mode,
         Planned(context, s, supports, api, mode)
  PROVE  \A p \in Range(plan') : Answers(p, context, s, supports)
<1>. DEFINE error == IF api[1] # 1 \/ Below(api, MinimumApi) THEN "UnsupportedApi"
                     ELSE ResourceError(s, supports, mode)
            planned == [context |-> context, resource |-> s, error |-> error]
<1>1. error = "" => Requires(s) \subseteq supports
  BY DEF ResourceError
<1>2. planned.context = context /\ planned.resource = s /\ planned.error = error
  OBVIOUS
<1>3. plan' = <<planned>>
  BY DEF Planned
<1>. HIDE DEF planned, error
<1>4. Range(plan') = {planned}
  BY <1>3 DEF Range
<1>. QED BY <1>1, <1>2, <1>4 DEF Answers

\* Every step keeps RenderedIsReviewed.
LEMMA RenderedStep == CatalogInv /\ RenderedIsReviewed /\ [Next]_vars => RenderedIsReviewed'
<1>. SUFFICES ASSUME CatalogInv, RenderedIsReviewed, [Next]_vars
              PROVE  RenderedIsReviewed'
  OBVIOUS
<1>1. CASE plan' = plan /\ records' = records
  BY <1>1 DEF RenderedIsReviewed
<1>2. CASE phase = "admitted" /\ UNCHANGED catalog /\ PlanObserved
  <2>1. PICK facts \in Claims, s \in Asked :
          Planned([observed |-> Scope(facts)], s, Available(facts), facts.api[1], facts.mode)
    BY <1>2 DEF PlanObserved
  <2>2. \A p \in Range(plan') : p.context = [observed |-> Scope(facts)]
    BY <2>1, NoErrorIsSupported DEF Answers
  <2>3. \A p \in Range(plan') : "target" \notin DOMAIN p.context
    BY <2>2
  <2>. QED BY <2>3 DEF RenderedIsReviewed, Accepted
<1>3. CASE phase = "admitted" /\ UNCHANGED catalog /\ PlanTarget
  <2>1. PICK profile \in Profiles, s \in Asked : \E record \in Resolve(profile) :
          Planned([target |-> profile], s, Available(record),
                  profile.identity.rendering, profile.identity.mode)
    BY <1>3 DEF PlanTarget
  <2>2. PICK record \in Resolve(profile) :
          Planned([target |-> profile], s, Available(record),
                  profile.identity.rendering, profile.identity.mode)
    BY <2>1
  <2>3. \A q \in Range(plan') : Answers(q, [target |-> profile], s, Available(record))
    BY <2>2, NoErrorIsSupported
  <2>4. PICK i \in 1 .. at - 1 : record = records[i] /\ records[i].profile = profile
    BY <1>3, <2>2, ResolvedIsHeld
  <2>5. MatchesIdentity(record.lane, profile.identity) /\ Evidenced(record) /\ record \in Range(records)
    <3>1. i \in DOMAIN records
      <4>1. records \in Seq(Range(records)) /\ at = Len(records) + 1 /\ at \in Nat
        BY <1>3, ReviewAssumption DEF CatalogInv
      <4>. QED BY <4>1
    <3>. QED BY <2>4, <3>1 DEF CatalogInv, Range
  <2>. SUFFICES ASSUME NEW p \in Range(plan'), p.error = ""
                PROVE  \E held \in Range(records') :
                         /\ held.profile = p.context.target
                         /\ MatchesIdentity(held.lane, p.context.target.identity)
                         /\ Branches(p.resource) \subseteq Range(held.shapes)
    BY DEF RenderedIsReviewed, Accepted
  <2>6. p.context = [target |-> profile] /\ p.resource = s /\ Requires(s) \subseteq Available(record)
    BY <2>3, Zenon DEF Answers
  <2>7. Branches(s) \subseteq Range(record.shapes)
    <3>1. \A c \in Available(record) : RequiredFor[c] \subseteq Range(record.shapes)
      BY <2>5 DEF Evidenced
    <3>2. Evidence(Available(record)) \subseteq Range(record.shapes)
      BY <3>1 DEF Evidence
    <3>3. Branches(s) \subseteq Evidence(Requires(s))
      BY BranchesShown, ReviewAssumption
    <3>4. Evidence(Requires(s)) \subseteq Evidence(Available(record))
      BY <2>6, EvidenceGrows
    <3>. QED BY <3>2, <3>3, <3>4
  <2>8. records' = records
    BY <1>3 DEF catalog
  <2>9. p.context.target = profile
    <3>1. [target |-> profile].target = profile
      OBVIOUS
    <3>. QED BY <2>6, <3>1
  <2>. QED BY <2>4, <2>5, <2>6, <2>7, <2>8, <2>9
<1>. QED BY <1>1, <1>2, <1>3, PlansWhenAdmitted

\* "Closed renderer branches that a positive catalog fact must cover", for every
\* catalog that is admitted and every resource the target's types let through:
\* the renderer takes no branch that the evidence behind the plan did not exercise.
THEOREM PlannedIsReviewed == Spec => []RenderedIsReviewed
<1>1. Init => RenderedIsReviewed
  BY DEF Init, RenderedIsReviewed, Range
<1>. QED BY <1>1, RenderedStep, CatalogIsReviewed, PTL DEF Spec

\* The catalog's two ways to a record, by a target's full profile and by its
\* identity alone, agree: no evidence of one build and mode is lent to another.
THEOREM OneRecordForAnIdentity == Spec => []IdentityDeterminesEvidence
<1>1. CatalogInv => IdentityDeterminesEvidence
  <2>. SUFFICES ASSUME CatalogInv, phase = "admitted", NEW profile \in Profiles,
                       NEW record \in Resolve(profile)
                PROVE  ResolveIdentity(profile.identity) = Resolve(profile)
    BY DEF IdentityDeterminesEvidence
  <2>1. PICK i \in 1 .. at - 1 : record = records[i] /\ records[i].profile = profile
    BY ResolvedIsHeld
  <2>2. DOMAIN records = 1 .. at - 1
    <3>1. records \in Seq(Range(records)) /\ at = Len(records) + 1 /\ at \in Nat
      BY ReviewAssumption DEF CatalogInv
    <3>. QED BY <3>1
  <2>3. \A j \in 1 .. at - 1 : records[j].profile.identity = profile.identity => j = i
    BY <2>1 DEF CatalogInv, Profile
  <2>4. {j \in DOMAIN records : records[j] \in {r \in Range(records) : r.profile.identity = profile.identity}} = {i}
    BY <2>1, <2>2, <2>3 DEF Range
  <2>5. {j \in DOMAIN records : records[j] \in {r \in Range(records) : r.profile = profile}} = {i}
    BY <2>1, <2>2, <2>3 DEF Range
  <2>. QED BY <2>4, <2>5 DEF Resolve, ResolveIdentity, First
<1>. QED BY <1>1, CatalogIsReviewed, PTL

(***************************************************************************)
(* Planning for a daemon a caller has claims about.                        *)
(***************************************************************************)
\* Validated claims are right, each of them, about the daemon they are about.
LEMMA ValidatedFact ==
  ASSUME NEW facts \in Claims, FactsError(facts) = "",
         NEW f \in Range(facts.capabilities), f.state = "Available"
  PROVE  f.capability \in Proven[Scope(facts)]
<1>. DEFINE wrong == {i \in DOMAIN facts.capabilities : FactError(facts, i) # ""}
<1>1. facts.capabilities \in Seq(Range(facts.capabilities)) /\ Honest(facts)
  BY ReviewAssumption
<1>2. PICK i \in DOMAIN facts.capabilities : f = facts.capabilities[i]
  BY DEF Range
<1>3. wrong = {}
  <2>1. wrong # {} => FactError(facts, Min(wrong)) = ""
    BY DEF FactsError
  <2>2. DOMAIN facts.capabilities \subseteq Nat
    BY <1>1, Positions, Zenon
  <2>3. wrong \in SUBSET Nat
    BY <2>2
  <2>4. wrong # {} => Min(wrong) \in wrong
    <3>. HIDE DEF wrong
    <3>. QED BY <2>3, MinIsMember
  <2>. QED BY <2>1, <2>4
<1>4. Witnessed(f) /\ InScope(f, facts)
  <2>1. FactError(facts, i) = ""
    BY <1>2, <1>3
  <2>. QED BY <1>2, <2>1 DEF FactError
<1>5. f.provenance = "NativeConformance"
  BY <1>4 DEF Witnessed
<1>6. PICK s \in Range(f.scope) :
        /\ s.observation = facts.observation /\ <<s.release>> = facts.release
        /\ <<s.api>> = facts.api /\ s.mode = facts.mode
  BY <1>4 DEF InScope
<1>7. /\ s = [observation |-> s.observation, release |-> s.release, api |-> s.api, mode |-> s.mode]
      /\ f.capability \in Proven[s]
  BY <1>1, <1>5 DEF Honest
<1>8. s.release = facts.release[1] /\ s.api = facts.api[1]
  <2>1. <<s.release>>[1] = s.release /\ <<s.api>>[1] = s.api
    OBVIOUS
  <2>. QED BY <1>6, <2>1
<1>9. s = Scope(facts)
  BY <1>6, <1>7, <1>8, Zenon DEF Scope
<1>. QED BY <1>7, <1>9

\* Claims that hold of other daemons, other releases, other API versions or the
\* other mode carry no resource through the planner for this daemon.
THEOREM ObservedPlansAreProven == Spec => []PlannedOnlyWhereProven
<1>1. Init => PlannedOnlyWhereProven
  BY DEF Init, PlannedOnlyWhereProven, Range
<1>2. PlannedOnlyWhereProven /\ [Next]_vars => PlannedOnlyWhereProven'
  <2>. SUFFICES ASSUME PlannedOnlyWhereProven, [Next]_vars
                PROVE  PlannedOnlyWhereProven'
    OBVIOUS
  <2>1. CASE plan' = plan
    BY <2>1 DEF PlannedOnlyWhereProven
  <2>2. CASE PlanTarget
    <3>1. PICK profile \in Profiles, s \in Asked : \E record \in Resolve(profile) :
            Planned([target |-> profile], s, Available(record),
                    profile.identity.rendering, profile.identity.mode)
      BY <2>2 DEF PlanTarget
    <3>2. \A p \in Range(plan') : p.context = [target |-> profile]
      BY <3>1, NoErrorIsSupported DEF Answers
    <3>3. \A p \in Range(plan') : "observed" \notin DOMAIN p.context
      BY <3>2
    <3>. QED BY <3>3 DEF PlannedOnlyWhereProven, Accepted
  <2>3. CASE PlanObserved
    <3>1. PICK facts \in Claims, s \in Asked :
            /\ FactsError(facts) = ""
            /\ Planned([observed |-> Scope(facts)], s, Available(facts), facts.api[1], facts.mode)
      BY <2>3 DEF PlanObserved
    <3>2. \A q \in Range(plan') : Answers(q, [observed |-> Scope(facts)], s, Available(facts))
      BY <3>1, NoErrorIsSupported
    <3>. SUFFICES ASSUME NEW p \in Range(plan'), p.error = ""
                  PROVE  Requires(p.resource) \subseteq Proven[p.context.observed]
      BY DEF PlannedOnlyWhereProven, Accepted
    <3>3. p.context = [observed |-> Scope(facts)] /\ p.resource = s /\ Requires(s) \subseteq Available(facts)
      BY <3>2, Zenon DEF Answers
    <3>4. Available(facts) \subseteq Proven[Scope(facts)]
      BY <3>1, ValidatedFact DEF Available
    <3>5. p.context.observed = Scope(facts)
      <4>1. [observed |-> Scope(facts)].observed = Scope(facts)
        OBVIOUS
      <4>. QED BY <3>3, <4>1
    <3>. QED BY <3>3, <3>4, <3>5
  <2>. QED BY <2>1, <2>2, <2>3, PlansWhenAdmitted
<1>. QED BY <1>1, <1>2, PTL DEF Spec
=============================================================================
