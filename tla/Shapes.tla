------------------------------- MODULE Shapes -------------------------------
(***************************************************************************)
(* NativeCapabilityShape of src/version.rs: the branches of the renderer   *)
(* that native evidence exercises.  The source keeps two tables of them,   *)
(* one from a shape to the capability it is evidence for and one from a    *)
(* capability to the shapes it needs, and so does this module; then come   *)
(* the sets that src/reviewed_catalog.rs expects of each lane's record.    *)
(***************************************************************************)
EXTENDS Naturals, SequencesExt

\* required_for: a capability without an entry is never admitted.
RequiredFor ==
  [StandaloneContainer |-> {"StandaloneCreate"},
   NamedVolume |-> {"NamedVolumeCreate", "NamedVolumeMountReadWrite", "NamedVolumeMountReadOnly"},
   VolumeLabels |-> {"VolumeCreateLabels"},
   VolumeExternalReference |-> {"ExternalVolumeReference"},
   BridgeNetwork |-> {"BridgeNetworkCreate", "BridgeNetworkAttach"},
   NetworkExternalReference |-> {"ExternalNetworkReference"},
   NetworkExternalInternalExpectation |-> {"ExternalNetworkInternalFalse", "ExternalNetworkInternalTrue"},
   NetworkInternal |-> {"InternalBridgeNetworkCreate"},
   NetworkIpv6 |-> {"Ipv6BridgeNetworkCreate"},
   NetworkIpam |-> {"NetworkIpamV4", "NetworkIpamV6", "NetworkIpamGateway", "NetworkIpamRange",
                    "NetworkIpamAuxiliary"},
   NetworkIpamDriver |-> {"NetworkIpamDefaultDriver"},
   NetworkOptions |-> {"NetworkBridgeMtu", "NetworkBridgeIcc", "NetworkBridgeIccDisabled",
                       "NetworkBridgeMasquerade", "NetworkBridgeMasqueradeEnabled",
                       "NetworkBridgeHostBindingIp"},
   NetworkLabels |-> {"NetworkCreateLabels"},
   NetworkAliases |-> {"NetworkPrimaryAliases", "NetworkSecondaryAliases"},
   NetworkStaticAddress |-> {"NetworkStaticIpv4", "NetworkStaticIpv6"},
   NetworkMultipleAttachment |-> {"NetworkSecondaryConnect"},
   PortPublish |-> {"FixedTcpPort", "FixedUdpPort"},
   PortExposeOnly |-> {"ExposedOnlyPort"},
   PortHostIpv4 |-> {"FixedIpv4HostPort", "EphemeralIpv4HostPort"},
   PortHostIpv6 |-> {"FixedIpv6HostPort", "EphemeralIpv6HostPort"},
   PortMultipleBindings |-> {"MultipleFixedPortBindings", "MultipleEphemeralPortBindings"},
   PortEphemeral |-> {"EphemeralHostPort"},
   BindMount |-> {"BindMountReadWrite", "BindMountReadOnly"},
   BindRelabelShared |-> {"BindMountSharedRelabelReadWrite", "BindMountSharedRelabelReadOnly"},
   BindRelabelPrivate |-> {"BindMountPrivateRelabelReadWrite", "BindMountPrivateRelabelReadOnly"},
   TmpfsMount |-> {"TmpfsMountReadWrite", "TmpfsMountReadOnly", "TmpfsMountOptions"},
   EnvironmentAssignment |-> {"EnvironmentValue", "EnvironmentEmptyValue"},
   Command |-> {"ExecCommand"},
   CommandClear |-> {"ClearCommand"},
   Entrypoint |-> {"ExecEntrypoint"},
   EntrypointClear |-> {"ClearEntrypoint"},
   Healthcheck |-> {"ExecHealthcheck"},
   HealthShell |-> {"ShellHealthcheck"},
   HealthDisabled |-> {"DisabledHealthcheck"},
   HealthStartPeriod |-> {"HealthStartPeriodZero", "HealthStartPeriodPositive"},
   HealthStartInterval |-> {"HealthStartIntervalZero", "HealthStartIntervalPositive"},
   ContainerLabels |-> {"ContainerCreateLabels"},
   ContainerUser |-> {"ContainerUser"},
   ContainerWorkdir |-> {"ContainerWorkdir"},
   ContainerHostname |-> {"ContainerHostname"},
   ReadOnlyRootfs |-> {"ReadOnlyRootfsTrue", "ReadOnlyRootfsFalse"},
   ContainerInit |-> {"ContainerInitTrue", "ContainerInitFalse"},
   StopSignal |-> {"StopSignal"},
   StopTimeout |-> {"StopTimeoutZero", "StopTimeoutPositive"},
   MemoryLimit |-> {"MemoryBytes", "MemoryUnlimited"},
   PidsLimit |-> {"PidsCount", "PidsUnlimited"},
   ShmSize |-> {"ShmSize"},
   Ulimits |-> {"UlimitsFinite", "UlimitsUnlimited"},
   UlimitNofile |-> {"UlimitNofile"},
   DeviceMappings |-> {"DeviceMappings"},
   LinuxCapabilities |-> {"LinuxCapAdd", "LinuxCapDrop"},
   CapAddNetBindService |-> {"CapAddNetBindService"},
   CapDropSysAdmin |-> {"CapDropSysAdmin"},
   SecurityOptions |-> {"NoNewPrivilegesEnabled", "NoNewPrivilegesDisabled"},
   Sysctls |-> {"Sysctls"},
   SysctlIpv4Forward |-> {"SysctlIpv4Forward"},
   SupplementaryGroups |-> {"SupplementaryGroups"},
   DnsServers |-> {"DnsIpv4", "DnsIpv6"},
   ExtraHosts |-> {"ExtraHostsIpv4", "ExtraHostsIpv6"},
   LogConfig |-> {"LogJsonFile", "LogLocal", "LogNone", "LogOptions"},
   LogOptionMaxSize |-> {"LogOptionMaxSize"},
   RestartPolicy |-> {"RestartNo", "RestartAlways", "RestartUnlessStopped",
                      "RestartOnFailureUnlimited", "RestartOnFailureLimited"}]

\* capability(): the arms of the match that lead to another name than the
\* shape's own; every other shape is evidence for the capability it is named for.
Arms ==
  <<[of |-> {"StandaloneCreate"}, to |-> "StandaloneContainer"],
    [of |-> {"NamedVolumeCreate", "NamedVolumeMountReadWrite", "NamedVolumeMountReadOnly"},
     to |-> "NamedVolume"],
    [of |-> {"VolumeCreateLabels"}, to |-> "VolumeLabels"],
    [of |-> {"ExternalVolumeReference"}, to |-> "VolumeExternalReference"],
    [of |-> {"BridgeNetworkCreate", "BridgeNetworkAttach"}, to |-> "BridgeNetwork"],
    [of |-> {"ExternalNetworkReference"}, to |-> "NetworkExternalReference"],
    [of |-> {"ExternalNetworkInternalFalse", "ExternalNetworkInternalTrue"},
     to |-> "NetworkExternalInternalExpectation"],
    [of |-> {"InternalBridgeNetworkCreate"}, to |-> "NetworkInternal"],
    [of |-> {"Ipv6BridgeNetworkCreate"}, to |-> "NetworkIpv6"],
    [of |-> {"NetworkIpamV4", "NetworkIpamV6", "NetworkIpamGateway", "NetworkIpamRange",
             "NetworkIpamAuxiliary"}, to |-> "NetworkIpam"],
    [of |-> {"NetworkIpamDefaultDriver"}, to |-> "NetworkIpamDriver"],
    [of |-> {"NetworkBridgeMtu", "NetworkBridgeIcc", "NetworkBridgeIccDisabled",
             "NetworkBridgeMasquerade", "NetworkBridgeMasqueradeEnabled",
             "NetworkBridgeHostBindingIp"}, to |-> "NetworkOptions"],
    [of |-> {"NetworkCreateLabels"}, to |-> "NetworkLabels"],
    [of |-> {"NetworkPrimaryAliases", "NetworkSecondaryAliases"}, to |-> "NetworkAliases"],
    [of |-> {"NetworkStaticIpv4", "NetworkStaticIpv6"}, to |-> "NetworkStaticAddress"],
    [of |-> {"NetworkSecondaryConnect"}, to |-> "NetworkMultipleAttachment"],
    [of |-> {"FixedTcpPort", "FixedUdpPort"}, to |-> "PortPublish"],
    [of |-> {"ExposedOnlyPort"}, to |-> "PortExposeOnly"],
    [of |-> {"FixedIpv4HostPort", "EphemeralIpv4HostPort"}, to |-> "PortHostIpv4"],
    [of |-> {"FixedIpv6HostPort", "EphemeralIpv6HostPort"}, to |-> "PortHostIpv6"],
    [of |-> {"MultipleFixedPortBindings", "MultipleEphemeralPortBindings"},
     to |-> "PortMultipleBindings"],
    [of |-> {"EphemeralHostPort"}, to |-> "PortEphemeral"],
    [of |-> {"BindMountReadWrite", "BindMountReadOnly"}, to |-> "BindMount"],
    [of |-> {"BindMountSharedRelabelReadWrite", "BindMountSharedRelabelReadOnly"},
     to |-> "BindRelabelShared"],
    [of |-> {"BindMountPrivateRelabelReadWrite", "BindMountPrivateRelabelReadOnly"},
     to |-> "BindRelabelPrivate"],
    [of |-> {"TmpfsMountReadWrite", "TmpfsMountReadOnly", "TmpfsMountOptions"}, to |-> "TmpfsMount"],
    [of |-> {"EnvironmentValue", "EnvironmentEmptyValue"}, to |-> "EnvironmentAssignment"],
    [of |-> {"ExecCommand"}, to |-> "Command"],
    [of |-> {"ClearCommand"}, to |-> "CommandClear"],
    [of |-> {"ExecEntrypoint"}, to |-> "Entrypoint"],
    [of |-> {"ClearEntrypoint"}, to |-> "EntrypointClear"],
    [of |-> {"ExecHealthcheck"}, to |-> "Healthcheck"],
    [of |-> {"ShellHealthcheck"}, to |-> "HealthShell"],
    [of |-> {"DisabledHealthcheck"}, to |-> "HealthDisabled"],
    [of |-> {"HealthStartPeriodZero", "HealthStartPeriodPositive"}, to |-> "HealthStartPeriod"],
    [of |-> {"HealthStartIntervalZero", "HealthStartIntervalPositive"}, to |-> "HealthStartInterval"],
    [of |-> {"ContainerCreateLabels"}, to |-> "ContainerLabels"],
    [of |-> {"ReadOnlyRootfsTrue", "ReadOnlyRootfsFalse"}, to |-> "ReadOnlyRootfs"],
    [of |-> {"ContainerInitTrue", "ContainerInitFalse"}, to |-> "ContainerInit"],
    [of |-> {"StopTimeoutZero", "StopTimeoutPositive"}, to |-> "StopTimeout"],
    [of |-> {"MemoryBytes", "MemoryUnlimited"}, to |-> "MemoryLimit"],
    [of |-> {"PidsCount", "PidsUnlimited"}, to |-> "PidsLimit"],
    [of |-> {"UlimitsFinite", "UlimitsUnlimited"}, to |-> "Ulimits"],
    [of |-> {"LinuxCapAdd", "LinuxCapDrop"}, to |-> "LinuxCapabilities"],
    [of |-> {"NoNewPrivilegesEnabled", "NoNewPrivilegesDisabled"}, to |-> "SecurityOptions"],
    [of |-> {"DnsIpv4", "DnsIpv6"}, to |-> "DnsServers"],
    [of |-> {"ExtraHostsIpv4", "ExtraHostsIpv6"}, to |-> "ExtraHosts"],
    [of |-> {"LogJsonFile", "LogLocal", "LogNone", "LogOptions"}, to |-> "LogConfig"],
    [of |-> {"RestartNo", "RestartAlways", "RestartUnlessStopped", "RestartOnFailureUnlimited",
             "RestartOnFailureLimited"}, to |-> "RestartPolicy"]>>
CapabilityOf(shape) ==
  LET arm == {a \in Range(Arms) : shape \in a.of}
  IN IF arm = {} THEN shape ELSE (CHOOSE a \in arm : TRUE).to
-----------------------------------------------------------------------------
\* The admission set of the compiled cohort, and what upstream adds to it.
ReviewedCapabilities ==
  {"StandaloneContainer", "NamedVolume", "BridgeNetwork", "PortPublish", "BindMount",
   "EnvironmentAssignment", "Command", "Entrypoint", "Healthcheck", "RestartPolicy",
   "VolumeExternalReference", "NetworkExternalReference", "NetworkExternalInternalExpectation",
   "NetworkInternal", "VolumeLabels", "ContainerUser", "ContainerWorkdir", "PortHostIpv4",
   "PortMultipleBindings", "PortExposeOnly", "PortEphemeral", "ContainerLabels", "HealthShell",
   "HealthStartPeriod", "NetworkLabels", "NetworkAliases", "NetworkMultipleAttachment",
   "BindRelabelShared", "BindRelabelPrivate", "StopSignal"}
ReviewedShapes ==
  {"StandaloneCreate", "NamedVolumeCreate", "NamedVolumeMountReadWrite", "NamedVolumeMountReadOnly",
   "BridgeNetworkCreate", "BridgeNetworkAttach", "FixedTcpPort", "FixedUdpPort",
   "BindMountReadWrite", "BindMountReadOnly", "EnvironmentValue", "EnvironmentEmptyValue",
   "ExecCommand", "ExecEntrypoint", "ExecHealthcheck", "RestartNo", "RestartAlways",
   "RestartUnlessStopped", "RestartOnFailureUnlimited", "RestartOnFailureLimited",
   "ExternalVolumeReference", "ExternalNetworkReference", "ExternalNetworkInternalFalse",
   "ExternalNetworkInternalTrue", "InternalBridgeNetworkCreate", "VolumeCreateLabels",
   "ContainerUser", "ContainerWorkdir", "FixedIpv4HostPort", "EphemeralIpv4HostPort",
   "MultipleFixedPortBindings", "MultipleEphemeralPortBindings", "ExposedOnlyPort",
   "EphemeralHostPort", "ContainerCreateLabels", "ShellHealthcheck", "HealthStartPeriodZero",
   "HealthStartPeriodPositive", "NetworkCreateLabels", "NetworkPrimaryAliases",
   "NetworkSecondaryAliases", "NetworkSecondaryConnect", "BindMountSharedRelabelReadWrite",
   "BindMountSharedRelabelReadOnly", "BindMountPrivateRelabelReadWrite",
   "BindMountPrivateRelabelReadOnly", "StopSignal"}

Upstream(lane) == lane \in {"UpstreamRootful", "UpstreamRootless"}
ExpectedCapabilities(lane) ==
  ReviewedCapabilities \cup (IF Upstream(lane) THEN {"PortHostIpv6"} ELSE {})
ExpectedShapes(lane) ==
  ReviewedShapes
    \cup (IF Upstream(lane) THEN {"FixedIpv6HostPort", "EphemeralIpv6HostPort"} ELSE {})
=============================================================================
