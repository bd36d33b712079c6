---------------------------- MODULE Observations ----------------------------
(***************************************************************************)
(* The observation structs of src/decoder.rs as tables of rows, and the    *)
(* decoding of a container, a network, a volume, a list entry and the      *)
(* daemon's resource support from a document.                              *)
(***************************************************************************)
EXTENDS Fields

HealthcheckRows ==
  <<Row("test",            <<"Test">>,          "Healthcheck", "test"),
    Row("interval_ns",     <<"Interval">>,      "Healthcheck", "unsigned"),
    Row("timeout_ns",      <<"Timeout">>,       "Healthcheck", "unsigned"),
    Row("start_period_ns", <<"StartPeriod">>,   "Healthcheck", "unsigned"),
    Row("start_interval_ns", <<"StartInterval">>, "Healthcheck", "unsigned"),
    Row("retries",         <<"Retries">>,       "Healthcheck", "u32")>>

RestartPolicyRows ==
  <<Row("name",                <<"Name">>,              "RestartPolicy", "string"),
    Row("maximum_retry_count", <<"MaximumRetryCount">>, "RestartPolicy", "u32")>>

UlimitRows ==
  <<Row("name", <<"Name">>, "ResourceLimit", "string"),
    Row("soft", <<"Soft">>, "ResourceLimit", "signed"),
    Row("hard", <<"Hard">>, "ResourceLimit", "signed")>>

DeviceRows ==
  <<Row("host_path",      <<"PathOnHost">>,        "Device", "string"),
    Row("container_path", <<"PathInContainer">>,   "Device", "string"),
    Row("permissions",    <<"CgroupPermissions">>, "Device", "string")>>

ConfiguredMountRows ==
  <<Row("kind",             <<"Type">>,     "RuntimeMount", "string"),
    Row("source",           <<"Source">>,   "RuntimeMount", "string"),
    Row("target",           <<"Target">>,   "RuntimeMount", "string"),
    Row("read_only",        <<"ReadOnly">>, "RuntimeMount", "bool"),
    Row("bind_propagation", <<"BindOptions", "Propagation">>, "RuntimeMount", "string"),
    Row("volume_no_copy",   <<"VolumeOptions", "NoCopy">>,    "RuntimeMount", "bool"),
    Row("tmpfs_size_bytes", <<"TmpfsOptions", "SizeBytes">>,  "RuntimeMount", "signed")>>

LoggingRows ==
  <<Row("driver",  <<"Type">>,   "Logging", "string"),
    Row("options", <<"Config">>, "Logging", "entries")>>

\* mode is read once and interpreted with the availability it was found in.
MountRows ==
  <<Row("mode",                <<"Mode">>,        "Mount", "string"),
    Row("mode_interpretation", <<"Mode">>,        "Mount", "mode"),
    Row("source",              <<"Source">>,      "Mount", "string"),
    Row("destination",         <<"Destination">>, "Mount", "string"),
    Row("name",                <<"Name">>,        "Mount", "string"),
    Row("read_write",          <<"RW">>,          "Mount", "bool"),
    Row("propagation",         <<"Propagation">>, "Mount", "string")>>

AttachmentRows ==
  <<Runtime("network_id",   <<"NetworkID">>,         "Network", "string"),
    Runtime("ip_address",   <<"IPAddress">>,         "Network", "string"),
    Runtime("ipv6_address", <<"GlobalIPv6Address">>, "Network", "string"),
    Row("requested_ipv4_address", <<"IPAMConfig", "IPv4Address">>, "Network", "string"),
    Row("requested_ipv6_address", <<"IPAMConfig", "IPv6Address">>, "Network", "string"),
    Row("aliases",          <<"Aliases">>,           "Network", "strings")>>

IpamConfigRows ==
  <<Row("subnet",   <<"Subnet">>,  "NetworkIpam", "string"),
    Row("gateway",  <<"Gateway">>, "NetworkIpam", "string"),
    Row("ip_range", <<"IPRange">>, "NetworkIpam", "string"),
    Row("auxiliary_addresses", <<"AuxiliaryAddresses">>, "NetworkIpam", "entries")>>

EndpointRows == <<Row("name", <<"Name">>, "Network", "string")>>

RuntimeRows ==
  <<Row("read_only_rootfs", <<"HostConfig", "ReadonlyRootfs">>, "RuntimeMount", "bool"),
    Row("memory_bytes",     <<"HostConfig", "Memory">>,         "ResourceLimit", "signed"),
    Row("pids_limit",       <<"HostConfig", "PidsLimit">>,      "ResourceLimit", "signed"),
    Row("shm_size_bytes",   <<"HostConfig", "ShmSize">>,        "ResourceLimit", "signed"),
    Row("ulimits",          <<"HostConfig", "Ulimits">>,        "ResourceLimit", "ulimits"),
    Row("cap_add",          <<"HostConfig", "CapAdd">>,         "SecuritySetting", "strings"),
    Row("cap_drop",         <<"HostConfig", "CapDrop">>,        "SecuritySetting", "strings"),
    Row("security_options", <<"HostConfig", "SecurityOpt">>,    "SecuritySetting", "strings"),
    Row("userns_mode",      <<"HostConfig", "UsernsMode">>,     "SecuritySetting", "string"),
    Row("supplementary_groups", <<"HostConfig", "GroupAdd">>,   "SecuritySetting", "strings"),
    Row("sysctls",          <<"HostConfig", "Sysctls">>,        "SecuritySetting", "entries"),
    Row("dns_servers",      <<"HostConfig", "Dns">>,            "NameResolution", "strings"),
    Row("dns_options",      <<"HostConfig", "DnsOptions">>,     "NameResolution", "strings"),
    Row("dns_search",       <<"HostConfig", "DnsSearch">>,      "NameResolution", "strings"),
    Row("extra_hosts",      <<"HostConfig", "ExtraHosts">>,     "NameResolution", "strings"),
    Row("init",             <<"HostConfig", "Init">>,           "StopBehavior", "bool"),
    Row("stop_signal",      <<"Config", "StopSignal">>,         "StopBehavior", "string"),
    Row("stop_timeout",     <<"Config", "StopTimeout">>,        "StopBehavior", "signed"),
    Row("logging",          <<"HostConfig", "LogConfig">>,      "Logging", "logging"),
    Row("tmpfs",            <<"HostConfig", "Tmpfs">>,          "RuntimeMount", "entries"),
    Row("binds",            <<"HostConfig", "Binds">>,          "RuntimeMount", "strings"),
    Row("configured_mounts", <<"HostConfig", "Mounts">>,        "RuntimeMount", "configured_mounts"),
    Row("volumes_from",     <<"HostConfig", "VolumesFrom">>,    "RuntimeMount", "strings"),
    Row("devices",          <<"HostConfig", "Devices">>,        "Device", "devices")>>

ContainerRows ==
  <<Runtime("id",             <<"Id">>,                   "Other", "string"),
    Row("name",               <<"Name">>,                 "ContainerName", "string"),
    Row("image",              <<"Config", "Image">>,      "Image", "string"),
    Runtime("image_id",       <<"Image">>,                "Image", "string"),
    Row("labels",             <<"Config", "Labels">>,     "Label", "entries"),
    Row("user",               <<"Config", "User">>,       "User", "string"),
    Row("working_directory",  <<"Config", "WorkingDir">>, "WorkingDirectory", "string"),
    Row("hostname",           <<"Config", "Hostname">>,   "Hostname", "string"),
    Row("environment",        <<"Config", "Env">>,        "Environment", "environment"),
    Row("exposed_ports",      <<"Config", "ExposedPorts">>, "Port", "port_keys"),
    Row("configured_ports",   <<"HostConfig", "PortBindings">>, "Port", "port_bindings"),
    Runtime("runtime_ports",  <<"NetworkSettings", "Ports">>,   "Port", "port_bindings"),
    Row("mounts",             <<"Mounts">>,               "Mount", "mounts"),
    Runtime("networks",       <<"NetworkSettings", "Networks">>, "Network", "networks"),
    Row("network_mode",       <<"HostConfig", "NetworkMode">>,   "NetworkMode", "network_mode"),
    Row("command",            <<"Config", "Cmd">>,        "Command", "command"),
    Row("entrypoint",         <<"Config", "Entrypoint">>, "Entrypoint", "command"),
    Row("healthcheck",        <<"Config", "Healthcheck">>, "Healthcheck", "healthcheck"),
    Row("restart_policy",     <<"HostConfig", "RestartPolicy">>, "RestartPolicy", "restart_policy")>>
    \o RuntimeRows

NetworkRows ==
  <<Runtime("id",               <<"Id">>,         "Network", "string"),
    Runtime("active_endpoints", <<"Containers">>, "Network", "endpoints"),
    Row("name",                 <<"Name">>,       "Network", "string"),
    Row("driver",               <<"Driver">>,     "Network", "string"),
    Row("internal",             <<"Internal">>,   "Network", "bool"),
    Row("enable_ipv6",          <<"EnableIPv6">>, "NetworkOption", "bool"),
    Row("ipam_driver",          <<"IPAM", "Driver">>, "NetworkIpam", "string"),
    Row("ipam_configs",         <<"IPAM", "Config">>, "NetworkIpam", "ipam_configs"),
    Row("options",              <<"Options">>,    "NetworkOption", "entries"),
    Row("labels",               <<"Labels">>,     "Label", "entries")>>

VolumeRows ==
  <<Row("name",           <<"Name">>,       "Volume", "string"),
    Row("driver",         <<"Driver">>,     "Volume", "string"),
    Runtime("mountpoint", <<"Mountpoint">>, "Volume", "string"),
    Row("options",        <<"Options">>,    "Volume", "entries"),
    Row("labels",         <<"Labels">>,     "Label", "entries")>>

SummaryRows ==
  <<Row("names",  <<"Names">>,  "ContainerName", "strings"),
    Row("labels", <<"Labels">>, "Label", "entries"),
    Row("image",  <<"Image">>,  "Image", "string")>>

SupportRows ==
  <<Row("memory_limit", <<"MemoryLimit">>, "ResourceLimit", "bool"),
    Row("swap_limit",   <<"SwapLimit">>,   "ResourceLimit", "bool")>>
-----------------------------------------------------------------------------
\* A mount of a type the library does not know, or that it cannot see, is Other.
MountKind(item) ==
  LET type == FieldValue(item, <<"Type">>) IN
  IF type \in {Text("bind"), Text("volume"), Text("tmpfs")} THEN type.str ELSE "other"
MountObservation(item) ==
  Then(Struct(item, "Mount", MountRows, Leaf), LAMBDA mount : Ok(mount @@ [kind |-> MountKind(item)]))

\* The key of an active endpoint must be a container id; its entry may be withheld.
ActiveEndpoint(id, entry) ==
  IF id \notin CanonicalIds THEN Error("InvalidValue", "Network")
  ELSE Observed(entry, <<>>, "Network", "RuntimeAssigned", LAMBDA details :
         Struct(details, "Network", EndpointRows, Leaf))

Structs(v, field, rows) == Items(v, field, LAMBDA item : Struct(item, field, rows, Leaf))

\* Values made of rows of their own.
Nested(row, v) ==
  CASE row.kind = "healthcheck"    -> Struct(v, row.field, HealthcheckRows, Leaf)
    [] row.kind = "restart_policy" -> Struct(v, row.field, RestartPolicyRows, Leaf)
    [] row.kind = "logging"        -> Struct(v, row.field, LoggingRows, Leaf)
    [] row.kind = "ulimits"        -> Structs(v, row.field, UlimitRows)
    [] row.kind = "devices"        -> Structs(v, row.field, DeviceRows)
    [] row.kind = "configured_mounts" -> Structs(v, row.field, ConfiguredMountRows)
    [] row.kind = "ipam_configs"   -> Structs(v, row.field, IpamConfigRows)
    [] row.kind = "mounts"         -> Items(v, row.field, MountObservation)
    [] row.kind = "networks"       -> Entries(v, row.field, LAMBDA name, item :
                                        Struct(item, row.field, AttachmentRows, Leaf))
    [] row.kind = "endpoints"      -> Entries(v, row.field, ActiveEndpoint)
    [] OTHER                       -> Leaf(row, v)

Container(root) == Struct(root, "Other", ContainerRows, Nested)
Network(root) == Struct(root, "Other", NetworkRows, Nested)
Volume(root) == Struct(root, "Other", VolumeRows, Nested)
ResourceSupport(root) == Struct(root, "Other", SupportRows, Nested)

\* A list entry without an id is no entry; the other fields may be withheld.
ListedId(item, field, key) ==
  LET entries == Typed(item, "obj", field) IN
  IF Failed(entries) THEN entries
  ELSE IF key \notin DOMAIN item.obj THEN Error("InvalidShape", field)
  ELSE Then(String(item.obj[key], field), LAMBDA id :
         IF id = "" THEN Error("InvalidValue", field) ELSE Ok(id))
ContainerSummary(item) ==
  Then(ListedId(item, "Other", "Id"), LAMBDA id :
    Then(Struct(item, "Other", SummaryRows, Leaf), LAMBDA summary : Ok(summary @@ [id |-> id])))

\* assess_report: a report of the daemon's, if it is effective and there.
Reported(report) ==
  IF report.availability # "Present" \/ report.origin # "Effective" \/ report.value = None THEN "Unknown"
  ELSE IF report.value THEN "ReportedAvailableUnverified" ELSE "ReportedUnavailable"

\* What decode_capture warns of in an inspected container.
Findings(container) ==
  LET mounts == IF container.mounts.value = None THEN <<>> ELSE container.mounts.value
      health == container.healthcheck.value IN
  {<<"UnsupportedValue", "Mount", i>> : i \in {j \in DOMAIN mounts :
      \/ mounts[j].kind = "other"
      \/ mounts[j].mode_interpretation.value = [unsupported |-> TRUE]}}
  \cup {<<"NativeConflict", "Mount", i>> : i \in {j \in DOMAIN mounts :
      AccessConflicts(mounts[j].mode_interpretation, mounts[j].read_write)}}
  \cup (IF container.network_mode.value # None
        THEN {<<"UnsupportedValue", "NetworkMode", 0>> : k \in
                {container.network_mode.value.kind} \ {"default", "bridge"}} ELSE {})
  \cup (IF health # None
        THEN {<<"UnsupportedValue", "Healthcheck", 0>> : t \in {x \in {health.test.value} :
                x # None /\ Is(x, "other")}} ELSE {})
=============================================================================
