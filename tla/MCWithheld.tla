----------------------------- MODULE MCWithheld -----------------------------
EXTENDS Withheld

\* An object from its keys and values.
Obj(keys, values) == Object([k \in ToSet(keys) |-> values[CHOOSE i \in DOMAIN keys : keys[i] = k]])
Strings == List(<<Text("a"), Text("b")>>)
Map == Obj(<<"k", "l">>, <<Text("a"), Null>>)

MCPortText == [text \in {"80/tcp", "53/udp"} |-> IF text = "80/tcp" THEN <<80, "tcp">> ELSE <<53, "udp">>]
MCDigitsText == [text \in {"8080"} |-> 8080]
MCAssignmentText == [text \in {"a", "b"} |-> text]
MCModeText == [text \in {"a", "rw,z", "z,ro"} |->
                 CASE text = "a" -> <<"a">> [] text = "rw,z" -> <<"rw", "z">> [] text = "z,ro" -> <<"z", "ro">>]

Binding == Obj(<<"HostIp", "HostPort">>, <<Text(""), Text("8080")>>)
Ports == Obj(<<"80/tcp", "53/udp">>, <<List(<<Binding>>), Null>>)
Mount == Obj(<<"Type", "Mode", "Source", "Destination", "Name", "RW", "Propagation">>,
             <<Text("bind"), Text("rw,z"), Text("a"), Text("b"), Text(""), Flag(TRUE), Text("")>>)
Contradictory == Obj(<<"Type", "Mode", "RW">>, <<Text("npipe"), Text("z,ro"), Flag(TRUE)>>)
Attachment == Obj(<<"NetworkID", "IPAddress", "GlobalIPv6Address", "IPAMConfig", "Aliases">>,
                  <<Text("n"), Text("a"), Text(""),
                    Obj(<<"IPv4Address", "IPv6Address">>, <<Text("a"), Text("b")>>), Strings>>)
Healthcheck == Obj(<<"Test", "Interval", "Timeout", "StartPeriod", "StartInterval", "Retries">>,
                   <<List(<<Text("HTTP"), Text("a")>>), Number(1), Number(1), Number(0), Number(0), Number(3)>>)
Restart == Obj(<<"Name", "MaximumRetryCount">>, <<Text("a"), Number(2)>>)
Ulimit == Obj(<<"Name", "Soft", "Hard">>, <<Text("a"), Number(1), Number(-1)>>)
Logging == Obj(<<"Type", "Config">>, <<Text("a"), Map>>)
ConfiguredMount ==
  Obj(<<"Type", "Source", "Target", "ReadOnly", "BindOptions", "VolumeOptions", "TmpfsOptions">>,
      <<Text("bind"), Text("a"), Text("b"), Flag(FALSE), Obj(<<"Propagation">>, <<Text("a")>>),
        Obj(<<"NoCopy">>, <<Flag(TRUE)>>), Obj(<<"SizeBytes">>, <<Number(9)>>)>>)
Device == Obj(<<"PathOnHost", "PathInContainer", "CgroupPermissions">>, <<Text("a"), Text("b"), Text("a")>>)
Ipam == Obj(<<"Subnet", "Gateway", "IPRange", "AuxiliaryAddresses">>, <<Text("a"), Text("b"), Text(""), Map>>)

ContainerDocument ==
  Obj(<<"Id", "Name", "Image", "Mounts", "Config", "HostConfig", "NetworkSettings">>,
      <<Text("c"), Text("a"), Text("b"), List(<<Mount, Contradictory>>),
        Obj(<<"Image", "Labels", "User", "WorkingDir", "Hostname", "Env", "ExposedPorts", "Cmd", "Entrypoint",
              "Healthcheck", "StopSignal", "StopTimeout">>,
            <<Text("a"), Map, Text(""), Text("a"), Text("b"), Strings, Ports, Strings, Text("a"),
              Healthcheck, Text("a"), Number(10)>>),
        Obj(<<"PortBindings", "NetworkMode", "RestartPolicy", "ReadonlyRootfs", "Memory", "PidsLimit", "ShmSize",
              "Ulimits", "CapAdd", "CapDrop", "SecurityOpt", "UsernsMode", "GroupAdd", "Sysctls", "Dns",
              "DnsOptions", "DnsSearch", "ExtraHosts", "Init", "LogConfig", "Tmpfs", "Binds", "Mounts",
              "VolumesFrom", "Devices">>,
            <<Ports, Text("host"), Restart, Flag(FALSE), Number(5), Number(-1), Number(5),
              List(<<Ulimit>>), Strings, List(<<>>), Strings, Text(""), Strings, Map, Strings,
              Strings, Strings, Strings, Flag(TRUE), Logging, Map, Strings, List(<<ConfiguredMount>>),
              Strings, List(<<Device>>)>>),
        Obj(<<"Ports", "Networks">>, <<Ports, Obj(<<"front">>, <<Attachment>>)>>)>>)
NetworkDocument ==
  Obj(<<"Id", "Containers", "Name", "Driver", "Internal", "EnableIPv6", "IPAM", "Options", "Labels">>,
      <<Text("n"), Obj(<<"c">>, <<Obj(<<"Name">>, <<Text("a")>>)>>), Text("a"), Text("bridge"), Flag(FALSE),
        Flag(TRUE), Obj(<<"Driver", "Config">>, <<Text("a"), List(<<Ipam>>)>>), Map, Map>>)
VolumeDocument ==
  Obj(<<"Name", "Driver", "Mountpoint", "Options", "Labels">>, <<Text("a"), Text("b"), Text("a"), Map, Map>>)

SummaryDocument == Obj(<<"Id", "Names", "Labels", "Image">>, <<Text("c"), Strings, Map, Text("a")>>)
SupportDocument == Obj(<<"MemoryLimit", "SwapLimit">>, <<Flag(TRUE), Flag(FALSE)>>)

Subject(rows, doc) == [rows |-> rows, document |-> doc]
MCSubjects ==
  [Container |-> Subject(ContainerRows, ContainerDocument), Network |-> Subject(NetworkRows, NetworkDocument),
   Volume |-> Subject(VolumeRows, VolumeDocument), Mount |-> Subject(MountRows, Mount),
   Attachment |-> Subject(AttachmentRows, Attachment), Healthcheck |-> Subject(HealthcheckRows, Healthcheck),
   ConfiguredMount |-> Subject(ConfiguredMountRows, ConfiguredMount), Ipam |-> Subject(IpamConfigRows, Ipam),
   Summary |-> Subject(SummaryRows, SummaryDocument), Support |-> Subject(SupportRows, SupportDocument)]
=============================================================================
