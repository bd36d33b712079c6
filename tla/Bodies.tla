------------------------------- MODULE Bodies -------------------------------
(***************************************************************************)
(* The request bodies DockerApiRenderer writes: render/container.rs,       *)
(* render/network.rs and the volume arm of render.rs, all under            *)
(* src/target_modules.  The code writes text; here a body is the sequence  *)
(* of members and commas written between a pair of braces, and Parsed is   *)
(* what a JSON parser makes of it.  A comma that depends only on an index  *)
(* is part of List.                                                        *)
(***************************************************************************)
EXTENDS Resources, JsonValues, TLC

CONSTANTS Named    \* reference -> identity, of the networks and volumes around

Comma == [comma |-> TRUE]
Member(key, v) == [key |-> key, value |-> v]

\* External: an object, if members alternate with commas and no key repeats.
Parsed(tokens) ==
  LET members == SelectSeq(tokens, LAMBDA t : Is(t, "key"))
      keys == {m.key : m \in Range(members)}
  IN IF /\ Len(tokens) = IF members = <<>> THEN 0 ELSE 2 * Len(members) - 1
        /\ \A i \in DOMAIN tokens : Is(tokens[i], "key") = (i % 2 = 1)
        /\ Cardinality(keys) = Len(members)
     THEN Object([k \in keys |-> (CHOOSE m \in Range(members) : m.key = k).value])
     ELSE Broken

Each(list, Value(_)) == [i \in DOMAIN list |-> Value(list[i])]
Texts(list) == Each(list, Text)
Pairs(list) == Object([k \in {p.key : p \in Range(list)} |-> Text((CHOOSE p \in Range(list) : p.key = k).value)])

\* A member that is written when it has a value: Field(key, <<>>) is not.
Field(key, values) == [key |-> key, values |-> values]
Listed(key, list) == Field(key, IF list = <<>> THEN <<>> ELSE <<List(list)>>)
Entered(key, list) == Field(key, IF list = <<>> THEN <<>> ELSE <<Pairs(list)>>)

\* Members that follow one already written, each with its comma.
Further(fields) ==
  FlattenSeq(Each(fields, LAMBDA f : IF f.values = <<>> THEN <<>> ELSE <<Comma, Member(f.key, f.values[1])>>))

\* host_field_prefix: a comma if a flag says that something was written, and
\* the flag.  The first fields of HostConfig and the small objects do it by hand.
HostField_BindsForgotten(body, f) ==     \* mutant: the Binds branch does not set the flag
  IF f.values = <<>> THEN body
  ELSE [tokens |-> body.tokens \o (IF body.field THEN <<Comma>> ELSE <<>>) \o <<Member(f.key, f.values[1])>>,
        field |-> body.field \/ f.key # "Binds"]
HostField(body, f) ==
  IF f.values = <<>> THEN body
  ELSE [tokens |-> body.tokens \o (IF body.field THEN <<Comma>> ELSE <<>>) \o <<Member(f.key, f.values[1])>>,
        field |-> TRUE]
Written(fields) == Parsed(FoldLeft(HostField, [tokens |-> <<>>, field |-> FALSE], fields).tokens)
-----------------------------------------------------------------------------
PortKeyOf(p) == ToString(p.container) \o "/" \o p.protocol

\* An address is followed by its comma, the port closes the object.
HostBindingBody(b) ==
  LET port == Member("HostPort", Text(IF b.host_port = Ephemeral THEN "" ELSE ToString(b.host_port))) IN
  Parsed((IF b.host_ip = <<>> THEN <<>> ELSE <<Member("HostIp", Text(b.host_ip[1].text)), Comma>>) \o <<port>>)
PortBindingsBody(ports) ==
  LET published == {p \in Range(ports) : p.bindings # <<>>} IN
  IF published = {} THEN <<>>
  ELSE <<Object([k \in {PortKeyOf(p) : p \in published} |->
           List(Each((CHOOSE p \in published : PortKeyOf(p) = k).bindings, HostBindingBody))])>>

\* A relabelled bind goes into Binds, all other mounts into Mounts.
BindText(m) ==
  m.source \o ":" \o m.target \o (IF m.read_only THEN ":ro," ELSE ":rw,")
    \o (IF m.relabel = <<"shared">> THEN "z" ELSE "Z")
MountBody(m) ==
  Parsed(<<Member("Type", Text(m.type))>>
    \o Further(<<Field("Source", CASE m.type = "bind" -> <<Text(m.source)>>
                                   [] m.type = "volume" -> <<Text(Named[m.source])>>
                                   [] m.type = "tmpfs" -> <<>>),
                 Field("Target", <<Text(m.target)>>),
                 Field("ReadOnly", <<Flag(m.read_only)>>),
                 Field("TmpfsOptions",
                       IF m.size = <<>> /\ m.mode = <<>> THEN <<>>
                       ELSE <<Written(<<Field("SizeBytes", Each(m.size, Number)),
                                        Field("Mode", Each(m.mode, Number))>>)>>)>>))

EndpointBody(a) ==
  Written(<<Listed("Aliases", Texts(a.aliases)),
            Field("IPAMConfig",
                  IF a.ipv4 = <<>> /\ a.ipv6 = <<>> THEN <<>>
                  ELSE <<Written(<<Field("IPv4Address", Each(a.ipv4, LAMBDA x : Text(x.text))),
                                   Field("IPv6Address", Each(a.ipv6, LAMBDA x : Text(x.text)))>>)>>)>>)

RestartBody(r) ==
  Parsed(<<Member("Name", Text(r.name)), Comma,
           Member("MaximumRetryCount", Number(IF r.name = "on-failure" THEN r.retries ELSE 0))>>)

Limited(n) == IF n = Unlimited THEN -1 ELSE n
UlimitBody(u) ==
  Parsed(<<Member("Name", Text(u.name)), Comma, Member("Soft", Number(Limited(u.soft))), Comma,
           Member("Hard", Number(Limited(u.hard)))>>)
DeviceBody(d) ==
  LET letter(flag, x) == IF flag THEN x ELSE "" IN
  Parsed(<<Member("PathOnHost", Text(d.host_path)), Comma,
           Member("PathInContainer", Text(d.container_path)), Comma,
           Member("CgroupPermissions",
                  Text(letter(d.read, "r") \o letter(d.write, "w") \o letter(d.create, "m")))>>)
LogBody(log) ==
  Parsed(<<Member("Type", Text(log.driver)), Comma, Member("Config", Pairs(log.options))>>)

HostFields(c) ==
  LET s == c.settings IN
  <<Field("PortBindings", PortBindingsBody(c.ports)),
    Listed("Binds", Texts(Each(SelectSeq(c.mounts, LAMBDA m : m.relabel # <<>>), BindText))),
    Listed("Mounts", Each(SelectSeq(c.mounts, LAMBDA m : m.relabel = <<>>), MountBody)),
    Field("NetworkMode", IF c.networks = <<>> THEN <<>> ELSE <<Text(Named[c.networks[1].network])>>),
    Field("RestartPolicy", Each(c.restart, RestartBody)),
    Field("ReadonlyRootfs", Each(s.read_only_rootfs, Flag)),
    Field("Init", Each(s.init, Flag)),
    Field("Memory", Each(s.memory, LAMBDA n : Number(IF n = Unlimited THEN 0 ELSE n))),
    Field("PidsLimit", Each(s.pids, LAMBDA n : Number(Limited(n)))),
    Field("ShmSize", Each(s.shm, Number)),
    Listed("Ulimits", Each(s.ulimits, UlimitBody)),
    Listed("Devices", Each(s.devices, DeviceBody)),
    Listed("CapAdd", Texts(s.cap_add)),
    Listed("CapDrop", Texts(s.cap_drop)),
    Listed("SecurityOpt", Each(s.security, LAMBDA on :
             Text(IF on THEN "no-new-privileges:true" ELSE "no-new-privileges:false"))),
    Entered("Sysctls", s.sysctls),
    Listed("GroupAdd", Texts(s.group_add)),
    Listed("Dns", Each(s.dns, LAMBDA a : Text(a.text))),
    Listed("ExtraHosts", Each(s.extra_hosts, LAMBDA h : Text(h.name \o ":" \o h.address.text))),
    Field("LogConfig", Each(s.log, LogBody)),
    Field("UsernsMode", Texts(s.userns))>>
-----------------------------------------------------------------------------
CommandBody(key, command) ==
  Field(key, IF command.form = "inherit" THEN <<>> ELSE <<List(Texts(command.arguments))>>)

HealthBody(h) ==
  LET test == CASE h.form = "exec"  -> <<"CMD">> \o h.arguments
                [] h.form = "shell" -> <<"CMD-SHELL">> \o h.arguments
                [] h.form = "disabled" -> <<"NONE">>
  IN Parsed(<<Member("Test", List(Texts(test)))>>
       \o Further(<<Field("Interval", Each(h.interval, Number)),
                    Field("Timeout", Each(h.timeout, Number)),
                    Field("Retries", Each(h.retries, Number)),
                    Field("StartPeriod", Each(h.start_period, Number)),
                    Field("StartInterval", Each(h.start_interval, Number))>>))

\* render_container.
ContainerBody(c) ==
  LET s == c.settings IN
  Parsed(<<Member("Image", Text(c.image))>>
    \o Further(
      <<Listed("Env", Each(c.environment, LAMBDA e : Text(e.key \o "=" \o e.value))),
        CommandBody("Entrypoint", c.entrypoint),
        CommandBody("Cmd", c.command),
        Field("Healthcheck", Each(c.healthcheck, HealthBody)),
        Entered("Labels", s.labels),
        Field("User", Texts(s.user)),
        Field("WorkingDir", Texts(s.working_dir)),
        Field("Hostname", Texts(s.hostname)),
        Field("StopSignal", Texts(s.stop_signal)),
        Field("StopTimeout", Each(s.stop_timeout, Number)),
        Field("ExposedPorts",
              IF c.ports = <<>> THEN <<>>
              ELSE <<Object([k \in {PortKeyOf(p) : p \in Range(c.ports)} |-> Parsed(<<>>)])>>),
        Field("HostConfig", <<Written(HostFields(c))>>),
        Field("NetworkingConfig",
              IF c.networks = <<>> THEN <<>>
              ELSE <<Parsed(<<Member("EndpointsConfig",
                       Object([n \in {Named[c.networks[1].network]} |-> EndpointBody(c.networks[1])]))>>)>>)>>))

\* render_secondary_connection: to which network, and with what body.
ConnectBody(c, i) ==
  [network |-> Named[c.networks[i].network],
   body |-> Parsed(<<Member("Container", Text(c.identity)), Comma,
                     Member("EndpointConfig", EndpointBody(c.networks[i]))>>)]

SubnetText(s) == s.text \o "/" \o ToString(s.prefix)
PoolBody(pool) ==
  Parsed(<<Member("Subnet", Text(SubnetText(pool.subnet)))>>
    \o Further(<<Field("IPRange", Each(pool.ip_range, LAMBDA r : Text(SubnetText(r)))),
                 Field("Gateway", Each(pool.gateway, LAMBDA a : Text(a.text))),
                 Entered("AuxiliaryAddresses",
                         Each(pool.auxiliary, LAMBDA x : [key |-> x.name, value |-> x.address.text]))>>))
OptionPair(o) ==
  [key |-> CASE o.option = "mtu" -> "com.docker.network.driver.mtu"
             [] o.option = "icc" -> "com.docker.network.bridge.enable_icc"
             [] o.option = "masquerade" -> "com.docker.network.bridge.enable_ip_masquerade"
             [] o.option = "host_binding" -> "com.docker.network.bridge.host_binding_ipv4",
   value |-> IF o.option \notin {"icc", "masquerade"} THEN o.value ELSE IF o.enabled THEN "true" ELSE "false"]

\* render_network and the body of a volume.  IPAM's driver is followed by its comma.
NetworkBody(n) ==
  Parsed(<<Member("Name", Text(n.identity)), Comma, Member("Driver", Text("bridge"))>>
    \o Further(
      <<Field("Internal", IF n.internal THEN <<Flag(TRUE)>> ELSE <<>>),
        Field("EnableIPv6", IF n.enable_ipv6 THEN <<Flag(TRUE)>> ELSE <<>>),
        Field("IPAM", Each(n.ipam, LAMBDA ipam :
          Parsed((IF ipam.driver = <<>> THEN <<>> ELSE <<Member("Driver", Text("default")), Comma>>)
                   \o <<Member("Config", List(Each(ipam.pools, PoolBody)))>>))),
        Entered("Options", Each(n.options, OptionPair)),
        Entered("Labels", n.labels)>>))
VolumeBody(v) ==
  Parsed(<<Member("Name", Text(v.identity))>> \o Further(<<Entered("Labels", v.labels)>>))
=============================================================================
