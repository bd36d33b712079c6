------------------------------ MODULE MCReview ------------------------------
(***************************************************************************)
(* Catalogs: the four reviewed records, records of everything but one      *)
(* capability, and records with one thing wrong.  Resources: a few that    *)
(* take every branch between them.  Claims: what three acquisitions could  *)
(* honestly report, in any mixture of two.                                 *)
(***************************************************************************)
EXTENDS Review, TLC

Identity(build, release, mode) ==
  [build |-> build, release |-> release, advertised |-> <<1, 41>>, acquisition |-> <<1, 41>>,
   rendering |-> <<1, 41>>, mode |-> mode]
Debian(mode) == Identity("20.10.5+dfsg1-1+deb11u2", "20.10.5+dfsg1", mode)
Modern(mode) == Identity("upstream", "29.8.1", mode)
Of(lane) ==
  CASE lane = "Debian11Rootful" -> Debian("Rootful") [] lane = "Debian11Rootless" -> Debian("Rootless")
    [] lane = "UpstreamRootful" -> Modern("Rootful") [] lane = "UpstreamRootless" -> Modern("Rootless")

InSomeOrder(S) == FoldSet(LAMBDA x, listed : Append(listed, x), <<>>, S)
Record(lane, key, capabilities, shapes) ==
  [profile |-> [identity |-> Of(lane), key |-> key], lane |-> lane, record_key |-> key,
   capabilities |-> InSomeOrder({[capability |-> c, state |-> "Available"] : c \in capabilities}),
   shapes |-> InSomeOrder(shapes)]
Reviewed(lane) == Record(lane, lane, ExpectedCapabilities(lane), ExpectedShapes(lane))

Everything == DOMAIN RequiredFor
Backed(lane, key, capabilities) ==
  Record(lane, key, capabilities, UNION {RequiredFor[c] : c \in capabilities})
Whole(key) == Backed("UpstreamRootful", key, Everything)

Some == {"StandaloneContainer", "NamedVolume", "PortPublish"}
Little == Backed("UpstreamRootless", "little", Some)
Wrong ==
  {[Little EXCEPT !.lane = "UpstreamRootful"], [Little EXCEPT !.record_key = "other"],
   [Little EXCEPT !.profile.identity.release = "29.8.2"],
   [Little EXCEPT !.capabilities = Append(@, Head(@))], [Little EXCEPT !.shapes = Append(@, Head(@))],
   [Little EXCEPT !.shapes = Tail(@)], [Little EXCEPT !.shapes = Append(@, "StopSignal")],
   [Little EXCEPT !.shapes = <<"StopSignal">> \o @ \o <<"Sysctls">>],
   [Little EXCEPT !.capabilities = Append(@, [capability |-> "HostNetwork", state |-> "Available"])],
   [Little EXCEPT !.capabilities = Append(@, [capability |-> "StopSignal", state |-> "Unavailable"])]}

MCOffered ==
  {<<Reviewed("Debian11Rootful"), Reviewed("Debian11Rootless"), Reviewed("UpstreamRootful"),
     Reviewed("UpstreamRootless")>>}
  \cup {<<Backed("UpstreamRootful", "part", Everything \ {c})>> : c \in Everything}
  \cup {<<Whole("whole"), r>> : r \in Wrong \cup {Little}}
  \cup {<<Whole("whole"), Backed("UpstreamRootful", "part", Some)>>}

MCProfiles ==
  {[identity |-> Of(lane), key |-> lane] :
     lane \in {"Debian11Rootful", "Debian11Rootless", "UpstreamRootful", "UpstreamRootless"}}
  \cup {[identity |-> Modern("Rootful"), key |-> k] : k \in {"whole", "part"}}
  \cup {[identity |-> Modern("Rootless"), key |-> "little"]}
-----------------------------------------------------------------------------
V4 == [family |-> "v4"]
V6 == [family |-> "v6"]
One == Container(1, "one")
Net == Network(2, "net")
Env(value) == [key |-> "K", value |-> value]
Publishing(ports) == [One EXCEPT !.ports = ports]
Test(form) == Health(form, <<>>)
Set(name, value) == [One EXCEPT !.settings = [NoSettings EXCEPT ![name] = value]]
Pool(subnet) == [subnet |-> subnet, gateway |-> <<>>, ip_range |-> <<>>, auxiliary |-> <<>>]
Ipam(driver, pool) == [Net EXCEPT !.ipam = <<[driver |-> driver, pools |-> <<pool>>]>>]
Subnet(family, prefix) == [family |-> family, prefix |-> prefix]
Opt(option, enabled) == [Net EXCEPT !.options = <<[option |-> option, enabled |-> enabled]>>]

NetworksAsked ==
  {Net, [Net EXCEPT !.internal = TRUE], [Net EXCEPT !.enable_ipv6 = TRUE], [Net EXCEPT !.labels = <<"l">>],
   Ipam(<<"default">>, Pool(Subnet("v6", 64))), Ipam(<<>>, Pool(Subnet("v4", 31))),
   Ipam(<<>>, [Pool(Subnet("v4", 24)) EXCEPT !.gateway = <<V4>>, !.ip_range = <<V4>>, !.auxiliary = <<V4>>]),
   ExternalNetwork(2, "net", "bridge", <<>>), ExternalNetwork(2, "net", "bridge", <<TRUE>>),
   ExternalNetwork(2, "net", "bridge", <<FALSE>>)}
  \cup {Opt(o, e) : o \in {"mtu", "icc", "masquerade", "host_binding"}, e \in BOOLEAN}
VolumesAsked == {Volume(3, "vol", <<>>), Volume(3, "vol", <<"l">>), ExternalVolume(3, "vol")}
PortsAsked ==
  {Publishing(<<Port(80, "tcp", <<>>)>>), Publishing(<<Port(80, "udp", <<Binding(<<>>, 80)>>)>>)}
  \cup {Publishing(<<Port(80, p, <<Binding(ip, h)>>)>>) :
          p \in {"tcp", "udp"}, ip \in {<<>>, <<V4>>, <<V6>>}, h \in {Ephemeral, 1024}}
  \cup {Publishing(<<Port(80, "tcp", <<Binding(<<V4>>, h), Binding(<<V6>>, 2000)>>)>>) :
          h \in {Ephemeral, 1024}}
MountsAsked ==
  {[One EXCEPT !.mounts = <<[Mount(t, "/s", "/t", ro) EXCEPT !.relabel = r, !.size = s]>>] :
     t \in {"bind"}, ro \in BOOLEAN, r \in {<<>>, <<"shared">>, <<"private">>}, s \in {<<>>}}
  \cup {[One EXCEPT !.mounts = <<[Mount(t, "/s", "/t", ro) EXCEPT !.size = s]>>] :
          t \in {"volume", "tmpfs"}, ro \in BOOLEAN, s \in {<<>>, <<1>>}}
AttachedAsked ==
  {[One EXCEPT !.networks = n] :
     n \in {<<a>> : a \in {Attachment(2, <<>>, <<>>, <<>>), Attachment(2, <<"x">>, <<V4>>, <<>>)}}
      \cup {<<Attachment(2, <<>>, <<>>, <<>>), a>> :
              a \in {Attachment(4, <<>>, <<>>, <<>>), Attachment(4, <<"x">>, <<>>, <<V6>>)}}}
CommandsAsked ==
  {[One EXCEPT !.command = c, !.entrypoint = e] :
     c \in {Inherit, Exec(<<"a">>)}, e \in {Inherit, Clear, Exec(<<"e">>)}}
  \cup {[One EXCEPT !.command = Clear, !.entrypoint = Exec(<<"e">>)]}
  \cup {[One EXCEPT !.environment = <<Env(v)>>] : v \in {"", "v"}}
  \cup {[One EXCEPT !.healthcheck = <<h>>] :
          h \in {Test(f) : f \in {"exec", "shell", "disabled"}}
           \cup {[Test("exec") EXCEPT !.start_period = <<n>>] : n \in {0, 5}}
           \cup {[Test("shell") EXCEPT !.start_interval = <<n>>] : n \in {0, 5}}}
  \cup {[One EXCEPT !.restart = <<[name |-> n, retries |-> r]>>] :
          n \in {"no", "always", "unless-stopped", "on-failure"}, r \in {0, 3}}
Nofile(soft) == [name |-> "nofile", soft |-> soft, hard |-> Unlimited]
Host(family) == [name |-> "h", address |-> [family |-> family]]
Log(driver, options) == [driver |-> driver, options |-> options]
SettingsAsked ==
  {Set(n, <<"x">>) : n \in {"labels", "user", "working_dir", "hostname", "stop_signal", "cap_add",
                            "cap_drop", "sysctls", "group_add", "devices", "userns"}}
  \cup {Set(n, <<b>>) : n \in {"read_only_rootfs", "init", "security"}, b \in BOOLEAN}
  \cup {Set(n, <<x>>) : n \in {"memory", "pids"}, x \in {Unlimited, 5}}
  \cup {Set("stop_timeout", <<x>>) : x \in {0, 5}} \cup {Set("shm", <<5>>)}
  \cup {Set("ulimits", <<Nofile(x)>>) : x \in {Unlimited, 5}}
  \cup {Set("dns", <<[family |-> f]>>) : f \in {"v4", "v6"}}
  \cup {Set("extra_hosts", <<Host(f)>>) : f \in {"v4", "v6"}}
  \cup {Set("log", <<Log(d, <<>>)>>) : d \in {"json-file", "local", "none"}}
  \cup {Set("log", <<Log("json-file", <<[key |-> "max-size"]>>)>>)}

MCAsked ==
  NetworksAsked \cup VolumesAsked \cup PortsAsked \cup MountsAsked \cup AttachedAsked
    \cup CommandsAsked \cup SettingsAsked \cup {One, Publishing(<<Port(80, "tcp", <<Binding(<<>>, 80)>>)>>)}
-----------------------------------------------------------------------------
\* One daemon rootful, then found again rootless, then upgraded.
ScopeOf(observation, release, mode) ==
  [observation |-> observation, release |-> release, api |-> <<1, 41>>, mode |-> mode]
First_ == ScopeOf(1, "20.10.5", "Rootful")
Later == ScopeOf(1, "20.10.5", "Rootless")
Upgraded == ScopeOf(2, "29.8.1", "Rootful")
MCProven ==
  First_ :> {"StandaloneContainer", "NamedVolume", "VolumeLabels"}
    @@ Later :> {"StandaloneContainer"} @@ Upgraded :> {"NamedVolume"}

Fact(c, state, provenance, scope) ==
  [capability |-> c, state |-> state, provenance |-> provenance, scope |-> scope]
\* A daemon says what it likes; conformance finds what is there.
HonestFacts ==
  UNION {{Fact(c, IF c \in MCProven[s] THEN "Available" ELSE "Unavailable", "NativeConformance", <<s>>),
          Fact(c, "Available", "DaemonResponse", <<s>>), Fact(c, "Unknown", "Unknown", <<>>)} :
           s \in DOMAIN MCProven, c \in {"StandaloneContainer", "NamedVolume", "VolumeLabels"}}
Facts(scope, mode, minimum, capabilities) ==
  [observation |-> scope.observation, release |-> <<scope.release>>, api |-> <<scope.api>>,
   minimum |-> minimum, mode |-> mode, capabilities |-> capabilities]
MCClaims ==
  {Facts(s, s.mode, <<>>, <<f, g>>) : s \in DOMAIN MCProven, f \in HonestFacts, g \in HonestFacts}
  \cup {Facts(s, m, <<minimum>>, <<f>>) :
          s \in DOMAIN MCProven, m \in {"Unknown", "Rootful"}, minimum \in {<<1, 40>>, <<1, 44>>},
          f \in HonestFacts}
=============================================================================
