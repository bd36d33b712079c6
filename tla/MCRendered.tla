----------------------------- MODULE MCRendered -----------------------------
(***************************************************************************)
(* A container takes any two changes from the plainest one, so that every  *)
(* two members meet on both sides of a comma; networks take several pools  *)
(* and options.                                                            *)
(***************************************************************************)
EXTENDS Rendered

MCPortText == [text \in {"80/tcp", "53/udp"} |-> IF text = "80/tcp" THEN <<80, "tcp">> ELSE <<53, "udp">>]
MCDigitsText == [text \in {"1024"} |-> 1024]
MCAssignmentText == [text \in {"K=", "L=v"} |-> IF text = "K=" THEN "K" ELSE "L"]
MCModeText == [text \in {"", "ro,z", "rw,z", "ro,Z", "rw,Z"} |->
                 CASE text = "" -> <<>> [] text = "ro,z" -> <<"ro", "z">> [] text = "rw,z" -> <<"rw", "z">>
                   [] text = "ro,Z" -> <<"ro", "Z">> [] text = "rw,Z" -> <<"rw", "Z">>]
MCNamed == [n1 |-> "front", n2 |-> "back", v |-> "data"]

V4(text) == [family |-> "v4", text |-> text]
V6(text) == [family |-> "v6", text |-> text]
Pair(key, value) == [key |-> key, value |-> value]
SubnetOf(text, prefix) == [text |-> text, prefix |-> prefix]
PlainPort == Port(80, "tcp", <<Binding(<<>>, 1024)>>)
Bind(source, target, relabel, ro) == [Mount("bind", source, target, ro) EXCEPT !.relabel = relabel]
Tmpfs(size, mode) == [Mount("tmpfs", "", "/t", FALSE) EXCEPT !.size = size, !.mode = mode]
HealthWith(form, arguments, f, n) == [Health(form, arguments) EXCEPT ![f] = <<n>>]

Ports == {<<Port(80, "tcp", <<>>)>>, <<PlainPort>>,
          <<PlainPort, Port(53, "udp", <<Binding(<<V4("10.0.0.1")>>, Ephemeral), Binding(<<V6("::1")>>, 1024)>>)>>}
Mounts ==
  {<<Bind(s, "/t", r, ro)>> : s \in {"/a", "/a:b"}, r \in {<<>>, <<"shared">>, <<"private">>}, ro \in BOOLEAN}
  \cup {<<Bind("/a", t, r, TRUE)>> : t \in {"/t:ro", "t"}, r \in {<<>>, <<"shared">>}}
  \cup {<<Bind("/a", "/t", <<"shared", "private">>, TRUE)>>,
        <<Bind("/a", "/b", <<"shared">>, TRUE), Mount("volume", "v", "/t", FALSE)>>,
        <<[Mount("volume", "v", "/t", TRUE) EXCEPT !.relabel = <<"shared">>]>>}
  \cup {<<Tmpfs(s, m)>> : s \in {<<>>, <<5>>, <<100>>}, m \in {<<>>, <<7>>, <<8>>}}
Healths ==
  {<<h>> : h \in {Health("exec", <<"a", "b">>), Health("exec", <<>>), Health("shell", <<"a">>),
                  Health("disabled", <<>>)}
           \cup {HealthWith("exec", <<"a">>, f, n) : f \in {"interval", "timeout", "start_period"}, n \in {0, 1, 5, 100}}
           \cup {HealthWith("shell", <<"a">>, f, n) : f \in {"retries", "start_interval"}, n \in {5, 60}}
           \cup {HealthWith("disabled", <<>>, f, 5) : f \in {"retries", "start_period"}}}
Attached2 ==
  {<<Attachment("n1", <<>>, <<>>, <<>>)>>, <<Attachment("n1", <<"x">>, <<>>, <<V6("fd::2")>>)>>,
   <<Attachment("n2", <<>>, <<V4("10.0.0.2")>>, <<V6("fd::2")>>), Attachment("n1", <<"x", "y">>, <<V4("10.0.0.3")>>, <<>>)>>}
Nofile(n) == [name |-> "nofile", soft |-> n, hard |-> Unlimited]
Device == [host_path |-> "/a", container_path |-> "/t", read |-> TRUE, write |-> FALSE, create |-> TRUE]

Change(field, values) == {field :> v : v \in values}
Changes ==
  UNION {Change("environment", {<<Pair("K", ""), Pair("L", "v")>>}), Change("ports", Ports),
    Change("mounts", Mounts), Change("networks", Attached2), Change("healthcheck", Healths),
    Change("command", {Exec(<<"a">>)}), Change("entrypoint", {Clear, Exec(<<"e">>)}),
    Change("restart", {<<[name |-> n, retries |-> 3]>> : n \in {"always", "on-failure"}}),
    Change("labels", {<<Pair("a", ""), Pair("b", "c")>>}), Change("user", {<<"u">>}),
    Change("working_dir", {<<"/a">>}), Change("hostname", {<<"h">>}), Change("read_only_rootfs", {<<FALSE>>}),
    Change("init", {<<TRUE>>}), Change("stop_signal", {<<"s">>}), Change("stop_timeout", {<<0>>}),
    Change("memory", {<<Unlimited>>, <<5>>}), Change("pids", {<<Unlimited>>, <<5>>}), Change("shm", {<<5>>}),
    Change("ulimits", {<<Nofile(5)>>}), Change("devices", {<<Device>>}), Change("cap_add", {<<"c">>}),
    Change("cap_drop", {<<"c", "d">>}), Change("security", {<<TRUE>>, <<FALSE>>}),
    Change("sysctls", {<<Pair("s", "1")>>}), Change("group_add", {<<"g">>}),
    Change("dns", {<<V4("10.0.0.1"), V6("::1")>>}),
    Change("extra_hosts", {<<[name |-> "h", address |-> V6("::1")]>>}),
    Change("log", {<<[driver |-> "local", options |-> <<>>]>>,
                   <<[driver |-> "json-file", options |-> <<Pair("max-size", "1m")>>]>>}),
    Change("userns", {<<"host">>})}
Changed(c, change) ==
  LET field == CHOOSE f \in DOMAIN change : TRUE IN
  IF field \in DOMAIN NoSettings THEN [c EXCEPT !.settings = change @@ @] ELSE change @@ c

Net == Network("n1", "front")
Pool(gateway, range, auxiliary) ==
  [subnet |-> SubnetOf("10.0.0.0", 24), gateway |-> gateway, ip_range |-> range, auxiliary |-> auxiliary]
Aux == <<[name |-> "aux", address |-> V4("10.0.0.9")]>>
Pools ==
  {Pool(g, r, a) : g \in {<<>>, <<V4("10.0.0.1")>>}, r \in {<<>>, <<SubnetOf("10.0.0.128", 25)>>}, a \in {<<>>, Aux}}
Ipams == {<<>>} \cup {<<[driver |-> d, pools |-> <<p, Pool(<<>>, <<>>, <<>>)>>]>> : d \in {<<>>, <<"default">>}, p \in Pools}
Options == {<<>>, <<[option |-> "icc", enabled |-> FALSE], [option |-> "mtu", value |-> "1400"]>>}

MCWanted ==
  {Changed(Changed(Container("c", "app"), a), b) : a \in Changes, b \in Changes}
  \cup {[Net EXCEPT !.internal = i, !.enable_ipv6 = e, !.ipam = ipam, !.options = o, !.labels = l] :
          i \in BOOLEAN, e \in BOOLEAN, ipam \in Ipams, o \in Options, l \in {<<>>, <<Pair("a", "")>>}}
  \cup {Volume("v", "data", l) : l \in {<<>>, <<Pair("a", ""), Pair("b", "c")>>}}
=============================================================================
