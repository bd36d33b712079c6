------------------------------ MODULE MCIntent ------------------------------
(***************************************************************************)
(* Intents of three families: pools and what they reserve on one network   *)
(* with two endpoints, host ports of two containers, and one container     *)
(* with each of the settings TargetIntent looks at.                        *)
(***************************************************************************)
EXTENDS Intent

V4(n) == [family |-> "v4", value |-> n]
V6(n) == [family |-> "v6", value |-> n]
Net(s) == [address |-> s[1], prefix |-> s[2]]
NoRange == [address |-> None, prefix |-> 0]

Pool(subnet, gateway, range, auxiliary) ==
  [subnet |-> subnet, gateway |-> gateway, ip_range |-> range, auxiliary |-> auxiliary]

Bridge(pools, v6) ==
  [kind |-> "network", reference |-> 1, identity |-> "n", role |-> "default", source |-> "create",
   driver |-> "bridge", enable_ipv6 |-> v6, ipam |-> pools # <<>>, pools |-> pools,
   options |-> <<[option |-> "mtu", ipv6 |-> FALSE]>>, labels |-> <<"a">>]

Plain(reference) ==
  [kind |-> "container", reference |-> reference, identity |-> <<"c", reference>>,
   environment |-> <<"K">>, ports |-> <<>>, labels |-> <<>>, networks |-> <<>>, mounts |-> <<>>,
   entrypoint |-> [form |-> "inherit", arguments |-> <<>>],
   command |-> [form |-> "inherit", arguments |-> <<>>],
   stop_signal |-> "SIGTERM", retries |-> 0, settings |-> DefaultSettings]

Endpoint(v4, v6) == [network |-> 1, aliases |-> <<"w">>, ipv4 |-> v4, ipv6 |-> v6]
On(reference, v4, v6) == [Plain(reference) EXCEPT !.networks = <<Endpoint(v4, v6)>>]

Aux(x) == IF x = None THEN <<>> ELSE <<[name |-> "x", address |-> x]>>
Some4 == {s \in Subnets : s.address.family = "v4"}

\* Two pools side by side, in every position of either family.
Pairs == {<<Bridge(<<Pool(s, None, NoRange, <<>>), Pool(t, None, NoRange, <<>>)>>, v6), Plain(2)>> :
            s \in Subnets, t \in Subnets, v6 \in BOOLEAN}

\* One pool, any gateway and any range in it.
Ranges == {<<Bridge(<<Pool(s, g, r, <<>>)>>, TRUE)>> :
             s \in Subnets, g \in {None, V4(0), V4(3), V4(7), V6(0), V6(1)},
             r \in Subnets \cup {NoRange}}

\* One pool with reservations, two containers with addresses of their own.
Endpoints == {<<On(2, x, None), Bridge(<<Pool(s, g, NoRange, Aux(a))>>, TRUE), On(3, y, z)>> :
                s \in {t \in Some4 : t.prefix <= 2}, g \in {None, V4(1), V4(6)},
                a \in {None, V4(1), V4(2)}, x \in {None} \cup {V4(n) : n \in 0 .. 7},
                y \in {None, V4(1), V4(2), V4(3), V4(5)}, z \in {None, V6(1)}}

HostIps == Wildcards \cup {V4(1), V6(1)}
Bindings == [host_ip : HostIps, host_port : {Ephemeral, 1, 2}]
Publish(container, protocol, bindings) ==
  [container |-> container, protocol |-> protocol, bindings |-> bindings]
Serving(reference, ports) == [Plain(reference) EXCEPT !.ports = ports]

\* One port with two bindings next to another container's.
Ports == {<<Serving(1, <<Publish(1, "tcp", <<b, c>>)>>), Serving(2, <<Publish(p, q, <<d>>)>>)>> :
            b \in Bindings, c \in Bindings, p \in {1}, q \in {"tcp", "udp"},
            d \in {e \in Bindings : e.host_port # 2}}
  \cup {<<Serving(1, <<Publish(1, "tcp", <<b>>), Publish(p, "tcp", <<c>>)>>)>> :
          b \in Bindings, c \in Bindings, p \in {1, 2}}

Limit(soft, hard) == [name |-> "nofile", soft |-> soft, hard |-> hard]
Device(path, permissions) == [container_path |-> path, permissions |-> permissions]
Exec(arguments) == [form |-> "exec", arguments |-> arguments]
Clear == [form |-> "clear", arguments |-> <<>>]
Inherit == [form |-> "inherit", arguments |-> <<>>]
With(name, value) == [DefaultSettings EXCEPT ![name] = value]

Settled ==
  {With("memory", n) : n \in {2, 3}} \cup {With("ulimits", <<Limit(s, h)>>) : s, h \in {-1, 0, 2, 3}}
  \cup {With("devices", <<Device(<<"d">>, p), Device(q, {"read"})>>) : p \in {{}, {"read"}}, q \in {<<"d">>, <<"e">>}}
  \cup {[DefaultSettings EXCEPT !.cap_add = a, !.cap_drop = d] :
          a \in {<<>>, <<"NET_BIND_SERVICE">>, <<"SYS_ADMIN">>}, d \in {<<>>, <<"SYS_ADMIN">>}}
  \cup {With("sysctls", <<[key |-> "net.ipv4.ip_forward", reviewed |-> r]>>) : r \in BOOLEAN}
  \cup {With("group_add", <<[principal |-> "g", pair |-> r]>>) : r \in BOOLEAN}
  \cup {With("log", [driver |-> d, options |-> <<[key |-> "max-size", sized |-> r]>>]) :
          d \in {"json-file", "local"}, r \in BOOLEAN}

Odd ==
  {[Plain(1) EXCEPT !.settings = s] : s \in Settled}
  \cup {[Plain(1) EXCEPT !.mounts = <<p, q>>, !.settings = With("devices", <<Device(<<"d">>, {"read"})>>)] :
          p, q \in {<<"a">>, <<"a", "">>, <<"a", "..", "d">>, <<"..", ".", "b">>, <<"b">>}}
  \cup {[Plain(1) EXCEPT !.entrypoint = e, !.command = c] :
          e, c \in {Inherit, Clear, Exec(<<>>), Exec(<<"">>), Exec(<<"run">>)}}
  \cup {[Plain(1) EXCEPT !.environment = <<"K", "K">>], [Plain(1) EXCEPT !.retries = 3],
        [Plain(1) EXCEPT !.stop_signal = ""], [Plain(1) EXCEPT !.labels = <<"a", "a">>],
        [Plain(1) EXCEPT !.networks = <<Endpoint(None, None), Endpoint(None, None)>>]}

Volume(labels) == [kind |-> "volume", reference |-> 1, identity |-> "n", labels |-> labels]
Label(key, size) == [key |-> key, size |-> size]
Networks == {[Bridge(<<>>, FALSE) EXCEPT !.driver = d, !.source = s, !.reference = r, !.role = "declared",
                                         !.identity = i] :
               d \in {"bridge", "host"}, s \in {"create", "external"}, r \in {1, 2}, i \in {"n", "m"}}

Singles ==
  {<<c>> : c \in Odd} \cup {<<n, m>> : n, m \in Networks} \cup {<<n, On(2, V4(1), None)>> : n \in Networks}
  \cup {<<Volume(<<Label("a", 1), Label(k, n)>>), Bridge(<<>>, FALSE)>> : k \in {"a", "b"}, n \in {1, 2}}
  \cup {<<Bridge(<<>>, FALSE), [Bridge(<<>>, FALSE) EXCEPT !.reference = 2, !.identity = "m"]>>, <<>>}

AllIntents == Pairs \cup Ranges \cup Endpoints \cup Ports \cup Singles

Widths == [v4 |-> 3, v6 |-> 2]
=============================================================================
