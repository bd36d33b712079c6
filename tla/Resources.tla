----------------------------- MODULE Resources ------------------------------
(***************************************************************************)
(* The resources a caller authors, as the planner and the renderer read    *)
(* them: src/target_modules/container.rs and network.rs.  An Option is a   *)
(* sequence of at most one element, bytes are texts, an omitted host port  *)
(* is Ephemeral.  A constructor that refuses its arguments is a predicate  *)
(* on the value it would have returned.                                    *)
(***************************************************************************)
EXTENDS Integers, SequencesExt

Ephemeral == 0
Unlimited == -1

\* ContainerSettings::default().
NoSettings ==
  [labels |-> <<>>, user |-> <<>>, working_dir |-> <<>>, hostname |-> <<>>,
   read_only_rootfs |-> <<>>, init |-> <<>>, stop_signal |-> <<>>, stop_timeout |-> <<>>,
   memory |-> <<>>, pids |-> <<>>, shm |-> <<>>, ulimits |-> <<>>, devices |-> <<>>,
   cap_add |-> <<>>, cap_drop |-> <<>>, security |-> <<>>, sysctls |-> <<>>,
   group_add |-> <<>>, dns |-> <<>>, extra_hosts |-> <<>>, log |-> <<>>, userns |-> <<>>]

Inherit == [form |-> "inherit", arguments |-> <<>>]
Clear == [form |-> "clear", arguments |-> <<>>]
Exec(arguments) == [form |-> "exec", arguments |-> arguments]

\* ContainerIntent with nothing but its image.
Container(ref, identity) ==
  [ref |-> ref, kind |-> "Container", external |-> FALSE, identity |-> identity, image |-> "image",
   environment |-> <<>>, ports |-> <<>>, mounts |-> <<>>, networks |-> <<>>,
   entrypoint |-> Inherit, command |-> Inherit, healthcheck |-> <<>>, restart |-> <<>>,
   settings |-> NoSettings]

\* NetworkSource::Create and NetworkSource::External.
Network(ref, identity) ==
  [ref |-> ref, kind |-> "Network", external |-> FALSE, identity |-> identity, internal |-> FALSE,
   enable_ipv6 |-> FALSE, ipam |-> <<>>, options |-> <<>>, labels |-> <<>>]
ExternalNetwork(ref, identity, driver, expected_internal) ==
  [ref |-> ref, kind |-> "Network", external |-> TRUE, identity |-> identity,
   driver |-> driver, expected_internal |-> expected_internal]

Volume(ref, identity, labels) ==
  [ref |-> ref, kind |-> "Volume", external |-> FALSE, identity |-> identity, labels |-> labels]
ExternalVolume(ref, identity) ==
  [ref |-> ref, kind |-> "Volume", external |-> TRUE, identity |-> identity]

Attachment(network, aliases, ipv4, ipv6) ==
  [network |-> network, aliases |-> aliases, ipv4 |-> ipv4, ipv6 |-> ipv6]

Binding(host_ip, host_port) == [host_ip |-> host_ip, host_port |-> host_port]
Port(container, protocol, bindings) ==
  [container |-> container, protocol |-> protocol, bindings |-> bindings]

\* Mount::bind, Mount::volume and Mount::tmpfs.
Mount(type, source, target, read_only) ==
  [type |-> type, source |-> source, target |-> target, read_only |-> read_only,
   relabel |-> <<>>, size |-> <<>>, mode |-> <<>>]

\* Healthcheck::configured, with_start_period and with_start_interval.
Health(form, arguments) ==
  [form |-> form, arguments |-> arguments, interval |-> <<>>, timeout |-> <<>>, retries |-> <<>>,
   start_period |-> <<>>, start_interval |-> <<>>]

Networks(s) == IF s.kind = "Container" THEN [i \in DOMAIN s.networks |-> s.networks[i].network] ELSE <<>>
\* What each mount names, in order: a volume, or nothing.
Volumes(s) ==
  IF s.kind # "Container" THEN <<>>
  ELSE [i \in DOMAIN s.mounts |-> IF s.mounts[i].type = "volume" THEN <<s.mounts[i].source>> ELSE <<>>]
Relabelled(s) == IF s.kind = "Container" THEN {i \in DOMAIN s.mounts : s.mounts[i].relabel # <<>>} ELSE {}
=============================================================================
