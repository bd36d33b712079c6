------------------------------ MODULE Rendered ------------------------------
(***************************************************************************)
(* A resource on its whole way: a caller builds it, the renderer writes    *)
(* its requests, someone sends them to an Engine, and the library acquires *)
(* and decodes what the Engine then shows.  The Engine is external: it     *)
(* keeps what it was sent.                                                 *)
(***************************************************************************)
EXTENDS Bodies

CONSTANTS
  Wanted,       \* the resources a caller tries to build
  Paths,        \* the absolute paths
  Colons,       \* those of them with a colon
  MaxI64, MaxI32, MinNanos, MaxFileMode,
  U32Max, PortMax, PortText, DigitsText, AssignmentText, ModeText, LongTexts, CanonicalIds,
  MaxModeTokens     \* of Fields

D == INSTANCE Observations

VARIABLES
  asked,       \* the resource
  phase,
  at,          \* the attachment connected last
  shown,       \* the document an inspection returns
  observed     \* what the decoder makes of it

vars == <<asked, phase, at, shown, observed>>

Nothing == [nothing |-> TRUE]

Init ==
  /\ asked \in Wanted
  /\ phase = "author" /\ at = 1 /\ shown = Null /\ observed = Nothing

(* ------------------ constructors that refuse arguments ------------------ *)

\* Mount::bind, volume and tmpfs, then with_bind_relabel once per element.
RelabelRefused_AnyPath(m) == m.relabel # <<>> /\ (m.type # "bind" \/ Len(m.relabel) > 1)     \* mutant
RelabelRefused(m) ==
  m.relabel # <<>> /\ (m.type # "bind" \/ Len(m.relabel) > 1 \/ {m.source, m.target} \cap Colons # {})
MountRefused(m) ==
  \/ m.target \notin Paths
  \/ m.type = "bind" /\ m.source \notin Paths
  \/ \E mode \in Range(m.mode) : mode > MaxFileMode
  \/ \E size \in Range(m.size) : size > MaxI64
  \/ RelabelRefused(m)

HealthRefused(h) ==
  \/ h.form \in {"exec", "shell"} /\ (h.arguments = <<>> \/ h.arguments[1] = "")
  \/ h.form = "disabled" /\ {h.interval, h.timeout, h.retries, h.start_period, h.start_interval} # {<<>>}
  \/ \E n \in Range(h.interval \o h.timeout) : n \notin MinNanos .. MaxI64
  \/ \E n \in Range(h.retries) : n > MaxI32
  \/ \E n \in Range(h.start_period \o h.start_interval) : (n # 0 /\ n < MinNanos) \/ n > MaxI64

Refused(r) ==
  /\ r.kind = "Container"
  /\ \/ \E m \in Range(r.mounts) : MountRefused(m)
     \/ \E h \in Range(r.healthcheck) : HealthRefused(h)

Author ==
  /\ phase = "author"
  /\ phase' = IF Refused(asked) THEN "refused" ELSE "create"
  /\ UNCHANGED <<asked, at, shown, observed>>

(* ------------------------- external: the Engine ------------------------- *)

With(v, key, x) == Object([k \in DOMAIN v.obj \cup {key} |-> IF k = key THEN x ELSE v.obj[k]])
Get(v, key, default) == IF key \in DOMAIN v.obj THEN v.obj[key] ELSE default

\* "source:target:mode", when there are just these parts.
Parts(text) ==
  {s \in [source : Paths \ Colons, target : Paths \ Colons, mode : {"ro,z", "rw,z", "ro,Z", "rw,Z"}] :
     text = s.source \o ":" \o s.target \o ":" \o s.mode}
Spot(type, origin, target, mode, rw) ==
  Object([k \in {"Type", "Source", "Destination", "Mode", "RW"} |->
    CASE k = "Type" -> Text(type) [] k = "Source" -> origin [] k = "Destination" -> target
      [] k = "Mode" -> Text(mode) [] k = "RW" -> Flag(rw)])
Spots(host) ==
  [i \in DOMAIN Get(host, "Binds", List(<<>>)).arr |->
     LET s == CHOOSE p \in Parts(host.obj["Binds"].arr[i].str) : TRUE
     IN Spot("bind", Text(s.source), Text(s.target), s.mode, s.mode \in {"rw,z", "rw,Z"})]
  \o [i \in DOMAIN Get(host, "Mounts", List(<<>>)).arr |->
        LET m == host.obj["Mounts"].arr[i]
        IN Spot(m.obj["Type"].str, Get(m, "Source", Text("")), m.obj["Target"], "", ~m.obj["ReadOnly"].bool)]

Sound(body) ==
  /\ body # Broken /\ body.obj["HostConfig"] # Broken
  /\ \A b \in Range(Get(body.obj["HostConfig"], "Binds", List(<<>>)).arr) : Parts(b.str) # {}

Inspected(body) ==
  LET host == body.obj["HostConfig"]
      networking == Get(body, "NetworkingConfig", Nothing) IN
  Object([k \in {"Id", "Config", "HostConfig", "Mounts", "NetworkSettings"} |->
    CASE k = "Id" -> Text("id")
      [] k = "Config" -> Object([c \in DOMAIN body.obj \ {"HostConfig", "NetworkingConfig"} |-> body.obj[c]])
      [] k = "HostConfig" -> host
      [] k = "Mounts" -> List(Spots(host))
      [] k = "NetworkSettings" ->
           Object([n \in {"Networks"} |->
             IF networking = Nothing THEN Object([x \in {} |-> Null]) ELSE networking.obj["EndpointsConfig"]])])

Connected(document, connect) ==
  LET settings == document.obj["NetworkSettings"]
      networks == With(settings.obj["Networks"], connect.network, connect.body.obj["EndpointConfig"])
  IN With(document, "NetworkSettings", With(settings, "Networks", networks))
-----------------------------------------------------------------------------
\* The first request of a resource: networks and volumes are shown as sent.
Create ==
  /\ phase = "create"
  /\ LET body == CASE asked.kind = "Container" -> ContainerBody(asked)
                   [] asked.kind = "Network" -> NetworkBody(asked)
                   [] asked.kind = "Volume" -> VolumeBody(asked)
         sound == IF asked.kind = "Container" THEN Sound(body) ELSE body # Broken
     IN /\ phase' = IF ~sound THEN "rejected"
                    ELSE IF asked.kind = "Container" THEN "connect" ELSE "created"
        /\ shown' = IF ~sound THEN Null
                    ELSE IF asked.kind = "Container" THEN Inspected(body) ELSE body
  /\ UNCHANGED <<asked, at, observed>>

\* The requests that connect the further networks, in order.
Connect ==
  /\ phase = "connect"
  /\ IF at < Len(asked.networks)
     THEN /\ at' = at + 1
          /\ shown' = Connected(shown, ConnectBody(asked, at'))
          /\ UNCHANGED phase
     ELSE phase' = "created" /\ UNCHANGED <<at, shown>>
  /\ UNCHANGED <<asked, observed>>

Inspect ==
  /\ phase = "created" /\ phase' = "inspected"
  /\ observed' = CASE asked.kind = "Container" -> D!Container(shown)
                   [] asked.kind = "Network" -> D!Network(shown)
                   [] asked.kind = "Volume" -> D!Volume(shown)
  /\ UNCHANGED <<asked, at, shown>>

Next == Author \/ Create \/ Connect \/ Inspect

Spec == Init /\ [][Next]_vars
-----------------------------------------------------------------------------
(***************************************************************************)
(* What should come back of what was authored.                             *)
(***************************************************************************)
Absent == Unavailable("Missing", "Effective")
Plain(x) == [availability |-> "Present", origin |-> "Effective", value |-> x]
AsText(s) == Present(s, Text(s), "Effective")
One(option, Value(_)) == IF option = <<>> THEN Absent ELSE Value(option[1])
Many(list, Value(_)) == IF list = <<>> THEN Absent ELSE Plain(Each(list, Value))
Strings(list) == Many(list, LAMBDA s : s)
Held(pairs) ==
  IF pairs = <<>> THEN Absent
  ELSE Plain([k \in {p.key : p \in Range(pairs)} |-> AsText((CHOOSE p \in Range(pairs) : p.key = k).value)])

CommandBack(c) ==
  CASE c.form = "inherit" -> Absent
    [] c.form = "clear" -> Present([exec |-> <<>>], List(<<>>), "Effective")
    [] c.form = "exec" -> Plain([exec |-> c.arguments])
HealthBack(h) ==
  Plain([test |-> Plain(CASE h.form = "exec" -> [cmd |-> h.arguments]
                          [] h.form = "shell" -> [cmd_shell |-> h.arguments[1]]
                          [] h.form = "disabled" -> [none |-> TRUE]),
         interval_ns |-> One(h.interval, Plain), timeout_ns |-> One(h.timeout, Plain),
         retries |-> One(h.retries, Plain), start_period_ns |-> One(h.start_period, Plain),
         start_interval_ns |-> One(h.start_interval, Plain)])
PortBack(p) ==
  [key |-> <<p.container, p.protocol>>,
   bindings |-> Plain(Each(p.bindings, LAMBDA b :
     [host_ip |-> One(b.host_ip, LAMBDA ip : AsText(ip.text)),
      host_port |-> IF b.host_port = Ephemeral THEN Unavailable("Empty", "Effective") ELSE Plain(b.host_port)]))]
Published(c) == {p \in Range(c.ports) : p.bindings # <<>>}
MountBack(m) ==
  [kind |-> AsText(m.type), target |-> AsText(m.target), read_only |-> Plain(m.read_only),
   source |-> CASE m.type = "bind" -> AsText(m.source) [] m.type = "volume" -> AsText(Named[m.source])
                [] m.type = "tmpfs" -> Absent,
   tmpfs_size_bytes |-> One(m.size, Plain), bind_propagation |-> Absent, volume_no_copy |-> Absent]
DeviceBack(d) ==
  [host_path |-> AsText(d.host_path), container_path |-> AsText(d.container_path),
   permissions |-> AsText((IF d.read THEN "r" ELSE "") \o (IF d.write THEN "w" ELSE "")
                          \o (IF d.create THEN "m" ELSE ""))]

Back(c) ==
  LET s == c.settings IN
  [image |-> AsText(c.image), labels |-> Held(s.labels), user |-> One(s.user, AsText),
   working_directory |-> One(s.working_dir, AsText), hostname |-> One(s.hostname, AsText),
   environment |-> Many(c.environment, LAMBDA e : [name |-> e.key, text |-> e.key \o "=" \o e.value]),
   exposed_ports |-> IF c.ports = <<>> THEN Absent
                     ELSE Plain([k \in {PortKeyOf(p) : p \in Range(c.ports)} |-> PortText[k]]),
   configured_ports |->
     IF Published(c) = {} THEN Absent
     ELSE Plain([k \in {PortKeyOf(p) : p \in Published(c)} |->
                   PortBack(CHOOSE p \in Published(c) : PortKeyOf(p) = k)]),
   command |-> CommandBack(c.command), entrypoint |-> CommandBack(c.entrypoint),
   healthcheck |-> One(c.healthcheck, HealthBack),
   restart_policy |-> One(c.restart, LAMBDA r :
     Plain([name |-> AsText(r.name),
            maximum_retry_count |-> Plain(IF r.name = "on-failure" THEN r.retries ELSE 0)])),
   read_only_rootfs |-> One(s.read_only_rootfs, Plain), init |-> One(s.init, Plain),
   memory_bytes |-> One(s.memory, LAMBDA n : Plain(IF n = Unlimited THEN 0 ELSE n)),
   pids_limit |-> One(s.pids, Plain), shm_size_bytes |-> One(s.shm, Plain),
   ulimits |-> Many(s.ulimits, LAMBDA u :
     [name |-> AsText(u.name), soft |-> Plain(u.soft), hard |-> Plain(u.hard)]),
   devices |-> Many(s.devices, DeviceBack), cap_add |-> Strings(s.cap_add), cap_drop |-> Strings(s.cap_drop),
   security_options |-> Many(s.security, LAMBDA on :
     IF on THEN "no-new-privileges:true" ELSE "no-new-privileges:false"),
   sysctls |-> Held(s.sysctls), supplementary_groups |-> Strings(s.group_add),
   dns_servers |-> Many(s.dns, LAMBDA a : a.text),
   extra_hosts |-> Many(s.extra_hosts, LAMBDA h : h.name \o ":" \o h.address.text),
   logging |-> One(s.log, LAMBDA l :
     Plain([driver |-> AsText(l.driver),
            options |-> IF l.options = <<>> THEN Present(<<>>, Pairs(<<>>), "Effective") ELSE Held(l.options)])),
   userns_mode |-> One(s.userns, AsText), stop_signal |-> One(s.stop_signal, AsText),
   stop_timeout |-> One(s.stop_timeout, Plain),
   configured_mounts |-> Many(SelectSeq(c.mounts, LAMBDA m : m.relabel = <<>>), MountBack)]

\* The mount a container really has for an authored one.
Mounted(m, mount) ==
  /\ mount.kind = m.type /\ mount.destination.value = m.target
  /\ mount.read_write.value = ~m.read_only
  /\ m.type = "bind" => mount.source.value = m.source
  /\ m.relabel # <<>> => mount.mode_interpretation.value =
       [access |-> IF m.read_only THEN "ro" ELSE "rw", relabel |-> IF m.relabel[1] = "shared" THEN "z" ELSE "Z"]

\* The endpoint it has in the network of an attachment.
Attached(a, endpoint) ==
  /\ endpoint.aliases = Strings(a.aliases)
  /\ endpoint.requested_ipv4_address = One(a.ipv4, LAMBDA x : AsText(x.text))
  /\ endpoint.requested_ipv6_address = One(a.ipv6, LAMBDA x : AsText(x.text))

ContainerReadsBack(c, o) ==
  /\ \A name \in DOMAIN Back(c) : o[name] = Back(c)[name]
  /\ Len(o.mounts.value) = Len(c.mounts)
  /\ \A m \in Range(c.mounts) : \E mount \in Range(o.mounts.value) : Mounted(m, mount)
  /\ DOMAIN o.networks.value = {Named[a.network] : a \in Range(c.networks)}
  /\ \A a \in Range(c.networks) : Attached(a, o.networks.value[Named[a.network]])
  /\ o.network_mode.value = IF c.networks = <<>> THEN None
                            ELSE [kind |-> "named", native_value |-> Named[c.networks[1].network]]

PoolBack(p) ==
  [subnet |-> AsText(SubnetText(p.subnet)), gateway |-> One(p.gateway, LAMBDA a : AsText(a.text)),
   ip_range |-> One(p.ip_range, LAMBDA r : AsText(SubnetText(r))),
   auxiliary_addresses |-> Held(Each(p.auxiliary, LAMBDA x : [key |-> x.name, value |-> x.address.text]))]
NetworkReadsBack(n, o) ==
  /\ o.name = AsText(n.identity) /\ o.driver = AsText("bridge")
  /\ o.internal = IF n.internal THEN Plain(TRUE) ELSE Absent
  /\ o.enable_ipv6 = IF n.enable_ipv6 THEN Plain(TRUE) ELSE Absent
  /\ o.options = Held(Each(n.options, OptionPair)) /\ o.labels = Held(n.labels)
  /\ \A ipam \in Range(n.ipam) :
       /\ o.ipam_driver = IF ipam.driver = <<>> THEN Absent ELSE AsText("default")
       /\ o.ipam_configs = Plain(Each(ipam.pools, PoolBack))
  /\ n.ipam = <<>> => o.ipam_configs = Absent

\* What a caller authored comes back: every request the renderer writes is one
\* JSON object the Engine can take apart, and in the inspection of what it then
\* has, the decoder finds every authored field with its value and every other
\* field missing; a bind that goes through the colon-separated form keeps its
\* paths, its access and its label.
RenderDecodesBack ==
  /\ phase # "rejected"
  /\ phase = "inspected" =>
       /\ ~Failed(observed)
       /\ CASE asked.kind = "Container" -> ContainerReadsBack(asked, observed.ok)
            [] asked.kind = "Network" -> NetworkReadsBack(asked, observed.ok)
            [] asked.kind = "Volume" -> /\ observed.ok.name = AsText(asked.identity)
                                        /\ observed.ok.labels = Held(asked.labels)
=============================================================================
