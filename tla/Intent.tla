------------------------------- MODULE Intent -------------------------------
(***************************************************************************)
(* TargetIntent::new_with_orchestration of                                 *)
(* src/src/target_modules/intent.rs: the caller's resources are walked     *)
(* three times, for identities, for what each resource asks, and for the   *)
(* static addresses.  What a walk remembers of the resources it has seen   *)
(* is state; the first refusal ends the construction.  A resource is a     *)
(* record; bytes compared only for equality are model values, a path is    *)
(* the sequence of its components, an absent address is None and an        *)
(* ephemeral host port is 0.                                               *)
(***************************************************************************)
EXTENDS Subnet, Settings, FiniteSets

CONSTANTS
  Authored,        \* the sequences of resources a caller may pass
  MaxLabelCount,   \* MAX_VOLUME_LABEL_COUNT
  MaxLabelBytes,   \* MAX_VOLUME_LABEL_TOTAL_BYTES
  MaxI32           \* i32::MAX

\* Networks and containers hold subnets and addresses that their constructors let
\* through.
Typed(r) ==
  /\ r.kind = "network" /\ r.source = "create" =>
       /\ r.pools \in Seq(Range(r.pools))
       /\ \A pool \in Range(r.pools) :
            /\ pool.subnet \in Subnets /\ pool.gateway \in Addresses \cup {None}
            /\ pool.ip_range.address # None => pool.ip_range \in Subnets
            /\ \A reserved \in Range(pool.auxiliary) : reserved.address \in Addresses
  /\ r.kind = "container" =>
       \A a \in Range(r.networks) : {a.ipv4, a.ipv6} \subseteq Addresses \cup {None}

ASSUME AuthoredAssumption ==
  \A rs \in Authored : rs \in Seq(Range(rs)) /\ \A r \in Range(rs) : Typed(r)

VARIABLES
  orchestration,   \* "Standalone" or "Swarm"
  resources,
  phase,           \* which walk, or how it ended
  at,              \* the resource the walk is at
  identities,      \* (kind, identity) pairs seen
  defaulted,       \* default_network
  fixed,           \* fixed_host_ports, each with the place it was bound at
  statics          \* static_addresses, each with the place it was claimed at

vars == <<orchestration, resources, phase, at, identities, defaulted, fixed, statics>>

Ephemeral == 0
Omitted == [family |-> "any", value |-> 0]
AllIpv4 == [family |-> "v4", value |-> 0]
AllHost == [family |-> "v6", value |-> 0]
Wildcards == {Omitted, AllIpv4, AllHost}

Indices == DOMAIN resources
Field(sequence, name) == [i \in DOMAIN sequence |-> sequence[i][name]]

(* -------------------------- one resource's rules ------------------------ *)

VolumeLabelsRefused(labels) ==
  \/ Len(labels) > MaxLabelCount
  \/ SumFunction(Field(labels, "size")) > MaxLabelBytes
  \/ ~IsInjective(Field(labels, "key"))

PoolRefused(network, i) ==
  LET pool == network.pools[i]
      auxiliary == pool.auxiliary
      reserved == Field(auxiliary, "address")
  IN \/ \E j \in 1 .. i - 1 : Overlaps(pool.subnet, network.pools[j].subnet)
     \/ IsIpv6(pool.subnet.address) /\ ~network.enable_ipv6
     \/ pool.gateway # None /\ ~ContainsUsableHost(pool.subnet, pool.gateway)
     \/ /\ pool.ip_range.address # None
        /\ \/ IsIpv6(pool.ip_range.address) # IsIpv6(pool.subnet.address)
           \/ pool.ip_range.prefix < pool.subnet.prefix
           \/ ~Contains(pool.subnet, pool.ip_range.address)
     \/ ~IsInjective(Field(auxiliary, "name"))
     \/ ~IsInjective(reserved)
     \/ \E x \in Range(reserved) : x = pool.gateway \/ ~ContainsUsableHost(pool.subnet, x)

NetworkRefused(network) ==
  \/ network.driver # "bridge"
  \/ /\ network.source = "create"
     /\ \/ ~IsInjective(Field(network.options, "option"))
        \/ \E o \in Range(network.options) : o.option = "host_binding" /\ o.ipv6
        \/ ~IsInjective(network.labels)
        \/ network.ipam /\ network.pools = <<>>
        \/ \E i \in DOMAIN network.pools : PoolRefused(network, i)

\* Only an omitted address is a wildcard; 0.0.0.0 and :: are addresses.
HostIpOverlaps_OmittedOnly(left, right) ==
  left = Omitted \/ right = Omitted \/ left = right

HostIpOverlaps(left, right) ==
  left \in Wildcards \/ right \in Wildcards \/ left = right

\* The bindings of resource i that name a host port, at their places.
FixedIn(i) ==
  IF resources[i].kind # "container" THEN {}
  ELSE LET ports == resources[i].ports
       IN UNION {{[place |-> <<i, p, b>>, protocol |-> ports[p].protocol,
                   host_ip |-> ports[p].bindings[b].host_ip,
                   host_port |-> ports[p].bindings[b].host_port] :
                     b \in {c \in DOMAIN ports[p].bindings :
                              ports[p].bindings[c].host_port # Ephemeral}} :
                  p \in DOMAIN ports}

SameSocket(f, g) ==
  /\ f.host_port = g.host_port
  /\ f.protocol = g.protocol
  /\ HostIpOverlaps(f.host_ip, g.host_ip)

PortsRefused(i) ==
  LET ports == resources[i].ports
      mine == FixedIn(i)
  IN \/ ~IsInjective([p \in DOMAIN ports |-> <<ports[p].container, ports[p].protocol>>])
     \/ \E f \in mine, g \in mine \cup fixed : f # g /\ SameSocket(f, g)
     \/ \E p \in DOMAIN ports : \E b, c \in DOMAIN ports[p].bindings :
          /\ b < c
          /\ ports[p].bindings[b].host_port = Ephemeral
          /\ ports[p].bindings[c].host_port = Ephemeral
          /\ HostIpOverlaps(ports[p].bindings[b].host_ip, ports[p].bindings[c].host_ip)

Static(attachment) == {attachment.ipv4, attachment.ipv6} \ {None}

\* A pool that leaves the address to a container.
Offers(pool, address) ==
  /\ ContainsUsableHost(pool.subnet, address)
  /\ address # pool.gateway
  /\ address \notin Range(Field(pool.auxiliary, "address"))

\* The attachment's reference may name no network: the graph refuses that.
AddressesRefused(attachment) ==
  \E network \in Range(resources) :
    /\ network.reference = attachment.network
    /\ network.kind = "network"
    /\ IF network.source = "external" THEN Static(attachment) # {}
       ELSE \/ attachment.ipv6 # None /\ ~network.enable_ipv6
            \/ \E x \in Static(attachment) :
                 \A pool \in Range(network.pools) : ~Offers(pool, x)

AttachmentsRefused(attachments) ==
  \/ ~IsInjective(Field(attachments, "network"))
  \/ \E a \in Range(attachments) :
       \/ a.ipv4.family = "v6" \/ a.ipv6.family = "v4"
       \/ ~IsInjective(a.aliases)
       \/ AddressesRefused(a)

\* lexical_absolute_path_key: empty and dot components vanish, dot-dot removes
\* the last one kept, and none at the root.
PathKey(path) ==
  LET clean[n \in 0 .. Len(path)] ==
        IF n = 0 THEN <<>>
        ELSE LET kept == clean[n - 1]
             IN CASE path[n] \in {"", "."} -> kept
                  [] path[n] = ".." -> IF kept = <<>> THEN kept
                                       ELSE SubSeq(kept, 1, Len(kept) - 1)
                  [] OTHER -> Append(kept, path[n])
  IN clean[Len(path)]

MountsRefused(mounts, devices) ==
  LET targets == [m \in DOMAIN mounts |-> PathKey(mounts[m])]
  IN \/ ~IsInjective(targets)
     \/ \E d \in Range(devices) : PathKey(d.container_path) \in Range(targets)

\* An exec form has a program; clearing the command needs an exec entrypoint.
CommandsRefused(entrypoint, command) ==
  \/ \E c \in {entrypoint, command} :
       c.form = "exec" /\ (c.arguments = <<>> \/ c.arguments[1] = "")
  \/ command.form = "clear" /\ entrypoint.form # "exec"

ContainerRefused(i) ==
  LET c == resources[i]
  IN \/ ~IsInjective(c.environment)
     \/ PortsRefused(i)
     \/ ~IsInjective(c.labels)
     \/ AttachmentsRefused(c.networks)
     \/ MountsRefused(c.mounts, c.settings.devices)
     \/ CommandsRefused(c.entrypoint, c.command)
     \/ c.stop_signal = ""
     \/ SettingsInvalid(c.settings)
     \/ c.retries > MaxI32

\* The addresses resource i claims, at the attachments that claim them.
StaticsIn(i) ==
  IF resources[i].kind # "container" THEN {}
  ELSE UNION {{[place |-> <<i, a>>, network |-> resources[i].networks[a].network, address |-> x] :
                 x \in Static(resources[i].networks[a])} :
              a \in DOMAIN resources[i].networks}

SameAddress(f, g) == f.network = g.network /\ f.address = g.address

(* ------------------------------ the walks ------------------------------- *)

Init ==
  /\ orchestration \in {"Standalone", "Swarm"}
  /\ resources \in Authored
  /\ phase = "open" /\ at = 1
  /\ identities = {} /\ defaulted = FALSE /\ fixed = {} /\ statics = {}

Memory == <<identities, defaulted, fixed, statics>>

Refuse == phase' = "refused" /\ UNCHANGED <<at, Memory>>

\* On to the next resource, or to the first of the next walk.
Advance(next) ==
  IF at < Len(resources) THEN at' = at + 1 /\ phase' = phase
  ELSE at' = 1 /\ phase' = next

Open ==
  /\ phase = "open"
  /\ IF \/ orchestration # "Standalone" \/ resources = <<>>
        \/ ~IsInjective(Field(resources, "reference"))
     THEN Refuse
     ELSE phase' = "identities" /\ UNCHANGED <<at, Memory>>
  /\ UNCHANGED <<orchestration, resources>>

RegisterIdentity ==
  /\ phase = "identities"
  /\ LET r == resources[at]
         default == r.kind = "network" /\ r.role = "default"
     IN IF \/ r.kind = "volume" /\ VolumeLabelsRefused(r.labels)
           \/ default /\ defaulted
           \/ <<r.kind, r.identity>> \in identities
        THEN Refuse
        ELSE /\ identities' = identities \cup {<<r.kind, r.identity>>}
             /\ defaulted' = (defaulted \/ default)
             /\ Advance("settings")
             /\ UNCHANGED <<fixed, statics>>
  /\ UNCHANGED <<orchestration, resources>>

CheckResource ==
  /\ phase = "settings"
  /\ IF \/ resources[at].kind = "network" /\ NetworkRefused(resources[at])
        \/ resources[at].kind = "container" /\ ContainerRefused(at)
     THEN Refuse
     ELSE /\ fixed' = fixed \cup FixedIn(at)
          /\ Advance("addresses")
          /\ UNCHANGED <<identities, defaulted, statics>>
  /\ UNCHANGED <<orchestration, resources>>

RegisterAddresses ==
  /\ phase = "addresses"
  /\ IF \E f \in StaticsIn(at), g \in StaticsIn(at) \cup statics : f # g /\ SameAddress(f, g)
     THEN Refuse
     ELSE /\ statics' = statics \cup StaticsIn(at)
          /\ Advance("accepted")
          /\ UNCHANGED <<identities, defaulted, fixed>>
  /\ UNCHANGED <<orchestration, resources>>

Next == Open \/ RegisterIdentity \/ CheckResource \/ RegisterAddresses

Spec == Init /\ [][Next]_vars
(* ----------------------------- properties ------------------------------ *)

\* What a host address listens on: an omitted one and :: on every address of
\* the host, 0.0.0.0 on every IPv4 address, another on itself.
Listens(host_ip) ==
  IF host_ip \in {Omitted, AllHost} THEN Addresses
  ELSE IF host_ip = AllIpv4 THEN {a \in Addresses : a.family = "v4"}
  ELSE {host_ip}

Bound == UNION {FixedIn(i) : i \in Indices}

\* No two bindings of an accepted intent, in one container or in two, ask the
\* host for a socket that both of them would hold: the port lists of the
\* containers are compared through everything a wildcard listens on.
SocketsDisjoint ==
  phase = "accepted" =>
    \A f, g \in Bound :
      f # g /\ f.protocol = g.protocol /\ f.host_port = g.host_port
        => Listens(f.host_ip) \cap Listens(g.host_ip) = {}

Created == {i \in Indices : resources[i].kind = "network" /\ resources[i].source = "create"}

\* Everything that will have an address of its own on network n: the gateway
\* and the auxiliary addresses of each pool, and the endpoints that ask for one.
Holders(n) ==
  LET pools == resources[n].pools
      reference == resources[n].reference
  IN (UNION {{[who |-> <<"gateway", p>>, address |-> pools[p].gateway]} : p \in DOMAIN pools})
     \cup (UNION {{[who |-> <<"auxiliary", p, a>>, address |-> pools[p].auxiliary[a].address] :
                    a \in DOMAIN pools[p].auxiliary} : p \in DOMAIN pools})
     \cup {[who |-> <<"endpoint", s.place>>, address |-> s.address] :
            s \in {t \in UNION {StaticsIn(i) : i \in Indices} : t.network = reference}}

\* On a network an accepted intent creates, every address belongs to one holder
\* only, however many pools, containers and reservations there are, and lies
\* among the host addresses of exactly one pool; a pool's range is part of it.
AddressesHeldOnce ==
  phase = "accepted" =>
    \A n \in Created :
      LET pools == resources[n].pools
          holders == {h \in Holders(n) : h.address # None}
      IN /\ \A h, k \in holders : h.address = k.address => h = k
         /\ \A h \in holders :
              Cardinality({p \in DOMAIN pools : h.address \in Hosts(pools[p].subnet)}) = 1
         /\ \A p, q \in DOMAIN pools :
              p # q => Members(pools[p].subnet) \cap Members(pools[q].subnet) = {}
         /\ \A p \in DOMAIN pools :
              pools[p].ip_range.address # None =>
                Members(pools[p].ip_range) \subseteq Members(pools[p].subnet)
=============================================================================
