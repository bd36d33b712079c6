------------------------------ MODULE MCRender ------------------------------
EXTENDS Render, TLC

net(r) == Network(r, r)
ext(r) == ExternalNetwork(r, r, "bridge", <<>>)
vol(r) == Volume(r, r, <<>>)

Bind == Mount("bind", "/s", "/t", FALSE)
Using(r, networks, volumes) ==
  [Container(r, r) EXCEPT
     !.networks = [i \in DOMAIN networks |-> Attachment(networks[i], <<>>, <<>>, <<>>)],
     !.mounts = [i \in DOMAIN volumes |-> Mount("volume", volumes[i], "/v", FALSE)]]
Relabelling(s) ==
  [s EXCEPT !.mounts = <<[Bind EXCEPT !.relabel = <<"shared">>], Bind>> \o @
                          \o <<[Bind EXCEPT !.relabel = <<"private">>]>>]
Serving(r) ==
  [Container(r, r) EXCEPT !.ports = <<Port(80, "tcp", <<Binding(<<>>, 80)>>)>>,
     !.healthcheck = <<[form |-> "exec", start_period |-> <<>>, start_interval |-> <<>>]>>]
Pool == [subnet |-> [family |-> "v4", prefix |-> 31]]

\* A container on two networks; one that mounts a volume twice beside a network
\* and relabels two of its binds; nothing that refers to anything; settings a
\* daemon may refuse; a reference to nothing and a mount of a network.
Connected == <<net("a"), ext("b"), Using("c", <<"a", "b">>, <<>>)>>
Mounting  == <<Relabelling(Using("c", <<"a">>, <<"b", "b">>)), net("a"), vol("b")>>
Unrelated == <<net("a"), Container("b", "b"), Container("c", "c")>>
Demanding == <<[net("a") EXCEPT !.ipam = <<[driver |-> <<>>, pools |-> <<Pool>>]>>],
               ExternalVolume("b", "b"), Serving("c")>>
Serviced  == <<Serving("a"), ExternalVolume("b", "b")>>
Dangling  == <<net("a"), Using("c", <<"x">>, <<"a">>)>>
Intents == {Connected, Mounting, Unrelated, Demanding, Serviced, Dangling}

\* Dependencies a caller may list, sound or not, once or twice.
Lists == {<<>>, <<"a">>, <<"b">>, <<"c">>, <<"a", "b">>, <<"c", "c">>, <<"b", "b", "a">>}
Listed(resources) ==
  {[i \in DOMAIN resources |->
      [PlannerNodes(resources)[i] EXCEPT !.depends_on = lists[i]]] :
     lists \in [DOMAIN resources -> Lists]}
Reversed(nodes) == {nodes, Reverse(nodes)}
Odd(nodes) == {Tail(nodes), <<Head(nodes)>> \o Front(nodes),
               [nodes EXCEPT ![1].action = "RequireExisting"], [nodes EXCEPT ![1].kind = "Volume"]}
Unknown(nodes) == [nodes EXCEPT ![1].depends_on = <<"x">>]

All == {"StandaloneContainer", "BridgeNetwork", "NetworkExternalReference", "NamedVolume",
        "VolumeExternalReference", "NetworkMultipleAttachment", "Healthcheck", "PortPublish",
        "NetworkIpam", "BindMount", "BindRelabelShared", "BindRelabelPrivate"}
Input(resources, nodes, supports, api, mode) ==
  [resources |-> resources, nodes |-> nodes, supports |-> supports, api |-> api, mode |-> mode]
Supplied(resources, nodeLists) ==
  {Input(resources, nodes, All, 41, "Rootful") : nodes \in nodeLists}
MCInputs ==
  (UNION {UNION {Supplied(r, Reversed(nodes)) : nodes \in Listed(r)} : r \in {Connected, Mounting, Unrelated}})
  \cup (UNION {Supplied(r, Odd(PlannerNodes(r)) \cup {Unknown(PlannerNodes(r))}) : r \in Intents})
  \cup
  {Input(resources, PlannerNodes(resources), supports, api, mode) :
     resources \in Intents, supports \in {All, All \ {"BridgeNetwork"}, All \ {"Healthcheck"}},
     api \in {40, 41}, mode \in {"Rootful", "Rootless"}}
=============================================================================
