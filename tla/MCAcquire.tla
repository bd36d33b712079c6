----------------------------- MODULE MCAcquire ------------------------------
EXTENDS Replay, TLC

Net(name, id) == [name |-> name, NetworkID |-> id]
Container(names, labelled, nets, vols, summary, fields) ==
  [names |-> names, labelled |-> labelled, nets |-> nets, vols |-> vols, summary |-> summary, fields |-> fields]
World(version, info, cs, nets, vols) ==
  [version |-> version, info |-> info, containers |-> cs, networks |-> nets, volumes |-> vols]
VersionOf(release, fields) == [release |-> release, fields |-> fields]
InfoOf(release, fields, rest, option, rootless) ==
  [release |-> release, fields |-> fields, rest |-> rest, option |-> option, rootless |-> rootless]
Network(id, name, fields) == [Id |-> id, Name |-> name, fields |-> fields]

web(nets, vols, fields) == Container({<<"web">>}, TRUE, nets, vols, "Ok", fields)
db(nets, vols, summary) == Container({<<"db">>, <<"web", "db">>}, FALSE, nets, vols, summary, "Ok")

\* Two containers that share a network and a volume; everything decodes.
Shared == World(VersionOf("r1", "Ok"), InfoOf("r1", "Ok", "Ok", TRUE, TRUE),
                "c1" :> web({Net("front", "n1")}, {"v1"}, "Ok")
                  @@ "c2" :> db({Net("front", "n1"), Net("back", "n2")}, {"v1", "v2"}, "Ok"),
                {Network("n1", "front", "Ok"), Network("n2", "back", "Ok")}, "v1" :> "Ok" @@ "v2" :> "Ok")
\* The same, after a recreation of the network and before its endpoint has an id.
\* The release is no text, /info denies its rootless option, one container and one
\* volume do not decode.
Recreated == World(VersionOf(None, "InvalidShape"), InfoOf("r1", "Ok", "Ok", TRUE, FALSE),
                   "c1" :> web({Net("front", None)}, {"v1"}, "InvalidValue")
                     @@ "c2" :> db({Net("front", "n2")}, {"v2"}, "Ok"),
                   {Network("n2", "front", "Ok")}, "v1" :> "Ok" @@ "v2" :> "InvalidShape")
\* One network mentioned by its name and by an id that is its name; another
\* whose name is an id used elsewhere.  /info has no release and an option that
\* is no text; one entry of the list does not decode.
SelfNamed == World(VersionOf("r1", "Ok"), InfoOf(None, "Ok", "InvalidShape", FALSE, None),
                   "c1" :> web({Net("front", None)}, {}, "Ok")
                     @@ "c2" :> db({Net("front", "front")}, {}, "InvalidValue"),
                   {Network("front", "front", "Ok"), Network("n2", "n1", "Ok")}, [v \in {} |-> "Ok"])
\* Another release, one container left, and its volume gone.  A limit of /info and
\* the network do not decode.
Gone == World(VersionOf("r2", "Ok"), InfoOf("r2", "InvalidShape", "Ok", FALSE, FALSE),
              "c1" :> web({Net("front", None)}, {"v1"}, "Ok"),
              {Network("n1", "front", "InvalidShape")}, [v \in {} |-> "Ok"])

MCWorlds == {Shared, Recreated, SelfNamed, Gone}
MCNativeIds == {"c1", "c2", "front", "n1", "n2", "v1", "v2"}

Select1(kind, items) == [kind |-> kind, items |-> items]
MCSelectors ==
  {Select1("AllContainers", <<>>), Select1("Discovery", <<>>), Select1("Label", <<>>),
   Select1("ContainerNames", <<<<"web">>, <<"db">>>>), Select1("NamePrefix", <<<<"web">>>>),
   Select1("ContainerNames", <<>>),
   Select1("ContainerIds", <<"c1", "c2">>), Select1("ContainerIds", <<"c2", "c2">>),
   Select1("ContainerIds", <<"c1", "c2", "c1">>),
   Select1("NetworkIds", <<"n1", "n2">>), Select1("VolumeNames", <<"v1", "v2">>)}
MCVersionBodies == {[max |-> 52, min |-> None], [max |-> 43, min |-> 42], [max |-> 52, min |-> 50]}
=============================================================================
