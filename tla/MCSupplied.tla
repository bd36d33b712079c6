----------------------------- MODULE MCSupplied -----------------------------
EXTENDS Supplied

Exch(op, object, resource, api, status, len, body) ==
  [op |-> op, object |-> object, resource |-> resource, api |-> api, status |-> status, len |-> len,
   body |-> body]
Plain(op, body) == Exch(op, Absent, Absent, 44, 200, 1, body)
Insp(kind, asked, resource, id, name, fields) ==
  Exch("Inspect", <<kind, asked>>, resource, 44, 200, 1, [Id |-> id, Name |-> name, fields |-> fields])
VersionBody(release, max, min, fields, rest) ==
  [release |-> release, max |-> max, min |-> min, fields |-> fields, rest |-> rest]
InfoBody(release, option, rootless, fields, rest) ==
  [release |-> release, option |-> option, rootless |-> rootless, fields |-> fields, rest |-> rest]
Entry(fields) == [names |-> {<<"web">>}, labelled |-> FALSE, fields |-> fields]
Names(ids, fields) == [ids |-> ids, fields |-> fields]

MCExchanges ==
  {Exch("DaemonVersion", Absent, Absent, Absent, 200, 1, VersionBody("r1", 44, 41, "Ok", "Ok")),
   Exch("DaemonVersion", Absent, Absent, 40, 200, 1, VersionBody(Absent, Absent, 41, "Ok", "Ok")),
   Exch("DaemonVersion", Absent, Absent, Absent, 200, 1, VersionBody("r1", Absent, 41, "Ok", "InvalidValue")),
   Plain("DaemonInfo", InfoBody("r1", FALSE, Absent, "Ok", "Ok")),
   Plain("DaemonInfo", InfoBody("r2", TRUE, TRUE, "Ok", "Ok")),
   Plain("DaemonInfo", InfoBody(Absent, TRUE, FALSE, "Ok", "Ok")),
   Plain("DaemonInfo", InfoBody(Absent, FALSE, Absent, "InvalidShape", "Ok")),
   Plain("ListContainers", [c \in {"c1"} |-> Entry("Ok")]),
   Plain("ListContainers", [c \in {"c1", "c2"} |-> Entry(IF c = "c1" THEN "Ok" ELSE "InvalidShape")]),
   Plain("ListContainers", [c \in {"c1", "c2"} |-> Entry("Ok")]),
   Plain("ListNetworks", Names({"n1"}, "Ok")),
   Exch("ListNetworks", Absent, Absent, 44, 200, 3, Names({"n1"}, "Ok")),
   Plain("ListVolumes", Names({"v1"}, "Ok")),
   Plain("ListVolumes", Malformed),
   Insp("Container", "c1", 1, "c1", Absent, "Ok"),
   Insp("Container", "c1", 1, "c1", Absent, "InvalidShape"),
   Insp("Container", "c2", 2, "c1", Absent, "Ok"),
   Insp("Network", "n1", 3, "n1", "front", "Ok"),
   Insp("Network", "front", 4, "n1", "front", "Ok"),
   Insp("Volume", "v1", 5, Absent, "v1", "Ok"),
   Exch("Inspect", <<"Volume", "v1">>, 5, 44, 404, 1, [Id |-> Absent, Name |-> Absent, fields |-> "Ok"])}
=============================================================================
