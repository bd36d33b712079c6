--------------------------- MODULE MCPrerequisite ---------------------------
EXTENDS Prerequisite

Seen(availability, origin, value) == [availability |-> availability, origin |-> origin, value |-> value]
Here(x) == Seen("Present", "Effective", <<x>>)
Hidden == Seen("Redacted", "Effective", <<>>)
Net(reference, id) ==
  [reference |-> reference, id |-> Seen("Present", "RuntimeAssigned", <<id>>), name |-> Here("front"),
   driver |-> Here("bridge"), internal |-> Here("true")]
Good == Net(1, "id")
MCOffered ==
  {Good, Net(2, "id"), Net(1, "other"), Net(2, "other"), [Good EXCEPT !.name = Here("back")],
   [Good EXCEPT !.name = Hidden], [Good EXCEPT !.driver = Here("macvlan")], [Good EXCEPT !.driver = Hidden],
   [Good EXCEPT !.internal = Hidden], [Good EXCEPT !.internal = Here("false")],
   [Good EXCEPT !.id = Seen("Present", "Effective", <<"id">>)]}
MCRoots ==
  {[resource |-> r, kind |-> k[1], reason |-> k[2]] :
     r \in {1, 2}, k \in {<<"Network", "ExactNetworkId">>, <<"Network", "ExactName">>, <<"Container", "ExactId">>}}
MCPrerequisites ==
  {[identity |-> "front", driver |-> "bridge", internal |-> i] : i \in {<<>>, <<"true">>}}
=============================================================================
