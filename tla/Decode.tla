------------------------------- MODULE Decode -------------------------------
(***************************************************************************)
(* decode_capture() of src/decoder.rs: the exchanges of a finished capture *)
(* are read once, in order, and every fact the walk established is         *)
(* established again from the bodies alone: what was selected, which       *)
(* object each body describes, whether the daemon contradicts itself.      *)
(*                                                                         *)
(* A capture is [exchanges, selector (Absent when a caller assembled it),  *)
(* selected_roots, network_name_fallbacks, selected_resources,             *)
(* discovery_only]; an exchange is [op, object, resource, api, status,     *)
(* len, body].  A body holds what this function looks at, its facts and    *)
(* the error ("Ok" when there is none) with which decoding one of its      *)
(* fields, or its shape, refuses it (module Fields has those decoders):    *)
(*   /version     [release, max, min, fields, rest]; release, max and min  *)
(*                are Absent when unavailable; fields is the error of what *)
(*                is decoded up to the release, rest of what comes after   *)
(*   /info        [release, option, rootless, fields, rest]: a rootless    *)
(*                security option, and the Rootless flag or Absent         *)
(*   containers   id -> [names, labelled, fields], as in Selection         *)
(*   networks and volumes    [ids, fields]                                 *)
(*   inspections  [Id, Name, fields]                                       *)
(***************************************************************************)
EXTENDS Selection

CONSTANTS
  Absent,         \* Option::None
  Malformed,      \* a body that is not JSON
  MaxJson,        \* MAX_JSON_BYTES
  MaxCollection   \* MAX_COLLECTION_ITEMS

Kinds == {"Container", "Network", "Volume"}
NothingYet == [k \in Kinds |-> {}]

\* What the loop over the exchanges carries.
Fresh ==
  [error |-> "Ok", version_seen |-> FALSE, info_seen |-> FALSE,
   release |-> Absent, max |-> Absent, min |-> Absent, mode |-> "Unknown", requested_api_versions |-> {},
   listed_ids |-> NothingYet, inspected_ids |-> NothingYet, inspected_native_objects |-> NothingYet,
   seen_resources |-> {},          \* <<kind, reference, id>> of every inspection
   selected_from_list |-> Absent]

Fail(acc, error) == [acc EXCEPT !.error = error]

\* A release is learnt from /version or /info; the two must not differ.
Learn_Last(acc, release) ==     \* mutant: the later report wins
  IF release = Absent THEN acc ELSE [acc EXCEPT !.release = release]
Learn(acc, release) ==
  IF release = Absent THEN acc
  ELSE IF acc.release \notin {Absent, release} THEN Fail(acc, "ConflictingFacts")
  ELSE [acc EXCEPT !.release = release]

\* An error met only now; an earlier one stays.
Afterwards(acc, error) == IF acc.error # "Ok" \/ error = "Ok" THEN acc ELSE Fail(acc, error)

VersionSeen(acc, body) == [acc EXCEPT !.version_seen = TRUE, !.max = body.max, !.min = body.min]
Version(acc, body) ==
  IF acc.version_seen THEN Fail(acc, "ConflictingFacts")
  ELSE IF body.fields # "Ok" THEN Fail(acc, body.fields)
  ELSE Afterwards(Learn(VersionSeen(acc, body), body.release), body.rest)

\* Only the flag can say rootful; it must not deny a rootless option.
DaemonMode(acc, body) ==
  IF body.option /\ body.rootless = FALSE THEN Fail(acc, "ConflictingFacts")
  ELSE [acc EXCEPT !.mode = IF body.option \/ body.rootless = TRUE THEN "Rootless"
                            ELSE IF body.rootless = FALSE THEN "Rootful" ELSE "Unknown"]
InfoSeen(acc) == [acc EXCEPT !.info_seen = TRUE]
Info(acc, body) ==
  IF acc.info_seen THEN Fail(acc, "ConflictingFacts")
  ELSE IF body.fields # "Ok" THEN Fail(acc, body.fields)
  ELSE LET learnt == Afterwards(Learn(InfoSeen(acc), body.release), body.rest)
       IN  IF learnt.error = "Ok" THEN DaemonMode(learnt, body) ELSE learnt

\* The ids of a list whose entries all decode.
Listed(acc, kind, ids) == [acc EXCEPT !.listed_ids[kind] = @ \cup ids]
ObjectList(acc, kind, body) ==
  IF body.fields # "Ok" THEN Fail(acc, body.fields) ELSE Listed(acc, kind, body.ids)

\* The list of containers is selected from again when a selector picked from
\* it; only then are its entries summarised, and the first that cannot be ends
\* the decoding (which is first the model leaves to CHOOSE).
Undecoded(list) == {id \in DOMAIN list : list[id].fields # "Ok"}
Picks(selector) == IF selector = Absent THEN FALSE ELSE selector.kind \in ListSelectors \ {"Discovery"}
ContainerList(acc, selector, body) ==
  IF acc.selected_from_list # Absent THEN Fail(acc, "ConflictingFacts")
  ELSE IF Picks(selector) /\ SelectionFails(selector, body) THEN Fail(acc, "IncompleteInventory")
  ELSE IF Undecoded(body) # {} THEN Fail(acc, body[CHOOSE id \in Undecoded(body) : TRUE].fields)
  ELSE Listed([acc EXCEPT !.selected_from_list =
                 IF Picks(selector) THEN [ids |-> Matches(selector, body)] ELSE Absent],
              "Container", DOMAIN body)

IdentityKey_ByRole(capture, e) == IF e.object[1] = "Container" THEN "Id" ELSE "Name"     \* mutant
IdentityKey(capture, e) ==
  IF e.object[1] = "Volume" \/ (e.object[1] = "Network" /\ e.resource \in capture.network_name_fallbacks)
  THEN "Name" ELSE "Id"
NativeKey(kind) == IF kind = "Volume" THEN "Name" ELSE "Id"

Inspection(acc, capture, e) ==
  LET kind == e.object[1]
      native == e.body[NativeKey(kind)]
  IN  IF e.body[IdentityKey(capture, e)] # e.object[2] THEN Fail(acc, "ConflictingFacts")
      ELSE IF native = Absent THEN Fail(acc, "InvalidShape")
      ELSE IF \/ native \in acc.inspected_native_objects[kind]
              \/ \E seen \in acc.seen_resources : seen[1] = kind /\ seen[2] = e.resource
           THEN Fail(acc, "DuplicateResource")
      ELSE IF e.body.fields # "Ok" THEN Fail(acc, e.body.fields)
      ELSE [acc EXCEPT !.inspected_native_objects[kind] = @ \cup {native},
                       !.seen_resources = @ \cup {<<kind, e.resource, e.object[2]>>},
                       !.inspected_ids[kind] = @ \cup {e.object[2]}]

Exchange(acc, capture, e) ==
  IF acc.error # "Ok" THEN acc
  ELSE IF e.status # 200 THEN Fail(acc, "UnexpectedStatus")
  ELSE IF e.len > MaxJson THEN Fail(acc, "ResponseTooLarge")
  ELSE IF e.body = Malformed THEN Fail(acc, "InvalidJson")
  ELSE IF e.api = Absent /\ e.op # "DaemonVersion" THEN Fail(acc, "MissingApiVersion")
  ELSE LET next == [acc EXCEPT !.requested_api_versions = @ \cup ({e.api} \ {Absent})] IN
       CASE e.op = "DaemonVersion"  -> Version(next, e.body)
         [] e.op = "DaemonInfo"     -> Info(next, e.body)
         [] e.op = "ListContainers" -> ContainerList(next, capture.selector, e.body)
         [] e.op = "ListNetworks"   -> ObjectList(next, "Network", e.body)
         [] e.op = "ListVolumes"    -> ObjectList(next, "Volume", e.body)
         [] e.op = "Inspect"        -> Inspection(next, capture, e)
-----------------------------------------------------------------------------
(***************************************************************************)
(* After the last exchange: is the inventory the one the capture claims?   *)
(***************************************************************************)

RootIds(acc, capture) ==
  {seen[3] : seen \in {s \in acc.seen_resources :
     s[1] = "Container" /\ \E root \in capture.selected_roots : root.kind = "Container" /\ root.resource = s[2]}}

SelectionAgrees(acc, capture) ==
  IF acc.selected_from_list # Absent THEN acc.selected_from_list.ids = RootIds(acc, capture)
  ELSE ~Picks(capture.selector)

RootsInspected(acc, capture) ==
  /\ \A a, b \in capture.selected_roots : a.resource = b.resource => a = b
  /\ capture.selected_roots # {} => Cardinality(capture.selected_roots) = capture.selected_resources
  /\ \A root \in capture.selected_roots :
       \E seen \in acc.seen_resources :
         /\ seen[1] = root.kind /\ seen[2] = root.resource
         /\ root.kind = "Container" /\ root.reason # "ExactId" => seen[3] \in acc.listed_ids["Container"]

\* Of what was listed something was inspected, unless nothing was to be.
ListsFollowed(acc, capture) ==
  /\ \A kind \in Kinds :
       \/ capture.discovery_only /\ kind = "Container"
       \/ acc.listed_ids[kind] = {}
       \/ acc.listed_ids[kind] \cap acc.inspected_ids[kind] # {}
  /\ capture.selected_roots = {} =>
       capture.selected_resources <= Cardinality({s \in acc.seen_resources : s[1] = "Container"})

Complete(acc, capture) ==
  /\ \A r \in capture.network_name_fallbacks :
       \E seen \in acc.seen_resources : seen[1] = "Network" /\ seen[2] = r
  /\ SelectionAgrees(acc, capture)
  /\ RootsInspected(acc, capture)
  /\ ListsFollowed(acc, capture)

\* The daemon's range is one, and every URL was inside it.
InRange(acc) ==
  /\ acc.min # Absent /\ acc.max # Absent => acc.min <= acc.max
  /\ \A api \in acc.requested_api_versions :
       (acc.min # Absent => api >= acc.min) /\ (acc.max # Absent => api <= acc.max)

InventoryFindings(acc) ==
  (IF acc.release = Absent \/ acc.max = Absent THEN {"MissingField"} ELSE {})
    \cup (IF acc.mode = "Unknown" THEN {"CapabilityUnknown"} ELSE {})

\* What the loop over the exchanges has gathered at its end.
Gathered(capture) ==
  LET acc[n \in 0 .. Len(capture.exchanges)] ==
        IF n = 0 THEN Fresh ELSE Exchange(acc[n - 1], capture, capture.exchanges[n])
  IN  acc[Len(capture.exchanges)]

\* The inventory, or the first error.
Decoded(capture) ==
  LET acc == Gathered(capture)
  IN  IF Len(capture.exchanges) > MaxCollection THEN [error |-> "CollectionTooLarge"]
      ELSE IF acc.error # "Ok" THEN [error |-> acc.error]
      ELSE IF ~Complete(acc, capture) THEN [error |-> "IncompleteInventory"]
      ELSE IF ~InRange(acc) THEN [error |-> "ApiVersionOutOfRange"]
      ELSE [error |-> "Ok", release |-> acc.release, max |-> acc.max, min |-> acc.min, mode |-> acc.mode,
            resources |-> acc.seen_resources, listed |-> acc.listed_ids["Container"],
            apis |-> acc.requested_api_versions, findings |-> InventoryFindings(acc)]
=============================================================================
