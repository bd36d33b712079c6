------------------------------- MODULE Acquire ------------------------------
(***************************************************************************)
(* acquire() of src/acquisition.rs: one bounded, cancellable walk over a   *)
(* daemon's read endpoints.  It negotiates an API version, reads /info,    *)
(* lists containers when its selector needs the list, inspects the selected*)
(* containers, then every network and volume they mention, and turns its   *)
(* budget into a capture.  Every read is charged to a Budget; the daemon   *)
(* answers truthfully from a world that changes under the walk ("captures  *)
(* are not atomic daemon snapshots"), or with a body that cannot be used.  *)
(*                                                                         *)
(* The order in which equals are inspected (list order, sorted keys) is    *)
(* left open.  Connecting, polling and framing are the subject of another  *)
(* module; here http_get checks the deadline and the cancellation, then    *)
(* answers or fails.                                                       *)
(***************************************************************************)
EXTENDS Selection, Functions

CONSTANTS
  Worlds,        \* daemon states, see Answers for their shape
  NativeIds,     \* native identifiers and names, one space as in the code
  Selectors,     \* [kind, items]: the caller's choices
  VersionBodies, \* [max, min]: the API minors of a /version body, min may be None
  BadBodies,     \* {} or {Malformed}: whether the daemon may answer nonsense
  BodySizes,     \* sizes a response body may have
  MaxJson,       \* MAX_JSON_BYTES
  MaxChanges,    \* bound: how often the world changes during one walk
  Malformed,     \* a body the walk can make nothing of; for /info, which it does not
                 \* look into, a body that is not JSON
  None,
  MaxRequests, MaxSelected, MaxExpansions, MaxResponse, MaxTotal, MaxElapsed, UsizeMax,
  MaxRefs        \* bound: references one walk may hand out

VARIABLES
  clock, requests, selected_resources, expansions, bytes_read, pending, exchanges, resource_ids,
  native_refs, failed, reading, outcome, owned, capture,                       \* the budget
  world, changes,            \* the daemon
  cancelled,                 \* the caller's AtomicBool
  selector,
  pc,                        \* what acquire is reading
  phase,                     \* where in `exchange` it is
  answer,                    \* the response http_get returned, or None
  api,                       \* the negotiated minor version, or None
  containers,                \* the container ids still to inspect
  networks,                  \* network key -> by_name, for those still to inspect
  volumes,                   \* the volume names still to inspect
  next_reference, selected_roots, network_name_fallbacks, inspected_network_ids,
  result                     \* what acquire returned, or None

Kinds == {"Container", "Network", "Volume"}
Reads == {"DaemonVersion", "DaemonInfo", "ListContainers"}
Refs == 1 .. MaxRefs

walk == <<containers, networks, volumes, next_reference, selected_roots,
          network_name_fallbacks, inspected_network_ids>>
budget == <<clock, requests, selected_resources, expansions, bytes_read, pending, exchanges,
            resource_ids, native_refs, failed, reading, outcome, owned, capture>>
daemon == <<world, changes>>
-----------------------------------------------------------------------------
(***************************************************************************)
(* The daemon: what a world answers to a read.  A world is                 *)
(* [version, info, containers, networks, volumes]:                         *)
(*   version      [release, fields]                                        *)
(*   info         [release, fields, rest, option, rootless], the body      *)
(*   containers   id -> [names, labelled, nets, vols, summary, fields]; an *)
(*                entry of nets is [name, NetworkID], with NetworkID None  *)
(*                when the endpoint has none                               *)
(*   networks     a set of [Id, Name, fields]                              *)
(*   volumes      name -> fields                                           *)
(* The walk reads a few keys of a body.  fields, rest, summary (of a list  *)
(* entry), option and rootless are what the rest of it is to the decoder   *)
(* (module Decode): here they are only carried into the capture.           *)
(***************************************************************************)
Reply(status, body) == [status |-> status, body |-> body]

ListBody(w) == [id \in DOMAIN w.containers |->
                  [names |-> w.containers[id].names, labelled |-> w.containers[id].labelled,
                   fields |-> w.containers[id].summary]]
ContainerBody(w, id) == [Id |-> id, nets |-> w.containers[id].nets, vols |-> w.containers[id].vols,
                         fields |-> w.containers[id].fields]

Inspected(w, kind, id) ==
  CASE kind = "Container" -> {ContainerBody(w, c) : c \in DOMAIN w.containers \cap {id}}
    [] kind = "Network"   -> {net \in w.networks : id \in {net.Id, net.Name}}
    [] kind = "Volume"    -> {[Name |-> v, fields |-> w.volumes[v]] : v \in DOMAIN w.volumes \cap {id}}

Answers(w, q) ==
  LET bodies == CASE q.op = "DaemonVersion"  ->
                       {[max |-> v.max, min |-> v.min, release |-> w.version.release,
                         fields |-> w.version.fields] : v \in VersionBodies}
                  [] q.op = "DaemonInfo"     -> {w.info}
                  [] q.op = "ListContainers" -> {ListBody(w)}
                  [] q.op = "Inspect"        -> Inspected(w, q.object[1], q.object[2])
  IN  {Reply(200, b) : b \in bodies} \cup (IF bodies = {} THEN {Reply(404, None)} ELSE {})

Objects == Kinds \X NativeIds
Requests == [op : Reads, object : {None}] \cup [op : {"Inspect"}, object : Objects]
Replies == (UNION {Answers(w, q) : w \in Worlds, q \in Requests}) \cup {Reply(200, b) : b \in BadBodies}

B == INSTANCE Budget

\* What acquire can return: the limits' own errors, the walk's, the transport's.
Results == {"Ok", "Requests", "SelectedResources", "Expansions", "Bytes", "Elapsed", "Exhausted",
            "PendingResponse", "InvalidResourceRef", "MissingApiVersion", "ResourceConflict",
            "ResponseWithoutRequest", "Input", "Incomplete", "CaptureAccounting",
            "Selection", "Version", "Status", "Shape", "Cancelled", "Deadline", "Io", "Protocol"}

\* What the walk is given: limits Limits::validate accepts and enough references
\* for them, well-formed identifiers and names, finite daemons whose list fits
\* in memory; NativeIds holds every key a walk may look up.
ASSUME AcquireAssumption ==
  /\ B!BudgetAssumption
  /\ None \notin Results \cup Nat \cup NativeIds
  /\ MaxRefs \in Nat /\ MaxRefs > MaxExpansions
  /\ BadBodies \subseteq {Malformed} /\ BodySizes \subseteq Nat /\ MaxJson \in Nat
  /\ \A v \in VersionBodies : v.max \in Nat
  /\ \A s \in Selectors :
       /\ s.kind \in ListSelectors \cup {"ContainerIds", "NetworkIds", "VolumeNames"}
       /\ s.items \in Seq(Range(s.items))
       /\ s.kind \notin ListSelectors => Range(s.items) \subseteq NativeIds
  /\ \A w \in Worlds :
       /\ DOMAIN w.containers \subseteq NativeIds
       /\ IsFiniteSet(DOMAIN w.containers) /\ Cardinality(DOMAIN w.containers) <= UsizeMax
       /\ \A c \in DOMAIN w.containers :
            /\ w.containers[c].vols \subseteq NativeIds
            /\ \A n \in w.containers[c].nets :
                 IF n.NetworkID # None THEN n.NetworkID \in NativeIds ELSE n.name \in NativeIds

\* What is true of any daemon: an Id names one network, a version range is made
\* of minors, and a real answer does not look like nonsense.
ASSUME DaemonAssumption ==
  /\ \A v \in VersionBodies : v.min \in Nat \cup {None}
  /\ \A w \in Worlds :
       /\ \A m, n \in w.networks : m.Id # None /\ (m.Id = n.Id => m = n)
       /\ \A q \in Requests : \A r \in Answers(w, q) : r.body # Malformed
-----------------------------------------------------------------------------
SetOf(seq) == Range(seq)

\* validate_selector, for well-formed identifiers and names.
SelectorError ==
  IF selector.kind \in {"VolumeNames", "ContainerNames"} /\ selector.items = <<>> THEN "Selection"
  ELSE IF Len(selector.items) > MaxSelected THEN "SelectedResources"
  ELSE "Ok"

\* negotiated_api: the newest known version the daemon still serves.
MinKnown == 41
MaxKnown == 49
Negotiated(body) == IF body.max < MaxKnown THEN body.max ELSE MaxKnown
Negotiable(body) ==
  /\ body # Malformed
  /\ Negotiated(body) >= MinKnown
  /\ body.min # None => body.min <= Negotiated(body)

\* related_ids: an endpoint names its network by NetworkID, else by its name.
Mentions_IdsOnly(body) ==     \* mutant: an endpoint without an id is passed over
  {[key |-> n.NetworkID, by_name |-> FALSE] : n \in {m \in body.nets : m.NetworkID # None}}
Mentions(body) == {[key |-> IF n.NetworkID # None THEN n.NetworkID ELSE n.name,
                    by_name |-> n.NetworkID = None] : n \in body.nets}

\* A key is looked up by name only when nothing mentions it as an id.
Merge_AnyName(nets, mentions) ==     \* mutant: one mention by name is enough
  [k \in DOMAIN nets \cup {m.key : m \in mentions} |->
     \/ k \in DOMAIN nets /\ nets[k]
     \/ \E m \in mentions : m.key = k /\ m.by_name]
Merge(nets, mentions) ==
  [k \in DOMAIN nets \cup {m.key : m \in mentions} |->
     /\ k \in DOMAIN nets => nets[k]
     /\ \A m \in mentions : m.key = k => m.by_name]
-----------------------------------------------------------------------------
Init ==
  /\ B!Init
  /\ world \in Worlds /\ changes = 0
  /\ cancelled = FALSE
  /\ selector \in Selectors
  /\ pc = "validate" /\ phase = "send" /\ answer = None
  /\ api = None
  /\ containers = {} /\ networks = [k \in {} |-> FALSE] /\ volumes = {}
  /\ next_reference = 1
  /\ selected_roots = {}
  /\ network_name_fallbacks = {}
  /\ inspected_network_ids = {}
  /\ result = None

Return(value) == result' = value /\ pc' = "done" /\ phase' = "send"
Running == result = None

\* remaining(): cancellation first, then a deadline that is reached, not passed.
RemainingError_NoDeadline == IF cancelled THEN "Cancelled" ELSE "Ok"     \* mutant
RemainingError == IF cancelled THEN "Cancelled" ELSE IF clock >= MaxElapsed THEN "Deadline" ELSE "Ok"

Tick == Running /\ B!Tick /\ UNCHANGED <<daemon, cancelled, selector, pc, phase, answer, api, walk, result>>

DaemonChanges ==
  /\ Running /\ changes < MaxChanges
  /\ world' \in Worlds \ {world}
  /\ changes' = changes + 1
  /\ UNCHANGED <<budget, cancelled, selector, pc, phase, answer, api, walk, result>>

Cancel ==
  /\ Running /\ ~cancelled
  /\ cancelled' = TRUE
  /\ UNCHANGED <<budget, daemon, selector, pc, phase, answer, api, walk, result>>

Validate ==
  /\ pc = "validate"
  /\ IF SelectorError = "Ok"
     THEN pc' = "version" /\ UNCHANGED <<phase, result>>
     ELSE Return(SelectorError)
  /\ UNCHANGED <<budget, daemon, cancelled, selector, answer, api, walk>>
-----------------------------------------------------------------------------
(***************************************************************************)
(* exchange(): record the request, run http_get, read the response.        *)
(***************************************************************************)

\* Charge request q; a budget error ends the walk.
Record(q, r) ==
  /\ Running /\ phase = "send"
  /\ B!RecordRequest(q, r, api # None)
  /\ IF outcome' = "Ok" THEN phase' = "connect" /\ UNCHANGED <<pc, result>> ELSE Return(outcome')
  /\ UNCHANGED <<daemon, cancelled, selector, answer, api, containers, networks, volumes,
                 inspected_network_ids>>

RecordPlain(at, op) ==
  /\ pc = at
  /\ Record([op |-> op, object |-> None], None)
  /\ UNCHANGED <<next_reference, selected_roots, network_name_fallbacks>>

\* Why a root was selected, and the root itself.
Reason(kind) ==
  CASE kind = "Network" -> "ExactNetworkId"
    [] kind = "Volume"  -> "ExactVolumeName"
    [] OTHER -> CASE selector.kind = "ContainerIds"   -> "ExactId"
                  [] selector.kind = "ContainerNames" -> "ExactName"
                  [] selector.kind = "NamePrefix"     -> "NamePrefix"
                  [] selector.kind = "Label"          -> "Label"
                  [] OTHER                            -> "ExplicitAll"
Root(reference, kind) == [resource |-> reference, kind |-> kind, reason |-> Reason(kind)]

\* An inspect takes the next reference; a root is noted before it is read.
RecordInspect_SameReference(kind, id, root, by_name) ==     \* mutant: roots share a number
  /\ Record([op |-> "Inspect", object |-> <<kind, id>>], next_reference)
  /\ next_reference' = IF root THEN next_reference ELSE next_reference + 1
  /\ selected_roots' = selected_roots \cup
       (IF root THEN {Root(next_reference, kind)} ELSE {})
  /\ network_name_fallbacks' = network_name_fallbacks \cup (IF by_name THEN {next_reference} ELSE {})

RecordInspect_RootsTooSoon(kind, id, root, by_name) ==     \* mutant: a relative may be a root
  /\ Record([op |-> "Inspect", object |-> <<kind, id>>], next_reference)
  /\ next_reference' = next_reference + 1
  /\ selected_roots' = selected_roots \cup {Root(next_reference, kind)}
  /\ network_name_fallbacks' = network_name_fallbacks \cup (IF by_name THEN {next_reference} ELSE {})

RecordInspect(kind, id, root, by_name) ==
  /\ Record([op |-> "Inspect", object |-> <<kind, id>>], next_reference)
  /\ next_reference' = next_reference + 1
  /\ selected_roots' = selected_roots \cup
       (IF root THEN {Root(next_reference, kind)} ELSE {})
  /\ network_name_fallbacks' = network_name_fallbacks \cup (IF by_name THEN {next_reference} ELSE {})

Send ==
  \/ RecordPlain("version", "DaemonVersion")
  \/ RecordPlain("info", "DaemonInfo")
  \/ RecordPlain("list", "ListContainers")
  \/ pc = "containers" /\ \E id \in containers : RecordInspect("Container", id, TRUE, FALSE)
  \/ /\ pc = "networks"
     /\ \E id \in DOMAIN networks :
          RecordInspect("Network", id, selector.kind = "NetworkIds", networks[id])
  \/ /\ pc = "volumes"
     /\ \E id \in volumes : RecordInspect("Volume", id, selector.kind = "VolumeNames", FALSE)

\* http_get looks at the deadline and the cancellation before it connects.
Connect ==
  /\ phase = "connect"
  /\ IF RemainingError = "Ok" THEN phase' = "receive" /\ UNCHANGED <<pc, result>>
     ELSE Return(RemainingError)
  /\ UNCHANGED <<budget, daemon, cancelled, selector, answer, api, walk>>

\* The poll loops look again before every read, so that a silent daemon is
\* given up; whatever goes wrong here, the budget keeps the request pending.
GiveUp ==
  /\ phase = "receive"
  /\ RemainingError # "Ok" /\ Return(RemainingError)
  /\ UNCHANGED <<budget, daemon, cancelled, selector, answer, api, walk>>

Allowance == IF B!Allowance < MaxJson THEN B!Allowance ELSE MaxJson

TransportFails ==
  /\ phase = "receive"
  /\ \E error \in {"Io", "Protocol"} \cup (IF \E n \in BodySizes : n > Allowance THEN {"Bytes"} ELSE {}) :
       Return(error)
  /\ UNCHANGED <<budget, daemon, cancelled, selector, answer, api, walk>>

\* The daemon answers from its present world, or with a useless body; nobody
\* looks at the clock between the last read and read_response.
Receive ==
  /\ phase = "receive"
  /\ \E n \in BodySizes, r \in Answers(world, pending.request) \cup {Reply(200, b) : b \in BadBodies} :
       n <= Allowance /\ answer' = [len |-> n, reply |-> r]
  /\ B!BeginRead
  /\ IF reading' THEN phase' = "read" /\ UNCHANGED <<pc, result>> ELSE Return(outcome')
  /\ UNCHANGED <<daemon, cancelled, selector, api, walk>>

\* The exchange is complete with this answer; if the budget refuses it or its
\* status is not 200 the walk ends.
Complete == phase = "read" /\ B!EndRead(answer.len, answer.reply) /\ answer' = None
Usable == outcome' = "Ok" /\ answer.reply.status = 200
Unusable ==
  /\ Complete /\ ~Usable
  /\ Return(IF outcome' = "Ok" THEN "Status" ELSE outcome')
  /\ UNCHANGED <<daemon, cancelled, selector, api, walk>>
-----------------------------------------------------------------------------
(***************************************************************************)
(* What acquire does with each usable response.                            *)
(***************************************************************************)
Body == answer.reply.body
Goto(label) == pc' = label /\ phase' = "send" /\ UNCHANGED result

\* Where the walk goes once cs, nets and vols are what is left to inspect.
Onward(cs, nets, vols) ==
  Goto(IF cs # {} THEN "containers"
       ELSE IF DOMAIN nets # {} THEN "networks"
       ELSE IF vols # {} THEN "volumes"
       ELSE "finish")

\* inspect_identity.
Identity_Unchecked(key, id) == Body # Malformed     \* mutant
Identity(key, id) == IF Body = Malformed THEN FALSE ELSE Body[key] = id

GotVersion ==
  /\ pc = "version" /\ Complete /\ Usable
  /\ \/ ~Negotiable(Body) /\ Return("Version") /\ UNCHANGED api
     \/ Negotiable(Body) /\ api' = Negotiated(Body) /\ Goto("info")
  /\ UNCHANGED <<daemon, cancelled, selector, walk>>

GotInfo ==
  /\ pc = "info" /\ Complete /\ Usable
  /\ Goto(IF selector.kind \in ListSelectors THEN "list" ELSE "select")
  /\ UNCHANGED <<daemon, cancelled, selector, api, walk>>

GotList ==
  /\ pc = "list" /\ Complete /\ Usable
  /\ \/ Body = Malformed /\ Return("Shape") /\ UNCHANGED containers
     \/ Body # Malformed /\ SelectionFails(selector, Body) /\ Return("Selection") /\ UNCHANGED containers
     \/ /\ Body # Malformed /\ ~SelectionFails(selector, Body)
        /\ containers' = Matches(selector, Body)
        /\ Goto("select")
  /\ UNCHANGED <<daemon, cancelled, selector, api, networks, volumes, next_reference,
                 selected_roots, network_name_fallbacks, inspected_network_ids>>

\* The selection is counted once the containers (or exact networks or volumes)
\* are known, duplicates removed.
Select ==
  LET items(kind) == IF selector.kind = kind THEN SetOf(selector.items) ELSE {}
      cs == containers \cup items("ContainerIds")
      nets == [k \in items("NetworkIds") |-> FALSE]
      vols == items("VolumeNames")
  IN
  /\ pc = "select"
  /\ B!RecordSelection(Cardinality(cs) + Cardinality(DOMAIN nets) + Cardinality(vols))
  /\ containers' = cs /\ networks' = nets /\ volumes' = vols
  /\ IF outcome' = "Ok" THEN Onward(cs, nets, vols) ELSE Return(outcome')
  /\ UNCHANGED <<daemon, cancelled, selector, answer, api, next_reference, selected_roots,
                 network_name_fallbacks, inspected_network_ids>>

\* A container's relatives are added after a projection of the expansions: what
\* is left to inspect is already counted.
Projected_CountedAgain(nets, vols) ==     \* mutant: the container just read is counted once more
  expansions + 1 + Cardinality(DOMAIN nets \ DOMAIN networks) + Cardinality(vols \ volumes)
Projected(nets, vols) ==
  expansions + Cardinality(DOMAIN nets \ DOMAIN networks) + Cardinality(vols \ volumes)

GotContainer ==
  LET id == pending.request.object[2]
      nets == Merge(networks, Mentions(Body))
      vols == volumes \cup Body.vols
  IN
  /\ pc = "containers" /\ Complete /\ Usable
  /\ containers' = containers \ {id}
  /\ \/ /\ ~Identity("Id", id)
        /\ Return("Shape")
        /\ UNCHANGED <<networks, volumes>>
     \/ /\ Identity("Id", id) /\ Projected(nets, vols) > MaxExpansions
        /\ Return("Expansions")
        /\ UNCHANGED <<networks, volumes>>
     \/ /\ Identity("Id", id) /\ Projected(nets, vols) <= MaxExpansions
        /\ networks' = nets /\ volumes' = vols
        /\ Onward(containers', nets, vols)
  /\ UNCHANGED <<daemon, cancelled, selector, api, next_reference, selected_roots,
                 network_name_fallbacks, inspected_network_ids>>

\* The body must carry the key it was asked by, and an Id not met before.
FreshNetwork_WrongRole(id) ==     \* mutant: a name is compared with the Id
  Identity("Id", id) /\ Body.Id \notin inspected_network_ids
FreshNetwork_Alias(id) == Identity(IF networks[id] THEN "Name" ELSE "Id", id)     \* mutant
FreshNetwork(id) ==
  /\ Identity(IF networks[id] THEN "Name" ELSE "Id", id)
  /\ Body.Id \notin inspected_network_ids

GotNetwork ==
  LET id == pending.request.object[2]
      left == [k \in DOMAIN networks \ {id} |-> networks[k]]
  IN
  /\ pc = "networks" /\ Complete /\ Usable
  /\ networks' = left
  /\ \/ /\ ~FreshNetwork(id)
        /\ Return("Shape")
        /\ UNCHANGED inspected_network_ids
     \/ /\ FreshNetwork(id)
        /\ inspected_network_ids' = inspected_network_ids \cup {Body.Id}
        /\ Onward({}, left, volumes)
  /\ UNCHANGED <<daemon, cancelled, selector, api, containers, volumes, next_reference,
                 selected_roots, network_name_fallbacks>>

GotVolume ==
  LET id == pending.request.object[2] IN
  /\ pc = "volumes" /\ Complete /\ Usable
  /\ volumes' = volumes \ {id}
  /\ \/ ~Identity("Name", id) /\ Return("Shape")
     \/ Identity("Name", id) /\ Onward({}, networks, volumes')
  /\ UNCHANGED <<daemon, cancelled, selector, api, containers, networks, next_reference,
                 selected_roots, network_name_fallbacks, inspected_network_ids>>

\* The last look at the deadline and the cancellation, then into_capture.
Finish_Unchecked ==     \* mutant: the cancellation is not looked at again
  /\ pc = "finish"
  /\ Goto("capture")
  /\ UNCHANGED <<budget, daemon, cancelled, selector, answer, api, walk>>
Finish ==
  /\ pc = "finish"
  /\ IF RemainingError = "Ok" THEN Goto("capture") ELSE Return(RemainingError)
  /\ UNCHANGED <<budget, daemon, cancelled, selector, answer, api, walk>>

TakeCapture ==
  /\ pc = "capture"
  /\ B!IntoCapture
  /\ Return(outcome')
  /\ UNCHANGED <<daemon, cancelled, selector, answer, api, walk>>

\* What acquire does by itself, and what it waits for.
Own == Validate \/ Send \/ Connect \/ GiveUp \/ Unusable \/ GotVersion \/ GotInfo \/ GotList
         \/ Select \/ GotContainer \/ GotNetwork \/ GotVolume \/ Finish \/ TakeCapture
Next == Own \/ TransportFails \/ Receive \/ Tick \/ DaemonChanges \/ Cancel

vars == <<budget, daemon, cancelled, selector, pc, phase, answer, api, walk, result>>

Spec == Init /\ [][Next]_vars

\* The thread runs and time passes; the daemon owes nothing.
FairSpec == Spec /\ WF_vars(Own) /\ WF_vars(Tick)
-----------------------------------------------------------------------------
(***************************************************************************)
(* Properties.                                                             *)
(***************************************************************************)

\* The walk never runs into an error its own bookkeeping should exclude: a
\* response still pending, a reference bound twice, a missing API version, a
\* capture with an open request or wrong totals.  The caller only ever sees
\* limits, time, cancellation, transport and what the daemon said.
InternalErrors == {"PendingResponse", "InvalidResourceRef", "MissingApiVersion", "ResourceConflict",
                   "ResponseWithoutRequest", "Incomplete", "CaptureAccounting", "Exhausted", "Input"}
NoInternalError == result \notin InternalErrors

Captured == IF capture = None THEN {} ELSE Range(capture.exchanges)
Inspections(kind) == {e \in Captured : e.request.op = "Inspect" /\ e.request.object[1] = kind}
Keys(kind) == {e.request.object[2] : e \in Inspections(kind)}
Chosen(kind) == IF selector.kind = kind THEN SetOf(selector.items) ELSE {}

\* A capture is closed: it inspects every network and volume one of its
\* containers mentions (or the caller named), nothing else, and none of them
\* twice, however the daemon changed between the reads.
Endpoints == UNION {e.reply.body.nets : e \in Inspections("Container")}
CaptureIsClosed ==
  capture # None =>
    /\ Keys("Network") = Chosen("NetworkIds")
         \cup {IF n.NetworkID # None THEN n.NetworkID ELSE n.name : n \in Endpoints}
    /\ Keys("Volume") = Chosen("VolumeNames")
         \cup UNION {e.reply.body.vols : e \in Inspections("Container")}
    /\ \A kind \in Kinds : Cardinality(Inspections(kind)) = Cardinality(Keys(kind))

\* A walk refused for its expansions really knew of more objects than it may
\* inspect: named by the caller, selected from the list it read, mentioned by a
\* container it read.  Nothing is counted twice, whatever is listed, shared or
\* mentioned again.
KnownObjects ==
  LET read == {e \in Range(exchanges) : e.reply.status = 200 /\ e.reply.body # Malformed}
      lists == {e \in read : e.request.op = "ListContainers"}
      inspected == {e \in read : e.request.op = "Inspect" /\ e.request.object[1] = "Container"}
  IN  ({"Container"} \X (Chosen("ContainerIds")
                           \cup UNION {Matches(selector, e.reply.body) : e \in lists}))
        \cup ({"Network"} \X (Chosen("NetworkIds")
                           \cup UNION {{m.key : m \in Mentions(e.reply.body)} : e \in inspected}))
        \cup ({"Volume"} \X (Chosen("VolumeNames") \cup UNION {e.reply.body.vols : e \in inspected}))
ExpansionsExceeded == result = "Expansions" => Cardinality(KnownObjects) > MaxExpansions

\* A captured network is marked as found by name exactly when no captured
\* endpoint, earlier or later, gives it as an id.
FallbackMeansNameOnly ==
  \A e \in Inspections("Network") :
    e.resource \in network_name_fallbacks <=>
      /\ e.request.object[2] \notin Chosen("NetworkIds")
      /\ \A n \in Endpoints : n.NetworkID # e.request.object[2]

\* Every captured inspection holds the object it was asked for, whatever the
\* daemon resolves the key to.
CaptureIdentified ==
  \A e \in Captured : e.request.op = "Inspect" =>
    LET kind == e.request.object[1]
        named == kind = "Volume" \/ e.resource \in network_name_fallbacks
    IN  e.reply.body[IF named THEN "Name" ELSE "Id"] = e.request.object[2]

\* No network is captured twice, once under its name and once under its id
\* ("two network lookups that resolve to the same native ID fail").
NoAliasCaptured ==
  \A e, f \in Inspections("Network") : e # f => e.reply.body.Id # f.reply.body.Id

\* The selected roots of a capture are its inspections of the chosen kind: the
\* containers a selector matched in the list that was captured, or the exact
\* objects.  Their number is the charged selection, and every inspection is a
\* charged expansion.
RootKind == CASE selector.kind = "NetworkIds"  -> "Network"
              [] selector.kind = "VolumeNames" -> "Volume"
              [] OTHER -> "Container"
RootsMatchSelection ==
  capture # None =>
    /\ selected_roots = {Root(e.resource, RootKind) : e \in Inspections(RootKind)}
    /\ Cardinality(selected_roots) = capture.bounds.selected_resources
    /\ \A e \in Captured : e.request.op = "ListContainers" =>
         Keys("Container") = Matches(selector, e.reply.body)
    /\ capture.bounds.expansions =
         Cardinality(UNION {Inspections(kind) : kind \in Kinds})

\* A walk that is cancelled, or out of time, before its last look at them never
\* becomes a capture.
AbandonedIsFinal ==
  []((cancelled \/ clock >= MaxElapsed) /\ pc \notin {"capture", "done"} => [](capture = None))

\* A daemon that neither changes nor answers nonsense is refused for the shape
\* of its answers only when a network was met under two keys, or when a key
\* taken for an id is some network's name, or the other way round.
Lookups == {e \in Range(exchanges) : e.request.op = "Inspect" /\ e.request.object[1] = "Network"}
Role(e) == IF e.resource \in network_name_fallbacks THEN "Name" ELSE "Id"
StableRefusal ==
  result = "Shape" =>
    \E net \in world.networks, e \in Lookups :
      /\ e.request.object[2] \in {net.Id, net.Name}
      /\ \/ net[Role(e)] # e.request.object[2]
         \/ \E f \in Lookups \ {e} : f.request.object[2] \in {net.Id, net.Name}

\* However silent the daemon, acquire returns: time passes and every wait has
\* the deadline.
Terminates == <>(result # None)
=============================================================================
