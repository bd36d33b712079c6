---------------------------- MODULE AcquireProofs ----------------------------
(***************************************************************************)
(* What a capture promises, for every daemon, selector and set of limits.  *)
(*                                                                         *)
(* The proof is built in layers.  WalkInv says what the walk is doing:     *)
(* which request is outstanding, whom it is about, what kind of answer it  *)
(* can get.  It is enough to show that a walk uses its budget as one of    *)
(* the budget's own behaviours, so that BudgetInv holds all along.         *)
(* LedgerInv then relates the exchanges made so far to what is left to     *)
(* inspect, and at the last step gives the properties of the capture.      *)
(* SteadyInv adds what a daemon that never changes can have answered.      *)
(* ChronicleInv adds the order of the exchanges; from it and the ledger,   *)
(* Sound describes what the decoder has gathered after each of them, and   *)
(* at the last one, that the inventory is complete.                        *)
(***************************************************************************)
EXTENDS Replay, TLAPS, FiniteSetTheorems

BP == INSTANCE BudgetProofs

Early == {"validate", "version", "info", "list", "select"}
Expanding == {"containers", "networks", "volumes", "finish", "capture"}
Plain(op) == [op |-> op, object |-> None]
InspectOf(kind, id) == [op |-> "Inspect", object |-> <<kind, id>>]

\* Where the walk is, and what its own bookkeeping of the budget says.
Control ==
  /\ pc \in Early \cup Expanding
  /\ phase \in {"send", "connect", "receive", "read"}
  /\ pc \in {"validate", "select", "finish", "capture"} => phase = "send"
  /\ selector \in Selectors /\ world \in Worlds
  /\ pc # "validate" => Len(selector.items) <= MaxSelected
  /\ ~failed /\ owned /\ capture = None
  /\ reading = (phase = "read")
  /\ pending = None <=> phase = "send"
  /\ pc \notin {"validate", "version"} => api # None
  /\ pc = "list" => selector.kind \in ListSelectors
  /\ expansions \in 0 .. MaxExpansions /\ selected_resources \in 0 .. UsizeMax
  /\ next_reference = expansions + 1

\* What is left to inspect can be looked up; before the selection is counted
\* only a list has filled it.
Keyed ==
  /\ containers \subseteq NativeIds /\ volumes \subseteq NativeIds
  /\ DOMAIN networks \subseteq NativeIds
  /\ pc \in Early \ {"select"} => containers = {}
  /\ pc \in Early => DOMAIN networks = {} /\ volumes = {}
  /\ pc = "select" =>
       /\ IsFiniteSet(containers) /\ Cardinality(containers) <= UsizeMax
       /\ selector.kind \notin ListSelectors => containers = {}

\* The outstanding request is the one this part of the walk makes.
Asked ==
  pending # None =>
    \/ pc = "version" /\ pending.request = Plain("DaemonVersion") /\ pending.resource = None
    \/ pc = "info" /\ pending.request = Plain("DaemonInfo") /\ pending.resource = None
    \/ pc = "list" /\ pending.request = Plain("ListContainers") /\ pending.resource = None
    \/ /\ pending.resource = expansions
       /\ \/ pc = "containers" /\ \E id \in containers : pending.request = InspectOf("Container", id)
          \/ pc = "networks" /\ \E id \in DOMAIN networks : pending.request = InspectOf("Network", id)
          \/ pc = "volumes" /\ \E id \in volumes : pending.request = InspectOf("Volume", id)

\* The response being read answers the outstanding request, from some world.
Answered ==
  phase = "read" =>
    \/ \E w \in Worlds : answer.reply \in Answers(w, pending.request)
    \/ \E b \in BadBodies : answer.reply = Reply(200, b)

WalkInv ==
  /\ result # None => pc = "done" /\ phase = "send"
  /\ result = None => Control /\ Keyed /\ Asked /\ Answered

(***************************************************************************)
(* The exchanges made so far.                                              *)
(***************************************************************************)
Completed == {e \in Range(exchanges) : e.request.op = "Inspect"}
ReadOf(kind) == {e \in Completed : e.request.object[1] = kind}
ReadKeys(kind) == {e.request.object[2] : e \in ReadOf(kind)}
Todo(kind) == IF kind = "Container" THEN containers
              ELSE IF kind = "Network" THEN DOMAIN networks ELSE volumes
Wanted(kind) == ReadKeys(kind) \cup Todo(kind)

\* The reference the next completed inspection carries.
Inspecting == pending # None /\ pending.request.op = "Inspect"
Frontier == IF Inspecting THEN expansions ELSE expansions + 1

KeyOf(net) == IF net.NetworkID # None THEN net.NetworkID ELSE net.name
Met == UNION {e.reply.body.nets : e \in ReadOf("Container")}
NameOnly(key) == key \notin Chosen("NetworkIds") /\ \A n \in Met : n.NetworkID # key

\* Completed inspections carry the references 1, 2, 3... each once, and none is
\* of an object that is still to be inspected.
Numbered ==
  /\ \A e \in Completed : e.resource \in 1 .. Frontier - 1
  /\ \A r \in 1 .. Frontier - 1 : \E e \in Completed : e.resource = r
  /\ \A e, f \in Completed : e.resource = f.resource => e = f
  /\ \A e \in Completed : e.request.object[2] \notin Todo(e.request.object[1])

\* Each stage starts when the one before is through.
Staged ==
  /\ pc \notin {"validate", "version"} => exchanges # <<>>
  /\ pc \in Early => /\ Completed = {} /\ expansions = 0 /\ selected_resources = 0
                     /\ selected_roots = {} /\ network_name_fallbacks = {} /\ inspected_network_ids = {}
  /\ pc = "containers" => Completed = ReadOf("Container")
  /\ pc \in Expanding \ {"containers"} => containers = {}
  /\ pc \in Expanding \ {"containers", "networks"} => DOMAIN networks = {}
  /\ pc \in Expanding \ {"containers", "networks", "volumes"} => volumes = {}

\* A container is inspected, or still to be, exactly when the list that was
\* captured gives it to the selector.
Listed ==
  \A e \in Range(exchanges) : e.request.op = "ListContainers" =>
    /\ selector.kind \in ListSelectors /\ pc \notin Early \ {"select"}
    /\ Wanted("Container") = Matches(selector, e.reply.body)

\* Everything mentioned, and nothing else, is inspected or still to be; and a
\* key is known by name only while nothing seen gives it as an id.
Closing ==
  pc \in Expanding =>
    /\ Wanted("Network") = Chosen("NetworkIds") \cup {KeyOf(n) : n \in Met}
    /\ Wanted("Volume") = Chosen("VolumeNames") \cup UNION {e.reply.body.vols : e \in ReadOf("Container")}
    /\ \A k \in DOMAIN networks : networks[k] = NameOnly(k)

\* References are marked as found by name for the networks known by name only.
Marked ==
  /\ network_name_fallbacks \subseteq 1 .. expansions
  /\ \A e \in Completed :
       e.resource \in network_name_fallbacks <=>
         e.request.object[1] = "Network" /\ NameOnly(e.request.object[2])
  /\ Inspecting =>
       (expansions \in network_name_fallbacks <=>
          pc = "networks" /\ networks[pending.request.object[2]])

\* Bodies carry the key they were asked by, and no two networks share an Id.
Named_(e) == e.request.object[1] = "Volume" \/ e.resource \in network_name_fallbacks
Identified ==
  /\ \A e \in Completed : e.reply.body[IF Named_(e) THEN "Name" ELSE "Id"] = e.request.object[2]
  /\ inspected_network_ids = {e.reply.body.Id : e \in ReadOf("Network")}
  /\ \A e, f \in ReadOf("Network") : e # f => e.reply.body.Id # f.reply.body.Id

\* The roots noted are the inspections of the chosen kind, the outstanding one
\* included, and the selection counted is what becomes of them.
RootReason == Reason(RootKind)
TheRoot(reference) == [resource |-> reference, kind |-> RootKind, reason |-> RootReason]
Rooted ==
  /\ selected_roots = {TheRoot(e.resource) : e \in ReadOf(RootKind)} \cup
       (IF Inspecting /\ pending.request.object[1] = RootKind THEN {TheRoot(expansions)} ELSE {})
  /\ pc \in Expanding => IsFiniteSet(Wanted(RootKind)) /\ selected_resources = Cardinality(Wanted(RootKind))
  /\ RootKind # "Container" => Wanted("Container") = {}

Ledger == Numbered /\ Staged /\ Listed /\ Closing /\ Marked /\ Identified /\ Rooted

Final == CaptureIsClosed /\ FallbackMeansNameOnly /\ CaptureIdentified /\ NoAliasCaptured
           /\ RootsMatchSelection
LedgerInv ==
  /\ NoInternalError /\ Final
  /\ result = None => Ledger
-----------------------------------------------------------------------------
(***************************************************************************)
(* The constants.                                                          *)
(***************************************************************************)
LEMMA BudgetLimits == BP!BudgetAssumption
  BY AcquireAssumption DEF B!BudgetAssumption, B!ReadRequest, B!ValidLimits,
     BP!BudgetAssumption, BP!ReadRequest, BP!ValidLimits

\* The limits are the natural numbers the budget takes them for.
LEMMA Limits ==
  /\ UsizeMax \in Nat /\ MaxElapsed \in Nat
  /\ MaxRequests \in 1 .. UsizeMax /\ MaxSelected \in 1 .. UsizeMax
  /\ MaxExpansions \in 1 .. UsizeMax /\ MaxRefs \in Nat /\ MaxExpansions < MaxRefs
  BY AcquireAssumption DEF B!BudgetAssumption, B!ValidLimits

\* None is no result, no number and no identifier.
LEMMA NoneIsNone == \A v : v \in Results \cup Nat \cup NativeIds => v # None
  BY AcquireAssumption

\* A request record is never taken for the absence of one.
LEMMA BudgetNone ==
  ASSUME NEW q \in B!ReadRequest, NEW r \in Refs \cup {None}, NEW version
  PROVE  [request |-> q, resource |-> r, api |-> version # None] # None
<1>1. [request |-> q, resource |-> r, api |-> version # None] \in
        [request : B!ReadRequest, resource : Refs \cup {None}, api : BOOLEAN]
  OBVIOUS
<1>. QED BY <1>1, AcquireAssumption DEF B!BudgetAssumption

\* The version, the info and the list are requests the budget knows.
LEMMA PlainIsRead == \A op \in Reads : Plain(op) \in B!ReadRequest
  BY DEF Plain, B!ReadRequest

\* An inspection of any object is a request the budget knows.
LEMMA InspectIsRead ==
  ASSUME NEW kind \in Kinds, NEW id \in NativeIds
  PROVE  InspectOf(kind, id) \in B!ReadRequest
  BY DEF InspectOf, B!ReadRequest, Objects

\* There is a bounded number of items once the selector is validated.
LEMMA ItemsFinite ==
  ASSUME NEW s \in Selectors
  PROVE  /\ IsFiniteSet(Range(s.items)) /\ Len(s.items) \in Nat
         /\ Cardinality(Range(s.items)) <= Len(s.items)
<1> DEFINE n == Len(s.items)
<1>1. n \in Nat /\ DOMAIN s.items = 1 .. n
  BY AcquireAssumption
<1>2. IsFiniteSet(1 .. n) /\ Cardinality(1 .. n) = n
  BY <1>1, FS_Interval
<1>3. Range(s.items) = {s.items[i] : i \in 1 .. n}
  BY <1>1 DEF Range
<1>. HIDE DEF n
<1> DEFINE f == [i \in 1 .. n |-> s.items[i]]
<1>4. f \in Surjection(1 .. n, Range(s.items))
  BY <1>3 DEF Surjection
<1>. QED BY <1>1, <1>2, <1>4, FS_Surjection

(***************************************************************************)
(* What the budget's operations do to a usable budget.                     *)
(***************************************************************************)
LEMMA TimeFails == ASSUME ~failed, B!CheckTimeFails PROVE outcome' = "Elapsed"
  BY DEF B!CheckTimeFails

\* What record_request returns, and what it changes when it succeeds.
LEMMA RecordOutcome ==
  ASSUME NEW q, NEW r, ~failed, B!RecordRequest(q, r, api # None)
  PROVE  /\ outcome' \in {"Elapsed", "Requests", "Expansions", "Ok", "PendingResponse",
                          "InvalidResourceRef", "MissingApiVersion", "ResourceConflict"}
         /\ outcome' \in {"Elapsed", "Requests", "Expansions", "Ok", B!RequestError(q, r, api # None)}
         /\ UNCHANGED <<clock, reading, owned, capture, selected_resources, exchanges, bytes_read>>
         /\ outcome' = "Ok" =>
              /\ ~failed'
              /\ pending' = [request |-> q, resource |-> r, api |-> api # None]
              /\ r = None => UNCHANGED expansions
              /\ r # None => /\ expansions' = expansions + 1
                             /\ expansions + 1 <= MaxExpansions
<1>1. B!RequestError(q, r, api # None) \in
        {"Ok", "PendingResponse", "InvalidResourceRef", "MissingApiVersion", "ResourceConflict"}
  BY DEF B!RequestError
<1>2. UNCHANGED <<clock, reading, owned, capture, selected_resources, exchanges, bytes_read>>
  BY DEF B!RecordRequest, B!budget
<1>3. CASE ~B!Timely /\ B!CheckTimeFails
  BY <1>2, <1>3, TimeFails
<1>4. CASE B!RequestError(q, r, api # None) # "Ok" /\ B!Refuse(B!RequestError(q, r, api # None))
  BY <1>1, <1>2, <1>4 DEF B!Refuse
<1>5. CASE B!Poison("Expansions")
  BY <1>2, <1>5 DEF B!Poison
<1>6. CASE /\ r # None => B!Fits(expansions, 1, MaxExpansions)
           /\ IF r # None THEN B!Inspect(q, r) ELSE UNCHANGED <<expansions, resource_ids, native_refs>>
           /\ B!CountRequest(q, r, api # None)
  <2>1. CASE B!Accept
    BY <1>2, <1>6, <2>1 DEF B!Accept, B!CountRequest, B!Inspect, B!Fits, B!Poison
  <2>2. CASE B!Poison("Requests")
    BY <1>2, <1>6, <2>2 DEF B!Poison
  <2>. QED BY <1>6, <2>1, <2>2 DEF B!CountRequest
<1>. QED BY <1>3, <1>4, <1>5, <1>6 DEF B!RecordRequest

\* What record_selection returns, and what it changes when it succeeds.
LEMMA SelectionOutcome ==
  ASSUME NEW n \in Nat, selected_resources \in Nat, ~failed, B!RecordSelection(n)
  PROVE  /\ outcome' \in {"Elapsed", "SelectedResources", "Ok"}
         /\ UNCHANGED <<clock, requests, expansions, bytes_read, pending, exchanges, resource_ids,
                        native_refs, reading, owned, capture>>
         /\ outcome' = "Ok" => /\ ~failed'
                               /\ selected_resources' = selected_resources + n
                               /\ selected_resources' <= UsizeMax
  BY TimeFails, Limits DEF B!RecordSelection, B!Accept, B!Poison, B!Bumped, B!Fits

\* A response begins to be read, unless the time is up.
LEMMA BeginOutcome ==
  ASSUME ~failed, pending # None, reading = FALSE, B!BeginRead
  PROVE  /\ UNCHANGED <<clock, B!budget, owned, capture>>
         /\ \/ reading' = TRUE /\ ~failed'
            \/ reading' = FALSE /\ outcome' = "Elapsed"
  BY TimeFails DEF B!BeginRead, B!Refuse

\* What recording a response returns, and what it changes when it succeeds.
LEMMA EndOutcome ==
  ASSUME NEW n, NEW reply, ~failed, B!EndRead(n, reply)
  PROVE  /\ outcome' \in {"Elapsed", "Bytes", "Ok"}
         /\ reading' = FALSE
         /\ UNCHANGED <<clock, requests, selected_resources, expansions, resource_ids, native_refs,
                        owned, capture>>
         /\ outcome' = "Ok" =>
              /\ ~failed' /\ pending' = None
              /\ exchanges' = Append(exchanges, [request |-> pending.request,
                                 resource |-> pending.resource, api |-> pending.api,
                                 len |-> n, reply |-> reply])
  BY TimeFails DEF B!EndRead, B!Accept, B!Poison

(***************************************************************************)
(* WalkInv.                                                                *)
(***************************************************************************)
LEMMA WalkInit == Init => WalkInv
<1>. SUFFICES ASSUME Init PROVE WalkInv
  OBVIOUS
<1>. USE DEF Init, B!Init
<1>1. Control
  <2>1. reading = (phase = "read")
    BY Zenon
  <2>2. 0 \in 0 .. MaxExpansions /\ 0 \in 0 .. UsizeMax
    BY Limits
  <2>3. pc \in Early \cup Expanding /\ next_reference = expansions + 1
    BY DEF Early, Expanding
  <2>. QED BY <2>1, <2>2, <2>3 DEF Control
<1>2. Keyed /\ Asked /\ Answered
  BY DEF Keyed, Asked, Answered, Early
<1>. QED BY <1>1, <1>2 DEF WalkInv

\* A walk that returns has nothing left to say.
LEMMA Returning ==
  ASSUME NEW v, v # None, Return(v)
  PROVE  WalkInv'
  BY DEF Return, WalkInv

\* remaining returns one of the errors acquisition knows.
LEMMA RemainingIsResult == RemainingError \in Results
  BY DEF RemainingError, Results

\* Steps that touch neither the budget (but its clock) nor what is left.
LEMMA IdleWalk ==
  ASSUME WalkInv, result = None,
         UNCHANGED <<requests, selected_resources, expansions, bytes_read, pending, exchanges,
                     resource_ids, native_refs, failed, reading, owned, capture>>,
         UNCHANGED <<selector, api, answer, walk, result>>, world' \in Worlds,
         \/ UNCHANGED <<pc, phase>>
         \/ phase = "connect" /\ phase' = "receive" /\ pc' = pc
         \/ pc = "validate" /\ pc' = "version" /\ phase' = phase /\ Len(selector.items) <= MaxSelected
         \/ pc = "finish" /\ pc' = "capture" /\ phase' = phase
  PROVE  WalkInv'
<1>. USE DEF walk
<1>1. Control /\ Keyed /\ Asked /\ Answered
  BY DEF WalkInv
<1>2. Control'
  BY <1>1 DEF Control, Early, Expanding
<1>3. Keyed'
  BY <1>1 DEF Keyed, Early, Control
<1>4. Asked'
  BY <1>1 DEF Asked, Control
<1>5. Answered'
  BY <1>1 DEF Answered
<1>. QED BY <1>2, <1>3, <1>4, <1>5 DEF WalkInv

\* A step that has an effect finds the walk running.
LEMMA StillRunning ==
  ASSUME WalkInv, pc # "done" \/ phase # "send" \/ Running
  PROVE  result = None /\ Control /\ Keyed /\ Asked /\ Answered
  BY DEF WalkInv, Running

\* Time passing keeps the shape of the walk.
LEMMA TickWalk == ASSUME WalkInv, Tick PROVE WalkInv'
  BY StillRunning, IdleWalk DEF Tick, Running, B!Tick, B!budget, daemon, Control

\* So does anything the daemon does to its own objects.
LEMMA DaemonChangesWalk == ASSUME WalkInv, DaemonChanges PROVE WalkInv'
  BY StillRunning, IdleWalk DEF DaemonChanges, Running, budget

\* So does a cancellation.
LEMMA CancelWalk == ASSUME WalkInv, Cancel PROVE WalkInv'
  BY StillRunning, IdleWalk DEF Cancel, Running, budget, daemon, Control

\* The selector's length, once validated, keeps it.
LEMMA ValidateWalk == ASSUME WalkInv, Validate PROVE WalkInv'
<1>1. result = None /\ Control /\ Keyed /\ Asked /\ Answered
  BY StillRunning DEF Validate
<1>2. CASE SelectorError = "Ok"
  <2>1. Len(selector.items) <= MaxSelected
    BY <1>1, <1>2, ItemsFinite, Limits DEF SelectorError, Control
  <2>. QED BY <1>1, <1>2, <2>1, IdleWalk DEF Validate, budget, daemon, Control
<1>3. CASE Return(SelectorError)
  BY <1>3, Returning, NoneIsNone DEF SelectorError, Results
<1>. QED BY <1>2, <1>3 DEF Validate

\* A connection keeps it.
LEMMA ConnectWalk == ASSUME WalkInv, Connect PROVE WalkInv'
<1>1. result = None /\ Control /\ Keyed /\ Asked /\ Answered
  BY StillRunning DEF Connect
<1>2. CASE RemainingError = "Ok"
  BY <1>1, <1>2, IdleWalk DEF Connect, budget, daemon, Control
<1>3. CASE Return(RemainingError)
  BY <1>3, Returning, NoneIsNone, RemainingIsResult
<1>. QED BY <1>2, <1>3 DEF Connect

\* The last check of the time before the capture keeps it.
LEMMA FinishWalk == ASSUME WalkInv, Finish PROVE WalkInv'
<1>1. result = None /\ Control /\ Keyed /\ Asked /\ Answered
  BY StillRunning DEF Finish
<1>2. CASE Goto("capture")
  BY <1>1, <1>2, IdleWalk DEF Finish, Goto, budget, daemon, Control
<1>3. CASE Return(RemainingError)
  BY <1>3, Returning, NoneIsNone, RemainingIsResult
<1>. QED BY <1>2, <1>3 DEF Finish

\* Giving up keeps it: nothing goes on after a result.
LEMMA GiveUpWalk == ASSUME GiveUp PROVE WalkInv'
  BY Returning, NoneIsNone, RemainingIsResult DEF GiveUp

\* A failure of the transport keeps it.
LEMMA TransportFailsWalk == ASSUME TransportFails PROVE WalkInv'
<1>1. PICK error \in Results : Return(error)
  BY DEF TransportFails, Results
<1>. QED BY <1>1, Returning, NoneIsNone

\* Every answer of the budget is a result of acquisition.
LEMMA RecordResults ==
  {"Elapsed", "Requests", "Expansions", "Ok", "PendingResponse", "InvalidResourceRef",
   "MissingApiVersion", "ResourceConflict", "SelectedResources", "Bytes"} \subseteq Results
  BY DEF Results

\* Recording the version, the info or the list request keeps it.
LEMMA PlainWalk ==
  ASSUME WalkInv, NEW at, NEW op, RecordPlain(at, op),
         \/ at = "version" /\ op = "DaemonVersion"
         \/ at = "info" /\ op = "DaemonInfo"
         \/ at = "list" /\ op = "ListContainers"
  PROVE  WalkInv'
<1> DEFINE q == [op |-> op, object |-> None]
<1>1. pc = at /\ phase = "send" /\ Record(q, None) /\ UNCHANGED next_reference
  BY DEF RecordPlain, Record
<1>2. result = None /\ Control /\ Keyed
  BY <1>1, StillRunning DEF Record
<1>3. q = Plain(op)
  BY DEF Plain
<1>. HIDE DEF q
<1>4. B!RecordRequest(q, None, api # None)
  BY <1>1 DEF Record
<1>5. CASE outcome' = "Ok"
  <2>1. phase' = "connect" /\ UNCHANGED <<pc, result, world, selector, api, containers, networks, volumes>>
    BY <1>1, <1>5 DEF Record, daemon
  <2>2. /\ ~failed' /\ UNCHANGED <<reading, owned, capture, selected_resources, expansions>>
        /\ pending' = [request |-> q, resource |-> None, api |-> api # None]
    BY <1>2, <1>4, <1>5, RecordOutcome DEF Control
  <2>3. pending' # None
    <3>1. q \in B!ReadRequest
      BY <1>3, PlainIsRead DEF Reads
    <3>. QED BY <2>2, <3>1, BudgetNone
  <2>4. Control'
    BY <1>1, <1>2, <2>1, <2>2, <2>3 DEF Control, Early, Expanding
  <2>5. Keyed'
    BY <1>2, <2>1 DEF Keyed
  <2>6. Asked' /\ Answered'
    BY <1>1, <1>3, <2>1, <2>2 DEF Asked, Answered
  <2>. QED BY <1>2, <2>1, <2>4, <2>5, <2>6 DEF WalkInv
<1>6. CASE outcome' # "Ok"
  <2>1. outcome' \in Results
    BY <1>2, <1>4, RecordOutcome, RecordResults DEF Control
  <2>. QED BY <1>1, <1>6, <2>1, Returning, NoneIsNone DEF Record
<1>. QED BY <1>5, <1>6

\* Recording an inspection of something that is to be inspected keeps it.
LEMMA InspectWalk ==
  ASSUME WalkInv, NEW kind, NEW id, NEW root, NEW by_name, RecordInspect(kind, id, root, by_name),
         \/ pc = "containers" /\ kind = "Container" /\ id \in containers
         \/ pc = "networks" /\ kind = "Network" /\ id \in DOMAIN networks
         \/ pc = "volumes" /\ kind = "Volume" /\ id \in volumes
  PROVE  WalkInv'
<1> DEFINE q == [op |-> "Inspect", object |-> <<kind, id>>]
<1>1. phase = "send" /\ Record(q, next_reference) /\ next_reference' = next_reference + 1
  BY DEF RecordInspect, Record
<1>2. result = None /\ Control /\ Keyed
  BY StillRunning
<1>3. q = InspectOf(kind, id)
  BY DEF InspectOf
<1>. HIDE DEF q
<1>4. B!RecordRequest(q, next_reference, api # None)
  BY <1>1 DEF Record
<1>5. /\ expansions \in Nat /\ next_reference = expansions + 1
      /\ next_reference \in Nat /\ next_reference # None
  BY <1>2, NoneIsNone, Limits DEF Control
<1>6. CASE outcome' = "Ok"
  <2>1. phase' = "connect" /\ UNCHANGED <<pc, result, world, selector, api, containers, networks, volumes>>
    BY <1>1, <1>6 DEF Record, daemon
  <2>2. /\ ~failed' /\ UNCHANGED <<reading, owned, capture, selected_resources>>
        /\ expansions' = expansions + 1 /\ expansions + 1 <= MaxExpansions
        /\ pending' = [request |-> q, resource |-> next_reference, api |-> api # None]
    BY <1>2, <1>4, <1>5, <1>6, RecordOutcome DEF Control
  <2>3. pending' # None
    <3>1. q \in B!ReadRequest
      BY <1>2, <1>3, InspectIsRead DEF Kinds, Keyed
    <3>2. next_reference \in Refs
      BY <1>5, <2>2, Limits DEF Refs
    <3>. QED BY <2>2, <3>1, <3>2, BudgetNone
  <2>4. Control'
    BY <1>1, <1>2, <1>5, <2>1, <2>2, <2>3, Limits DEF Control, Early, Expanding
  <2>5. Keyed'
    BY <1>2, <2>1 DEF Keyed
  <2>6. Asked' /\ Answered'
    BY <1>1, <1>3, <1>5, <2>1, <2>2 DEF Asked, Answered
  <2>. QED BY <1>2, <2>1, <2>4, <2>5, <2>6 DEF WalkInv
<1>7. CASE outcome' # "Ok"
  <2>1. outcome' \in Results
    BY <1>2, <1>4, RecordOutcome, RecordResults DEF Control
  <2>. QED BY <1>1, <1>7, <2>1, Returning, NoneIsNone DEF Record
<1>. QED BY <1>6, <1>7

\* Sending keeps it, whatever the program counter is at.
LEMMA SendWalk == ASSUME WalkInv, Send PROVE WalkInv'
<1>1. CASE RecordPlain("version", "DaemonVersion")
  BY <1>1, PlainWalk
<1>2. CASE RecordPlain("info", "DaemonInfo")
  BY <1>2, PlainWalk
<1>3. CASE RecordPlain("list", "ListContainers")
  BY <1>3, PlainWalk
<1>4. CASE pc = "containers" /\ \E id \in containers : RecordInspect("Container", id, TRUE, FALSE)
  BY <1>4, InspectWalk
<1>5. CASE /\ pc = "networks"
           /\ \E id \in DOMAIN networks :
                RecordInspect("Network", id, selector.kind = "NetworkIds", networks[id])
  BY <1>5, InspectWalk
<1>6. CASE /\ pc = "volumes"
           /\ \E id \in volumes : RecordInspect("Volume", id, selector.kind = "VolumeNames", FALSE)
  BY <1>6, InspectWalk
<1>. QED BY <1>1, <1>2, <1>3, <1>4, <1>5, <1>6 DEF Send

\* A response that arrives keeps it.
LEMMA ReceiveWalk == ASSUME WalkInv, Receive PROVE WalkInv'
<1>1. result = None /\ Control /\ Keyed /\ Asked
  BY StillRunning DEF Receive
<1>2. phase = "receive" /\ B!BeginRead /\ UNCHANGED <<world, changes, selector, api, walk>>
  BY DEF Receive, daemon
<1>3. PICK n \in BodySizes, r \in Answers(world, pending.request) \cup {Reply(200, b) : b \in BadBodies} :
        answer' = [len |-> n, reply |-> r]
  BY DEF Receive
<1>4. reading = FALSE /\ pending # None /\ ~failed /\ capture = None /\ owned
  BY <1>1, <1>2 DEF Control
<1>5. CASE reading' = TRUE /\ ~failed'
  <2>1. phase' = "read" /\ UNCHANGED <<pc, result>>
    BY <1>5 DEF Receive
  <2>2. UNCHANGED <<B!budget, owned, capture>>
    BY <1>2, <1>4, BeginOutcome
  <2>3. Control'
    BY <1>1, <1>2, <1>5, <2>1, <2>2 DEF Control, B!budget, walk
  <2>4. Keyed' /\ Asked'
    BY <1>1, <1>2, <2>1, <2>2 DEF Keyed, Asked, B!budget, walk
  <2>5. answer'.reply = r /\ pending'.request = pending.request /\ world \in Worlds
    BY <1>1, <1>3, <2>2 DEF B!budget, Control
  <2>6. Answered'
    BY <1>3, <2>5 DEF Answered
  <2>. QED BY <1>1, <2>1, <2>3, <2>4, <2>6 DEF WalkInv
<1>6. CASE reading' = FALSE /\ outcome' = "Elapsed"
  BY <1>6, Returning, NoneIsNone, RecordResults DEF Receive
<1>. QED BY <1>2, <1>4, <1>5, <1>6, BeginOutcome

(***************************************************************************)
(* What a usable answer can be.                                            *)
(***************************************************************************)

\* A 200 that is not a nonsense body comes from a world.
LEMMA Honest ==
  ASSUME WalkInv, Complete, Usable, Body # Malformed
  PROVE  \E w \in Worlds : answer.reply \in Answers(w, pending.request)
<1>1. Answered /\ answer.reply.status = 200
  BY StillRunning DEF Complete, Usable
<1>2. ASSUME NEW b \in BadBodies, answer.reply = Reply(200, b) PROVE FALSE
  BY <1>2, AcquireAssumption DEF Reply, Body
<1>. QED BY <1>1, <1>2 DEF Answered, Complete

\* Where the walk stands when a usable response has been recorded.
LEMMA Completing ==
  ASSUME WalkInv, Complete, Usable
  PROVE  /\ result = None /\ Control /\ Keyed /\ Asked /\ phase = "read"
         /\ ~failed' /\ reading' = FALSE /\ pending' = None
         /\ UNCHANGED <<selected_resources, expansions, resource_ids, native_refs, owned, capture>>
         /\ exchanges' = Append(exchanges, [request |-> pending.request,
                            resource |-> pending.resource, api |-> pending.api,
                            len |-> answer.len, reply |-> answer.reply])
<1>1. result = None /\ Control /\ Keyed /\ Asked /\ phase = "read"
  BY StillRunning DEF Complete
<1>2. ~failed /\ B!EndRead(answer.len, answer.reply) /\ outcome' = "Ok"
  BY <1>1 DEF Complete, Usable, Control
<1>. QED BY <1>1, <1>2, EndOutcome

\* The body of a successful inspection is that of the object in some world.
LEMMA InspectedBody ==
  ASSUME NEW w \in Worlds, NEW kind \in Kinds, NEW id, NEW reply \in Answers(w, InspectOf(kind, id)),
         reply.status = 200
  PROVE  reply.body \in Inspected(w, kind, id)
<1>1. Answers(w, InspectOf(kind, id)) =
        {Reply(200, b) : b \in Inspected(w, kind, id)} \cup
          (IF Inspected(w, kind, id) = {} THEN {Reply(404, None)} ELSE {})
  BY DEF Answers, InspectOf
<1>. QED BY <1>1 DEF Reply

\* The body of a successful list is the list of some world.
LEMMA ListedBody ==
  ASSUME NEW w \in Worlds, NEW reply \in Answers(w, Plain("ListContainers")), reply.status = 200
  PROVE  reply.body = ListBody(w)
<1>1. Answers(w, Plain("ListContainers")) = {Reply(200, ListBody(w))}
  <2>1. Answers(w, Plain("ListContainers")) =
          {Reply(200, b) : b \in {ListBody(w)}} \cup
            (IF {ListBody(w)} = {} THEN {Reply(404, None)} ELSE {})
    BY DEF Answers, Plain
  <2>. QED BY <2>1
<1>. QED BY <1>1 DEF Reply

\* The kinds of selector pick listed containers only.
LEMMA MatchesListed ==
  ASSUME NEW s, s.kind \in ListSelectors, NEW list
  PROVE  Matches(s, list) \subseteq DOMAIN list
<1>1. CASE s.kind = "AllContainers"
  BY <1>1 DEF Matches
<1>2. CASE s.kind = "Discovery"
  BY <1>2 DEF Matches
<1>3. CASE s.kind = "Label"
  BY <1>3 DEF Matches
<1>4. CASE s.kind = "NamePrefix"
  BY <1>4 DEF Matches, Prefixed
<1>5. CASE s.kind = "ContainerNames"
  BY <1>5 DEF Matches, Named
<1>. QED BY <1>1, <1>2, <1>3, <1>4, <1>5 DEF ListSelectors

\* Going on with what is left, once the outstanding request is answered.
LEMMA GoingOn ==
  ASSUME NEW label \in {"containers", "networks", "volumes", "finish"}, Goto(label),
         result = None, Control, api # None, pc # "validate",
         ~failed', reading' = FALSE, pending' = None, UNCHANGED <<expansions, owned, capture>>,
         selected_resources' \in 0 .. UsizeMax, next_reference' = next_reference, UNCHANGED <<daemon, selector, api>>,
         containers' \subseteq NativeIds, volumes' \subseteq NativeIds, DOMAIN networks' \subseteq NativeIds
  PROVE  WalkInv'
<1>1. phase' = "send" /\ pc' = label /\ result' = None
  BY DEF Goto
<1>2. Control'
  BY <1>1 DEF Control, Early, Expanding, daemon
<1>3. Keyed' /\ Asked' /\ Answered'
  BY <1>1 DEF Keyed, Asked, Answered, Early
<1>. QED BY <1>1, <1>2, <1>3 DEF WalkInv

\* A response that cannot be used keeps it.
LEMMA UnusableWalk == ASSUME WalkInv, Unusable PROVE WalkInv'
<1>1. Control /\ B!EndRead(answer.len, answer.reply)
  BY StillRunning DEF Unusable, Complete
<1>2. outcome' \in Results /\ "Status" \in Results
  BY <1>1, EndOutcome, RecordResults DEF Control, Results
<1>. QED BY <1>2, Returning, NoneIsNone DEF Unusable

\* The daemon's version keeps it.
LEMMA GotVersionWalk == ASSUME WalkInv, GotVersion PROVE WalkInv'
<1>1. CASE Return("Version")
  BY <1>1, Returning, NoneIsNone DEF Results
<1>2. CASE Negotiable(Body) /\ api' = Negotiated(Body) /\ Goto("info")
  <2>1. /\ result = None /\ Control /\ Keyed /\ phase = "read" /\ pc = "version" /\ Asked
        /\ ~failed' /\ reading' = FALSE /\ pending' = None
        /\ UNCHANGED <<selected_resources, expansions, owned, capture>>
    BY Completing DEF GotVersion
  <2>2. api' # None
    <3>1. PICK w \in Worlds : answer.reply \in Answers(w, pending.request)
      BY <1>2, Honest DEF Negotiable, GotVersion
    <3>2. pending.request = Plain("DaemonVersion")
      BY <2>1 DEF Asked, Control
    <3>3. Answers(w, Plain("DaemonVersion")) \subseteq
            {Reply(200, [max |-> v.max, min |-> v.min, release |-> w.version.release,
                     fields |-> w.version.fields]) : v \in VersionBodies}
              \cup {Reply(404, None)}
      BY DEF Answers, Plain
    <3>4. answer.reply.status = 200
      BY DEF GotVersion, Usable
    <3>5. PICK v \in VersionBodies :
            answer.reply = Reply(200, [max |-> v.max, min |-> v.min, release |-> w.version.release,
                                   fields |-> w.version.fields])
      <4>1. answer.reply # Reply(404, None)
        BY <3>4 DEF Reply
      <4>. QED BY <3>1, <3>2, <3>3, <4>1
    <3>6. Body.max \in Nat
      BY <3>5, AcquireAssumption DEF Body, Reply
    <3>. QED BY <1>2, <3>6, NoneIsNone DEF Negotiated, MaxKnown
  <2>3. phase' = "send" /\ pc' = "info" /\ result' = None
    BY <1>2, <2>1 DEF Goto
  <2>4. UNCHANGED <<world, selector, walk>>
    BY DEF GotVersion, daemon
  <2>5. Control'
    BY <2>1, <2>2, <2>3, <2>4 DEF Control, Early, Expanding, walk
  <2>6. Keyed' /\ Asked' /\ Answered'
    BY <2>1, <2>3, <2>4 DEF Keyed, Asked, Answered, Early, walk
  <2>. QED BY <2>3, <2>5, <2>6 DEF WalkInv
<1>. QED BY <1>1, <1>2 DEF GotVersion

\* The daemon's info keeps it.
LEMMA GotInfoWalk == ASSUME WalkInv, GotInfo PROVE WalkInv'
<1>1. /\ result = None /\ Control /\ Keyed /\ phase = "read" /\ pc = "info"
      /\ ~failed' /\ reading' = FALSE /\ pending' = None
      /\ UNCHANGED <<selected_resources, expansions, owned, capture>>
  BY Completing DEF GotInfo
<1>2. /\ phase' = "send" /\ result' = None
      /\ \/ selector.kind \in ListSelectors /\ pc' = "list"
         \/ pc' = "select"
  BY <1>1 DEF GotInfo, Goto
<1>3. UNCHANGED <<world, selector, walk, api>>
  BY DEF GotInfo, daemon
<1>4. Control'
  BY <1>1, <1>2, <1>3 DEF Control, Early, Expanding, walk
<1>5. Keyed'
  <2>1. containers = {} /\ containers' = {}
    BY <1>1, <1>3 DEF Keyed, Early, walk
  <2>2. IsFiniteSet({}) /\ Cardinality({}) <= UsizeMax
    BY FS_EmptySet, Limits
  <2>. QED BY <1>1, <1>2, <1>3, <2>1, <2>2 DEF Keyed, Early, walk
<1>6. Asked' /\ Answered'
  BY <1>1, <1>2 DEF Asked, Answered
<1>. QED BY <1>2, <1>4, <1>5, <1>6 DEF WalkInv

\* The daemon's list keeps it.
LEMMA GotListWalk == ASSUME WalkInv, GotList PROVE WalkInv'
<1>1. CASE Return("Shape") \/ Return("Selection")
  BY <1>1, Returning, NoneIsNone DEF Results
<1>2. CASE Body # Malformed /\ containers' = Matches(selector, Body) /\ Goto("select")
  <2>1. /\ result = None /\ Control /\ Keyed /\ Asked /\ phase = "read" /\ pc = "list"
        /\ ~failed' /\ reading' = FALSE /\ pending' = None
        /\ UNCHANGED <<selected_resources, expansions, owned, capture>>
    BY Completing DEF GotList
  <2>2. PICK w \in Worlds : Body = ListBody(w)
    <3>1. PICK w \in Worlds : answer.reply \in Answers(w, pending.request)
      BY <1>2, Honest DEF GotList
    <3>2. pending.request = Plain("ListContainers")
      BY <2>1 DEF Asked, Control
    <3>. QED BY <3>1, <3>2, ListedBody DEF GotList, Usable, Body
  <2>3. containers' \subseteq DOMAIN w.containers /\ selector.kind \in ListSelectors
    BY <1>2, <2>1, <2>2, MatchesListed DEF ListBody, Control
  <2>4. /\ containers' \subseteq NativeIds /\ IsFiniteSet(containers')
        /\ Cardinality(containers') <= UsizeMax
    <3>1. /\ IsFiniteSet(DOMAIN w.containers) /\ Cardinality(DOMAIN w.containers) <= UsizeMax
          /\ DOMAIN w.containers \subseteq NativeIds
      BY AcquireAssumption
    <3>2. /\ IsFiniteSet(containers') /\ Cardinality(containers') <= Cardinality(DOMAIN w.containers)
      BY <2>3, <3>1, FS_Subset
    <3>3. Cardinality(containers') \in Nat /\ Cardinality(DOMAIN w.containers) \in Nat
      BY <3>1, <3>2, FS_CardinalityType
    <3>. QED BY <2>3, <3>1, <3>2, <3>3, Limits
  <2>5. /\ phase' = "send" /\ result' = None /\ pc' = "select"
        /\ UNCHANGED <<world, selector, api, networks, volumes, next_reference>>
    BY <1>2, <2>1 DEF GotList, Goto, daemon
  <2>6. Control'
    BY <2>1, <2>5 DEF Control, Early, Expanding
  <2>7. Keyed'
    BY <2>1, <2>3, <2>4, <2>5 DEF Keyed, Early
  <2>8. Asked' /\ Answered'
    BY <2>1, <2>5 DEF Asked, Answered
  <2>. QED BY <2>5, <2>6, <2>7, <2>8 DEF WalkInv
<1>. QED BY <1>1, <1>2 DEF GotList

\* The walk goes on at the first kind that has something left.
LEMMA OnwardGoes ==
  ASSUME NEW cs, NEW nets, NEW vols, Onward(cs, nets, vols)
  PROVE  /\ \E label \in {"containers", "networks", "volumes", "finish"} : Goto(label)
         /\ pc' \in {"containers", "networks", "volumes", "finish"}
         /\ pc' # "containers" <=> cs = {}
         /\ pc' \notin {"containers", "networks"} => DOMAIN nets = {}
         /\ pc' = "finish" => vols = {}
         /\ phase' = "send" /\ UNCHANGED result
<1>1. CASE cs # {}
  BY <1>1 DEF Onward, Goto
<1>2. CASE cs = {} /\ DOMAIN nets # {}
  BY <1>2 DEF Onward, Goto
<1>3. CASE cs = {} /\ DOMAIN nets = {} /\ vols # {}
  BY <1>3 DEF Onward, Goto
<1>4. CASE cs = {} /\ DOMAIN nets = {} /\ vols = {}
  BY <1>4 DEF Onward, Goto
<1>. QED BY <1>1, <1>2, <1>3, <1>4

\* The caller's exact keys; a selector has items of one kind only.
Items(kind) == IF selector.kind = kind THEN Range(selector.items) ELSE {}
Counted == Cardinality(containers \cup Items("ContainerIds")) + Cardinality(Items("NetworkIds"))
             + Cardinality(Items("VolumeNames"))

\* Select, its local definitions expanded.
LEMMA Selecting ==
  ASSUME Select
  PROVE  /\ pc = "select" /\ B!RecordSelection(Counted)
         /\ containers' = containers \cup Items("ContainerIds")
         /\ networks' = [k \in Items("NetworkIds") |-> FALSE] /\ volumes' = Items("VolumeNames")
         /\ outcome' = "Ok" => Onward(containers', networks', volumes')
         /\ outcome' # "Ok" => Return(outcome')
         /\ UNCHANGED <<daemon, cancelled, selector, answer, api, next_reference, selected_roots,
                        network_name_fallbacks, inspected_network_ids>>
<1>1. Cardinality(DOMAIN [k \in Items("NetworkIds") |-> FALSE]) = Cardinality(Items("NetworkIds"))
  OBVIOUS
<1>. QED BY <1>1 DEF Select, SetOf, Items, Counted

\* What a selection counts fits the counter, and it selects finitely many objects.
LEMMA CountFits ==
  ASSUME WalkInv, Select
  PROVE  /\ Counted \in 0 .. UsizeMax
         /\ IsFiniteSet(containers') /\ IsFiniteSet(DOMAIN networks') /\ IsFiniteSet(volumes')
<1>1. Control /\ Keyed /\ pc = "select" /\ selector \in Selectors
  BY StillRunning, Selecting DEF Control
<1>2. IsFiniteSet(containers) /\ Cardinality(containers) \in 0 .. UsizeMax
  BY <1>1, FS_CardinalityType, Limits DEF Keyed
<1>3. IsFiniteSet({}) /\ Cardinality({}) = 0
  BY FS_EmptySet
<1>4. \A kind : IsFiniteSet(Items(kind)) /\ Cardinality(Items(kind)) \in Nat
                  /\ Cardinality(Items(kind)) <= Len(selector.items)
  BY <1>1, <1>3, ItemsFinite, FS_CardinalityType DEF Items
<1> DEFINE Few(kind) == /\ Cardinality(Items(kind)) \in Nat
                        /\ Cardinality(Items(kind)) <= Len(selector.items)
<1>10. Few("ContainerIds") /\ Few("NetworkIds") /\ Few("VolumeNames")
  BY <1>4
<1>5. ~(\E k \in ListSelectors : k \in {"ContainerIds", "NetworkIds", "VolumeNames"})
  BY DEF ListSelectors
<1>6. selector.kind \notin ListSelectors => containers = {}
  BY <1>1 DEF Keyed
<1>7. Len(selector.items) <= MaxSelected /\ Len(selector.items) \in Nat
  BY <1>1, ItemsFinite DEF Control
<1>8. Counted \in 0 .. UsizeMax
  <2>1. CASE selector.kind = "ContainerIds"
    <3>1. containers \cup Items("ContainerIds") = Items("ContainerIds")
      BY <1>5, <1>6, <2>1
    <3>2. Cardinality(Items("NetworkIds")) = 0 /\ Cardinality(Items("VolumeNames")) = 0
      BY <1>3, <2>1 DEF Items
    <3>3. Counted = Cardinality(Items("ContainerIds")) + 0 + 0
      BY <3>1, <3>2 DEF Counted
    <3>. QED BY <1>10, <1>7, <3>3, Limits
  <2>2. CASE selector.kind = "NetworkIds"
    <3>1. containers \cup Items("ContainerIds") = {}
      BY <1>5, <1>6, <2>2 DEF Items
    <3>2. Cardinality(Items("VolumeNames")) = 0
      BY <1>3, <2>2 DEF Items
    <3>3. Counted = 0 + Cardinality(Items("NetworkIds")) + 0
      BY <1>3, <3>1, <3>2 DEF Counted
    <3>. QED BY <1>10, <1>7, <3>3, Limits
  <2>3. CASE selector.kind = "VolumeNames"
    <3>1. containers \cup Items("ContainerIds") = {}
      BY <1>5, <1>6, <2>3 DEF Items
    <3>2. Cardinality(Items("NetworkIds")) = 0
      BY <1>3, <2>3 DEF Items
    <3>3. Counted = 0 + 0 + Cardinality(Items("VolumeNames"))
      BY <1>3, <3>1, <3>2 DEF Counted
    <3>. QED BY <1>10, <1>7, <3>3, Limits
  <2>4. CASE selector.kind \notin {"ContainerIds", "NetworkIds", "VolumeNames"}
    <3>1. containers \cup Items("ContainerIds") = containers
      BY <2>4 DEF Items
    <3>2. Cardinality(Items("NetworkIds")) = 0 /\ Cardinality(Items("VolumeNames")) = 0
      BY <1>3, <2>4 DEF Items
    <3>. QED BY <1>2, <3>1, <3>2, Limits DEF Counted
  <2>. QED BY <2>1, <2>2, <2>3, <2>4
<1>9. DOMAIN networks' = Items("NetworkIds")
  BY Selecting
<1>. QED BY <1>2, <1>4, <1>8, <1>9, Selecting, FS_Union

\* The selection keeps the shape of the walk.
LEMMA SelectWalk == ASSUME WalkInv, Select PROVE WalkInv'
<1>1. result = None /\ Control /\ Keyed /\ pc = "select" /\ selector \in Selectors
  BY StillRunning, Selecting DEF Control
<1>2. /\ outcome' \in {"Elapsed", "SelectedResources", "Ok"}
      /\ UNCHANGED <<expansions, pending, reading, owned, capture>>
      /\ outcome' = "Ok" => /\ ~failed' /\ selected_resources' <= UsizeMax
                            /\ selected_resources' = selected_resources + Counted
  <2>1. Counted \in Nat /\ selected_resources \in Nat /\ ~failed /\ B!RecordSelection(Counted)
    BY <1>1, CountFits, Selecting, Limits DEF Control
  <2>. QED BY <2>1, SelectionOutcome
<1>3. CASE outcome' = "Ok"
  <2>1. PICK label \in {"containers", "networks", "volumes", "finish"} : Goto(label)
    BY <1>3, Selecting, OnwardGoes
  <2>2. \A kind : kind \in {"ContainerIds", "NetworkIds", "VolumeNames"} => Items(kind) \subseteq NativeIds
    <3>1. ~(\E k \in ListSelectors : k \in {"ContainerIds", "NetworkIds", "VolumeNames"})
      BY DEF ListSelectors
    <3>. QED BY <1>1, <3>1, AcquireAssumption DEF Items
  <2>3. containers' \subseteq NativeIds /\ DOMAIN networks' \subseteq NativeIds /\ volumes' \subseteq NativeIds
    BY <1>1, <2>2, Selecting DEF Keyed
  <2>4. selected_resources' \in 0 .. UsizeMax
    BY <1>1, <1>2, <1>3, CountFits, Limits DEF Control
  <2>. QED BY <1>1, <1>2, <1>3, <2>1, <2>3, <2>4, Selecting, GoingOn DEF Control
<1>4. CASE outcome' # "Ok"
  BY <1>2, <1>4, Selecting, Returning, NoneIsNone, RecordResults
<1>. QED BY <1>3, <1>4

\* A container's body is that of the container asked about, in some world.
LEMMA ContainerBodyOf ==
  ASSUME WalkInv, GotContainer, Body # Malformed
  PROVE  \E w \in Worlds : \E c \in DOMAIN w.containers :
            Body = ContainerBody(w, c) /\ c = pending.request.object[2]
<1>1. PICK w \in Worlds : answer.reply \in Answers(w, pending.request)
  BY Honest DEF GotContainer
<1>2. PICK id \in containers : pending.request = InspectOf("Container", id)
  BY Completing DEF GotContainer, Asked, Control
<1>3. answer.reply.status = 200
  BY DEF GotContainer, Usable
<1>4. Body \in Inspected(w, "Container", id)
  BY <1>1, <1>2, <1>3, InspectedBody DEF Kinds, Body
<1>5. pending.request.object[2] = id
  BY <1>2 DEF InspectOf
<1>. QED BY <1>4, <1>5 DEF Inspected

\* What a container mentions can be looked up.
LEMMA MentionsKeyed ==
  ASSUME NEW w \in Worlds, NEW c \in DOMAIN w.containers
  PROVE  /\ {m.key : m \in Mentions(ContainerBody(w, c))} \subseteq NativeIds
         /\ ContainerBody(w, c).vols \subseteq NativeIds
  BY AcquireAssumption DEF Mentions, ContainerBody

\* An inspected container keeps it.
LEMMA GotContainerWalk == ASSUME WalkInv, GotContainer PROVE WalkInv'
<1>1. /\ result = None /\ Control /\ Keyed /\ phase = "read" /\ pc = "containers" /\ api # None
      /\ ~failed' /\ reading' = FALSE /\ pending' = None
      /\ UNCHANGED <<selected_resources, expansions, owned, capture>>
  BY Completing DEF GotContainer, Control
<1>2. CASE Return("Shape") \/ Return("Expansions")
  BY <1>2, Returning, NoneIsNone DEF Results
<1>3. CASE /\ Identity("Id", pending.request.object[2])
           /\ networks' = Merge(networks, Mentions(Body)) /\ volumes' = volumes \cup Body.vols
           /\ Onward(containers', networks', volumes')
  <2>1. PICK w \in Worlds : \E c \in DOMAIN w.containers : Body = ContainerBody(w, c)
    BY <1>3, ContainerBodyOf DEF Identity
  <2>2. DOMAIN networks' = DOMAIN networks \cup {m.key : m \in Mentions(Body)}
    BY <1>3 DEF Merge
  <2>3. containers' \subseteq NativeIds /\ DOMAIN networks' \subseteq NativeIds /\ volumes' \subseteq NativeIds
    BY <1>1, <1>3, <2>1, <2>2, MentionsKeyed DEF Keyed, GotContainer
  <2>4. PICK label \in {"containers", "networks", "volumes", "finish"} : Goto(label)
    BY <1>3, OnwardGoes
  <2>5. selected_resources' \in 0 .. UsizeMax /\ next_reference' = next_reference
        /\ UNCHANGED <<daemon, selector, api>>
    BY <1>1 DEF Control, GotContainer
  <2>. QED BY <1>1, <2>3, <2>4, <2>5, GoingOn
<1>. QED BY <1>2, <1>3 DEF GotContainer

\* An inspected network keeps it.
LEMMA GotNetworkWalk == ASSUME WalkInv, GotNetwork PROVE WalkInv'
<1>1. /\ result = None /\ Control /\ Keyed /\ phase = "read" /\ pc = "networks" /\ api # None
      /\ ~failed' /\ reading' = FALSE /\ pending' = None
      /\ UNCHANGED <<selected_resources, expansions, owned, capture>>
  BY Completing DEF GotNetwork, Control
<1>2. CASE Return("Shape")
  BY <1>2, Returning, NoneIsNone DEF Results
<1>3. CASE \E left : Onward({}, left, volumes)
  <2>1. DOMAIN networks' = DOMAIN networks \ {pending.request.object[2]}
    BY DEF GotNetwork
  <2>2. containers' \subseteq NativeIds /\ DOMAIN networks' \subseteq NativeIds /\ volumes' \subseteq NativeIds
    BY <1>1, <2>1 DEF Keyed, GotNetwork
  <2>3. PICK label \in {"containers", "networks", "volumes", "finish"} : Goto(label)
    BY <1>3, OnwardGoes
  <2>4. selected_resources' \in 0 .. UsizeMax /\ next_reference' = next_reference
        /\ UNCHANGED <<daemon, selector, api>>
    BY <1>1 DEF Control, GotNetwork
  <2>. QED BY <1>1, <2>2, <2>3, <2>4, GoingOn
<1>. QED BY <1>2, <1>3 DEF GotNetwork

\* An inspected volume keeps it.
LEMMA GotVolumeWalk == ASSUME WalkInv, GotVolume PROVE WalkInv'
<1>1. /\ result = None /\ Control /\ Keyed /\ phase = "read" /\ pc = "volumes" /\ api # None
      /\ ~failed' /\ reading' = FALSE /\ pending' = None
      /\ UNCHANGED <<selected_resources, expansions, owned, capture>>
  BY Completing DEF GotVolume, Control
<1>2. CASE Return("Shape")
  BY <1>2, Returning, NoneIsNone DEF Results
<1>3. CASE Onward({}, networks, volumes')
  <2>1. containers' \subseteq NativeIds /\ DOMAIN networks' \subseteq NativeIds /\ volumes' \subseteq NativeIds
    BY <1>1 DEF Keyed, GotVolume
  <2>2. PICK label \in {"containers", "networks", "volumes", "finish"} : Goto(label)
    BY <1>3, OnwardGoes
  <2>3. selected_resources' \in 0 .. UsizeMax /\ next_reference' = next_reference
        /\ UNCHANGED <<daemon, selector, api>>
    BY <1>1 DEF Control, GotVolume
  <2>. QED BY <1>1, <2>1, <2>2, <2>3, GoingOn
<1>. QED BY <1>2, <1>3 DEF GotVolume

\* Taking the capture keeps it.
LEMMA TakeCaptureWalk == ASSUME TakeCapture PROVE WalkInv'
<1>1. outcome' \in Results
  BY DEF TakeCapture, B!IntoCapture, B!CaptureError, Results
<1>. QED BY <1>1, Returning, NoneIsNone DEF TakeCapture

\* Every step of acquisition keeps the shape of the walk.
LEMMA WalkStep == WalkInv /\ [Next]_vars => WalkInv'
<1>. SUFFICES ASSUME WalkInv, [Next]_vars PROVE WalkInv'
  OBVIOUS
<1>1. CASE Next
  BY <1>1, ValidateWalk, SendWalk, ConnectWalk, GiveUpWalk, UnusableWalk, GotVersionWalk,
     GotInfoWalk, GotListWalk, SelectWalk, GotContainerWalk, GotNetworkWalk, GotVolumeWalk,
     FinishWalk, TakeCaptureWalk, TransportFailsWalk, ReceiveWalk, TickWalk, DaemonChangesWalk,
     CancelWalk DEF Next, Own
<1>2. CASE UNCHANGED vars
  BY <1>2 DEF vars, budget, daemon, walk, WalkInv, Control, Keyed, Asked, Answered
<1>. QED BY <1>1, <1>2

\* The walk has its shape throughout.
LEMMA WalkInvariance == Spec => []WalkInv
  BY WalkInit, WalkStep, PTL DEF Spec

(***************************************************************************)
(* The walk's use of its budget is one of the budget's behaviours.         *)
(***************************************************************************)
LEMMA AnswerIsReply ==
  ASSUME WalkInv, Complete
  PROVE  answer.reply \in Replies
<1>1. Answered /\ Asked /\ Keyed /\ Control /\ phase = "read"
  BY StillRunning DEF Complete
<1>2. pending # None
  BY <1>1 DEF Control
<1>3. pending.request \in Requests
  <2>1. CASE \E op \in Reads : pending.request = Plain(op)
    BY <2>1 DEF Requests, Plain
  <2>2. CASE \E kind \in Kinds, id \in NativeIds : pending.request = InspectOf(kind, id)
    BY <2>2 DEF Requests, InspectOf, Objects
  <2>. QED BY <1>1, <1>2, <2>1, <2>2 DEF Asked, Keyed, Reads, Kinds
<1>4. ASSUME NEW w \in Worlds, answer.reply \in Answers(w, pending.request)
      PROVE  answer.reply \in Replies
  BY <1>3, <1>4 DEF Replies
<1>5. ASSUME NEW b \in BadBodies, answer.reply = Reply(200, b)
      PROVE  answer.reply \in Replies
  BY <1>5 DEF Replies
<1>. QED BY <1>1, <1>4, <1>5 DEF Answered

\* A request the walk records is a step of the budget.
LEMMA RecordIsBudgetStep ==
  ASSUME NEW q \in B!ReadRequest, NEW r \in Refs \cup {None}, Record(q, r)
  PROVE  B!Next
<1>1. B!RecordRequest(q, r, api # None) /\ (api # None) \in BOOLEAN
  BY DEF Record
<1>. QED BY <1>1 DEF B!Next

\* Sending is a step of the budget.
LEMMA SendIsBudgetStep == ASSUME WalkInv, Send PROVE B!Next
<1>1. CASE \E at, op : op \in Reads /\ RecordPlain(at, op)
  <2>1. PICK at, op : op \in Reads /\ RecordPlain(at, op)
    BY <1>1
  <2>2. Plain(op) \in B!ReadRequest /\ Record(Plain(op), None)
    BY <2>1, PlainIsRead DEF RecordPlain, Plain
  <2>. QED BY <2>2, RecordIsBudgetStep
<1>2. CASE \E kind \in Kinds : \E id, root, by_name :
             id \in Todo(kind) /\ RecordInspect(kind, id, root, by_name)
  <2>0. PICK kind \in Kinds : \E id, root, by_name :
             id \in Todo(kind) /\ RecordInspect(kind, id, root, by_name)
    BY <1>2
  <2>1. PICK id, root, by_name :
             id \in Todo(kind) /\ RecordInspect(kind, id, root, by_name)
    BY <2>0
  <2>2. Keyed /\ Control
    BY <2>1, StillRunning DEF RecordInspect, Record
  <2>3. id \in NativeIds /\ next_reference \in Refs
    BY <2>1, <2>2, Limits DEF Keyed, Control, Todo, Refs
  <2>4. InspectOf(kind, id) \in B!ReadRequest /\ Record(InspectOf(kind, id), next_reference)
    BY <2>1, <2>3, InspectIsRead DEF RecordInspect, InspectOf
  <2>. QED BY <2>3, <2>4, RecordIsBudgetStep
<1>3. CASE pc = "containers" /\ \E id \in containers : RecordInspect("Container", id, TRUE, FALSE)
  BY <1>2, <1>3 DEF Todo, Kinds
<1>4. CASE \E id \in DOMAIN networks :
             RecordInspect("Network", id, selector.kind = "NetworkIds", networks[id])
  BY <1>2, <1>4 DEF Todo, Kinds
<1>5. CASE \E id \in volumes : RecordInspect("Volume", id, selector.kind = "VolumeNames", FALSE)
  BY <1>2, <1>5 DEF Todo, Kinds
<1>. QED BY <1>1, <1>3, <1>4, <1>5 DEF Send, Reads

\* Recording a response is a step of the budget.
LEMMA CompleteIsBudgetStep == ASSUME WalkInv, Complete PROVE B!Next
<1>1. answer.reply \in Replies /\ B!EndRead(answer.len, answer.reply)
  BY AnswerIsReply DEF Complete
<1>2. answer.len \in 0 .. B!Allowance + 1
  BY <1>1 DEF B!EndRead
<1>. QED BY <1>1, <1>2 DEF B!Next

\* Every step of the walk is a step of the budget, or none.
LEMMA BudgetStep == WalkInv /\ [Next]_vars => [B!Next]_(B!vars)
<1>. SUFFICES ASSUME WalkInv, [Next]_vars PROVE [B!Next]_(B!vars)
  OBVIOUS
<1>1. CASE Tick
  BY <1>1 DEF Tick, B!Next
<1>2. CASE Send
  BY <1>2, SendIsBudgetStep
<1>3. CASE Receive
  BY <1>3 DEF Receive, B!Next
<1>4. CASE Complete
  BY <1>4, CompleteIsBudgetStep
<1>5. CASE Select
  <2>1. Counted \in 0 .. UsizeMax /\ B!RecordSelection(Counted)
    BY <1>5, CountFits, Selecting
  <2>. QED BY <2>1 DEF B!Next
<1>6. CASE TakeCapture
  BY <1>6 DEF TakeCapture, B!Next
<1>7. CASE UNCHANGED budget
  BY <1>7 DEF budget, B!vars, B!budget
<1>8. CASE UNCHANGED vars
  BY <1>7, <1>8 DEF vars
<1>. QED
  BY <1>1, <1>2, <1>3, <1>4, <1>5, <1>6, <1>7, <1>8
     DEF Next, Own, Unusable, GotVersion, GotInfo, GotList, GotContainer, GotNetwork, GotVolume,
         Validate, Connect, GiveUp, Finish, TransportFails, DaemonChanges, Cancel

(***************************************************************************)
(* acquire drives its Budget only as the budget's own contract allows: the *)
(* calls it makes are record_request, record_selection, read_response and  *)
(* into_capture, each in a state and with arguments the budget's model     *)
(* already covers, so what is proved of the budget holds inside the walk.  *)
(***************************************************************************)
THEOREM WalkUsesBudget == Spec => B!Spec
<1>1. Init => B!Init
  BY DEF Init
<1>. QED BY <1>1, WalkInvariance, BudgetStep, PTL DEF Spec, B!Spec

\* The two instances of Budget start alike.
LEMMA SameInit == B!Init <=> BP!Init
  BY DEF B!Init, BP!Init

\* The two instances of Budget step alike.
LEMMA SameNext == [B!Next]_(B!vars) <=> [BP!Next]_(BP!vars)
  BY DEF B!Next, BP!Next, B!Tick, BP!Tick, B!RecordRequest, BP!RecordRequest, B!RecordSelection, BP!RecordSelection,
    B!RecordExpansion, BP!RecordExpansion, B!BeginRead, BP!BeginRead, B!ReaderFails, BP!ReaderFails, B!EndRead, BP!EndRead,
    B!IntoCapture, BP!IntoCapture, B!Callable, BP!Callable, B!Timely, BP!Timely, B!Late, BP!Late, B!CheckTimeFails, BP!CheckTimeFails,
    B!Accept, BP!Accept, B!Refuse, BP!Refuse, B!Poison, BP!Poison, B!Bumped, BP!Bumped, B!Fits, BP!Fits,
    B!Conflicting, BP!Conflicting, B!RequestError, BP!RequestError, B!Inspect, BP!Inspect, B!CountRequest, BP!CountRequest,
    B!Smaller, BP!Smaller, B!Allowance, BP!Allowance, B!Accounted, BP!Accounted, B!CaptureError, BP!CaptureError,
    B!Counts, BP!Counts, B!TotalLen, BP!TotalLen, B!budget, BP!budget, B!ReadRequest, BP!ReadRequest, B!vars, BP!vars

\* Inside a walk the budget's invariant holds.
BudgetHolds == BP!BudgetInv /\ BP!AccountingNeverFails
\* What is proved of a budget holds of the budget of the walk.
LEMMA BudgetInvariance == Spec => []BudgetHolds
<1>1. B!Spec => BP!Spec
  BY SameInit, SameNext, PTL DEF B!Spec, BP!Spec
<1>2. BP!Spec => []BP!BudgetInv /\ []BP!AccountingNeverFails
  BY BudgetLimits, BP!BudgetInvariant, BP!CapturesAreAccounted, PTL
<1>. QED BY <1>1, <1>2, WalkUsesBudget, PTL DEF BudgetHolds

(***************************************************************************)
(* LedgerInv.                                                              *)
(***************************************************************************)
Ledgers == WalkInv /\ BudgetHolds /\ LedgerInv

\* The kind of the roots is the selector's kind.
LEMMA RootKinds ==
  /\ selector.kind = "NetworkIds" <=> RootKind = "Network"
  /\ selector.kind = "VolumeNames" <=> RootKind = "Volume"
  /\ RootKind \in Kinds
<1>1. CASE selector.kind = "NetworkIds"
  BY Zenon, <1>1 DEF RootKind, Kinds
<1>2. CASE selector.kind = "VolumeNames"
  BY Zenon, <1>2 DEF RootKind, Kinds
<1>3. CASE selector.kind # "NetworkIds" /\ selector.kind # "VolumeNames"
  <2>1. RootKind = "Container"
    BY Zenon, <1>3 DEF RootKind
  <2>. QED BY <1>3, <2>1 DEF Kinds
<1>. QED BY <1>1, <1>2, <1>3

\* It stays what it is while the selector does.
LEMMA RootStays ==
  ASSUME selector' = selector
  PROVE  RootKind' = RootKind /\ RootReason' = RootReason
<1>1. RootKind' = RootKind
  BY Zenon DEF RootKind
<1>2. RootReason' = RootReason
  BY Zenon, <1>1 DEF RootReason, Reason
<1>. QED BY <1>1, <1>2

\* The root of a reference is the one of the kind of the roots.
LEMMA RootIsThe == \A reference : Root(reference, RootKind) = TheRoot(reference)
  BY DEF Root, TheRoot, RootReason

\* Nothing is captured yet, and the result is an ordinary one.
LEMMA ReturnLedger ==
  ASSUME NEW v, v # None, v \notin InternalErrors, Return(v), capture' = None
  PROVE  LedgerInv'
<1>1. Captured' = {}
  BY DEF Captured
<1>2. \A kind \in Kinds : Inspections(kind)' = {}
  BY <1>1 DEF Inspections
<1>3. Final'
  BY <1>1, <1>2 DEF Final, CaptureIsClosed, FallbackMeansNameOnly, CaptureIdentified, NoAliasCaptured,
     RootsMatchSelection, Kinds
<1>4. NoInternalError' /\ result' # None
  BY DEF Return, NoInternalError
<1>. QED BY <1>3, <1>4 DEF LedgerInv

\* A walk that goes on needs the ledger only.
LEMMA RunLedger ==
  ASSUME Ledger', result' = None, capture' = None
  PROVE  LedgerInv'
<1>1. Captured' = {}
  BY DEF Captured
<1>2. \A kind \in Kinds : Inspections(kind)' = {}
  BY <1>1 DEF Inspections
<1>3. Final'
  BY <1>1, <1>2 DEF Final, CaptureIsClosed, FallbackMeansNameOnly, CaptureIdentified, NoAliasCaptured,
     RootsMatchSelection, Kinds
<1>4. NoInternalError'
  <2>1. None \notin InternalErrors
    BY NoneIsNone DEF InternalErrors, Results
  <2>. QED BY <2>1 DEF NoInternalError
<1>. QED BY <1>3, <1>4 DEF LedgerInv

\* While it runs, everything is known of the state.
LEMMA Known ==
  ASSUME Ledgers, pc # "done" \/ phase # "send" \/ Running
  PROVE  /\ result = None /\ Control /\ Keyed /\ Asked /\ Ledger
         /\ BP!BudgetInv /\ ~failed /\ capture = None
  BY StillRunning DEF Ledgers, LedgerInv, BudgetHolds, Control

\* The ledger is empty at first.
LEMMA LedgerInit == Init => LedgerInv
<1>. SUFFICES ASSUME Init PROVE LedgerInv
  OBVIOUS
<1>. USE DEF Init, B!Init
<1>1. Completed = {} /\ Range(exchanges) = {} /\ \A kind : ReadOf(kind) = {} /\ ReadKeys(kind) = {}
  BY DEF Completed, Range, ReadOf, ReadKeys
<1>2. ~Inspecting /\ Frontier = 1
  BY DEF Inspecting, Frontier
<1>3. Numbered /\ Staged /\ Listed
  BY <1>1, <1>2 DEF Numbered, Staged, Listed, Early, Expanding
<1>4. Closing /\ Marked /\ Identified
  BY <1>1, <1>2 DEF Closing, Marked, Identified, Expanding
<1>5. Rooted
  BY <1>1, <1>2 DEF Rooted, Expanding, Wanted, Todo
<1>6. Captured = {} /\ \A kind : Inspections(kind) = {}
  BY DEF Captured, Inspections
<1>7. Final
  BY <1>6 DEF Final, CaptureIsClosed, FallbackMeansNameOnly, CaptureIdentified, NoAliasCaptured,
     RootsMatchSelection
<1>8. NoInternalError
  <2>1. None \notin InternalErrors
    BY NoneIsNone DEF InternalErrors, Results
  <2>. QED BY <2>1 DEF NoInternalError
<1>. QED BY <1>3, <1>4, <1>5, <1>7, <1>8 DEF LedgerInv, Ledger

\* Steps that leave the ledger's variables alone.
LEMMA CalmLedger ==
  ASSUME Ledger, result' = None, capture' = None,
         UNCHANGED <<selected_resources, expansions, exchanges, selector, walk>>,
         Inspecting' = Inspecting, Inspecting => pending' = pending,
         \/ pc' = pc
         \/ pc = "validate" /\ pc' = "version"
         \/ pc = "finish" /\ pc' = "capture"
  PROVE  LedgerInv'
<1>. USE DEF walk
<1>1. /\ Completed' = Completed /\ Range(exchanges)' = Range(exchanges)
      /\ Met' = Met /\ Inspecting' = Inspecting /\ Frontier' = Frontier
      /\ RootKind' = RootKind /\ RootReason' = RootReason
  BY RootStays DEF Completed, Inspecting, Frontier, Met, ReadOf
<1>2. Numbered' /\ Staged' /\ Listed'
  BY <1>1 DEF Ledger, Numbered, Staged, Listed, Todo, Wanted, ReadKeys, ReadOf, Early, Expanding
<1>3. Closing' /\ Marked' /\ Identified'
  BY <1>1 DEF Ledger, Closing, Marked, Identified, Named_, NameOnly, Wanted, ReadKeys, ReadOf, Todo,
     Chosen, SetOf, Expanding
<1>4. Rooted'
  BY <1>1 DEF Ledger, Rooted, TheRoot, Wanted, ReadKeys, ReadOf, Todo, Expanding
<1>5. Ledger'
  BY <1>2, <1>3, <1>4 DEF Ledger
<1>. QED BY <1>5, RunLedger

\* A step that touches none of what the ledger is about keeps it.
LEMMA IdleLedger ==
  ASSUME Ledger, result' = None, capture' = None,
         UNCHANGED <<selected_resources, expansions, pending, exchanges, selector, walk>>,
         \/ pc' = pc
         \/ pc = "validate" /\ pc' = "version"
         \/ pc = "finish" /\ pc' = "capture"
  PROVE  LedgerInv'
<1>1. Inspecting' = Inspecting
  BY DEF Inspecting
<1>. QED BY <1>1, CalmLedger

\* Time passing keeps the ledger.
LEMMA TickLedger == ASSUME Ledgers, Tick PROVE LedgerInv'
<1>1. result = None /\ Ledger /\ capture = None
  BY Known DEF Tick
<1>. QED BY <1>1, IdleLedger DEF Tick, B!Tick, B!budget

\* So does anything the daemon does to its own objects.
LEMMA DaemonChangesLedger == ASSUME Ledgers, DaemonChanges PROVE LedgerInv'
  BY Known, IdleLedger DEF DaemonChanges, budget

\* So does a cancellation.
LEMMA CancelLedger == ASSUME Ledgers, Cancel PROVE LedgerInv'
  BY Known, IdleLedger DEF Cancel, budget

\* remaining never returns an internal error.
LEMMA RemainingIsOrdinary == RemainingError \notin InternalErrors
  BY DEF RemainingError, InternalErrors

\* The selector's validation keeps the ledger.
LEMMA ValidateLedger == ASSUME Ledgers, Validate PROVE LedgerInv'
<1>1. result = None /\ Ledger /\ capture = None /\ capture' = capture
  BY Known DEF Validate, budget
<1>2. CASE SelectorError = "Ok"
  BY <1>1, <1>2, IdleLedger DEF Validate, budget
<1>3. CASE Return(SelectorError)
  <2>1. SelectorError \in Results /\ SelectorError \notin InternalErrors
    BY DEF SelectorError, Results, InternalErrors
  <2>. QED BY <1>1, <1>3, <2>1, ReturnLedger, NoneIsNone
<1>. QED BY <1>2, <1>3 DEF Validate

\* A connection keeps it.
LEMMA ConnectLedger == ASSUME Ledgers, Connect PROVE LedgerInv'
<1>1. result = None /\ Ledger /\ capture = None /\ capture' = capture
  BY Known DEF Connect, budget
<1>2. CASE RemainingError = "Ok"
  BY <1>1, <1>2, IdleLedger DEF Connect, budget
<1>3. CASE Return(RemainingError)
  BY <1>1, <1>3, ReturnLedger, NoneIsNone, RemainingIsResult, RemainingIsOrdinary
<1>. QED BY <1>2, <1>3 DEF Connect

\* The last check of the time keeps it.
LEMMA FinishLedger == ASSUME Ledgers, Finish PROVE LedgerInv'
<1>1. result = None /\ Ledger /\ capture = None /\ capture' = capture
  BY Known DEF Finish, budget
<1>2. CASE Goto("capture")
  BY <1>1, <1>2, IdleLedger DEF Finish, Goto, budget
<1>3. CASE Return(RemainingError)
  BY <1>1, <1>3, ReturnLedger, NoneIsNone, RemainingIsResult, RemainingIsOrdinary
<1>. QED BY <1>2, <1>3 DEF Finish

\* Giving up keeps it, and is no internal error.
LEMMA GiveUpLedger == ASSUME Ledgers, GiveUp PROVE LedgerInv'
<1>1. capture' = None
  BY Known DEF GiveUp, budget
<1>. QED BY <1>1, ReturnLedger, NoneIsNone, RemainingIsResult, RemainingIsOrdinary DEF GiveUp

\* A failure of the transport keeps it, and is no internal error.
LEMMA TransportFailsLedger == ASSUME Ledgers, TransportFails PROVE LedgerInv'
<1>1. PICK error \in {"Io", "Protocol", "Bytes"} : Return(error)
  BY DEF TransportFails
<1>2. capture' = None
  BY Known DEF TransportFails, budget
<1>3. error \in Results /\ error \notin InternalErrors
  BY DEF Results, InternalErrors
<1>. QED BY <1>1, <1>2, <1>3, ReturnLedger, NoneIsNone

\* A response that arrives keeps it.
LEMMA ReceiveLedger == ASSUME Ledgers, Receive PROVE LedgerInv'
<1>1. result = None /\ Control /\ Ledger /\ capture = None
  BY Known DEF Receive
<1>2. reading = FALSE /\ pending # None /\ ~failed /\ B!BeginRead
  BY <1>1 DEF Control, Receive
<1>3. UNCHANGED <<B!budget, capture>>
  BY <1>2, BeginOutcome
<1>4. CASE reading' = TRUE
  BY <1>1, <1>3, <1>4, IdleLedger DEF Receive, B!budget
<1>5. CASE reading' = FALSE /\ outcome' = "Elapsed"
  BY <1>1, <1>3, <1>5, ReturnLedger, NoneIsNone DEF Receive, Results, InternalErrors
<1>. QED BY <1>2, <1>4, <1>5, BeginOutcome

\* A response that cannot be used keeps it, and is no internal error.
LEMMA UnusableLedger == ASSUME Ledgers, Unusable PROVE LedgerInv'
<1>1. Control /\ B!EndRead(answer.len, answer.reply) /\ capture = None /\ ~failed
  BY Known DEF Unusable, Complete
<1>2. outcome' \in {"Elapsed", "Bytes", "Ok"} /\ capture' = None
  BY <1>1, EndOutcome
<1>3. {"Elapsed", "Bytes", "Status"} \subseteq Results \ InternalErrors
  BY DEF Results, InternalErrors
<1>4. CASE outcome' = "Ok"
  BY <1>2, <1>3, <1>4, ReturnLedger, NoneIsNone DEF Unusable
<1>5. CASE outcome' # "Ok"
  BY <1>2, <1>3, <1>5, ReturnLedger, NoneIsNone DEF Unusable
<1>. QED BY <1>4, <1>5

(***************************************************************************)
(* Recording a request.                                                    *)
(***************************************************************************)

\* A key that is still to be inspected, and the next reference, are unbound.
LEMMA Unbound ==
  ASSUME Ledgers, result = None, pending = None, NEW kind \in Kinds, NEW id \in Todo(kind)
  PROVE  /\ resource_ids[next_reference] = None
         /\ native_refs[<<kind, id>>] = None
<1>1. Control /\ Keyed /\ Ledger /\ BP!BudgetInv /\ ~failed
  BY Known DEF Running
<1>2. id \in NativeIds /\ <<kind, id>> \in Objects
  BY <1>1 DEF Keyed, Todo, Objects, Kinds
<1>3. next_reference \in Refs \cup {MaxRefs + 1} /\ next_reference \in Refs
  BY <1>1, Limits DEF Control, Refs
<1>4. Frontier = next_reference
  BY <1>1 DEF Frontier, Inspecting, Control
<1>5. BP!Recorded = Range(exchanges)
  BY DEF BP!Recorded, Range, BP!Range
<1>6. ASSUME NEW r \in Refs, resource_ids[r] # None
      PROVE  \E e \in Completed : e.resource = r /\ resource_ids[r] = e.request.object
  <2>1. PICK e \in Range(exchanges) : e.resource = r
    BY <1>1, <1>5, <1>6 DEF BP!BudgetInv, BP!BindingsAreRead
  <2>2. r # None
    BY NoneIsNone, Limits DEF Refs
  <2>3. e.request.op = "Inspect" /\ resource_ids[e.resource] = e.request.object
    BY <1>1, <1>5, <2>1, <2>2 DEF BP!BudgetInv, BP!ReadsBound
  <2>. QED BY <2>1, <2>3 DEF Completed
<1>7. resource_ids[next_reference] = None
  <2>1. SUFFICES ASSUME resource_ids[next_reference] # None PROVE FALSE
    OBVIOUS
  <2>2. PICK e \in Completed : e.resource = next_reference
    BY <1>3, <1>6, <2>1
  <2>3. next_reference \in 1 .. next_reference - 1
    BY <1>1, <1>4, <2>2 DEF Ledger, Numbered
  <2>. QED BY <1>1, <2>3 DEF Control
<1>8. native_refs[<<kind, id>>] = None
  <2>1. SUFFICES ASSUME native_refs[<<kind, id>>] # None PROVE FALSE
    OBVIOUS
  <2> DEFINE r == native_refs[<<kind, id>>]
  <2>2. r \in Refs
    BY <1>1, <1>2, <2>1 DEF BP!BudgetInv, BP!TypeOK
  <2>3. resource_ids[r] = <<kind, id>> /\ <<kind, id>> # None
    BY <1>1, <1>2, <2>2, BudgetLimits DEF BP!BudgetInv, BP!OneToOne, BP!BudgetAssumption
  <2>. HIDE DEF r
  <2>4. resource_ids[r] # None
    BY <2>3
  <2>5. PICK e \in Completed : resource_ids[r] = e.request.object
    BY <1>6, <2>2, <2>4
  <2>6. e.request.object[1] = kind /\ e.request.object[2] = id
    BY <2>3, <2>5
  <2>. QED BY <1>1, <2>6 DEF Ledger, Numbered
<1>. QED BY <1>7, <1>8

\* A request that is refused for a limit or for time ends the walk.
LEMMA RefusedLedger ==
  ASSUME Ledgers, NEW q, NEW r, Record(q, r), outcome' # "Ok",
         B!RequestError(q, r, api # None) = "Ok"
  PROVE  LedgerInv'
<1>1. ~failed /\ capture = None /\ B!RecordRequest(q, r, api # None)
  BY Known DEF Record
<1>2. outcome' \in {"Elapsed", "Requests", "Expansions"} /\ capture' = None
  BY <1>1, RecordOutcome
<1>3. outcome' \in Results /\ outcome' \notin InternalErrors
  BY <1>2 DEF Results, InternalErrors
<1>. QED BY <1>2, <1>3, ReturnLedger, NoneIsNone DEF Record

\* Recording the version, the info or the list request keeps it.
LEMMA PlainLedger ==
  ASSUME Ledgers, NEW at, NEW op, RecordPlain(at, op),
         \/ at = "version" /\ op = "DaemonVersion"
         \/ at = "info" /\ op = "DaemonInfo"
         \/ at = "list" /\ op = "ListContainers"
  PROVE  LedgerInv'
<1> DEFINE q == [op |-> op, object |-> None]
<1>1. pc = at /\ phase = "send" /\ Record(q, None)
      /\ UNCHANGED <<next_reference, selected_roots, network_name_fallbacks>>
  BY DEF RecordPlain, Record
<1>2. result = None /\ Control /\ Ledger /\ ~failed /\ capture = None
  BY <1>1, Known DEF Record
<1>3. q.op = op /\ op # "Inspect"
  OBVIOUS
<1>. HIDE DEF q
<1>4. B!RequestError(q, None, api # None) = "Ok"
  BY <1>1, <1>2, <1>3 DEF B!RequestError, B!Conflicting, Control
<1>5. B!RecordRequest(q, None, api # None)
  BY <1>1 DEF Record
<1>6. CASE outcome' = "Ok"
  <2>1. /\ UNCHANGED <<capture, selected_resources, exchanges, expansions>>
        /\ pending' = [request |-> q, resource |-> None, api |-> api # None]
    BY <1>2, <1>5, <1>6, RecordOutcome
  <2>2. Inspecting' = FALSE /\ Inspecting = FALSE
    BY <1>1, <1>2, <1>3, <2>1 DEF Inspecting, Control
  <2>3. UNCHANGED <<pc, result, selector, walk>>
    BY <1>1, <1>6 DEF Record, walk
  <2>. QED BY <1>2, <2>1, <2>2, <2>3, CalmLedger
<1>. QED BY <1>1, <1>4, <1>6, RefusedLedger

\* Recording an inspection keeps it: the budget knows the object under no reference yet.
LEMMA InspectLedger ==
  ASSUME Ledgers, NEW kind \in Kinds, NEW id \in Todo(kind), NEW root, NEW by_name,
         RecordInspect(kind, id, root, by_name),
         root <=> kind = RootKind, by_name <=> pc = "networks" /\ networks[id],
         \/ pc = "containers" /\ kind = "Container"
         \/ pc = "networks" /\ kind = "Network"
         \/ pc = "volumes" /\ kind = "Volume"
  PROVE  LedgerInv'
<1> DEFINE q == [op |-> "Inspect", object |-> <<kind, id>>]
<1>1. /\ phase = "send" /\ Record(q, next_reference) /\ next_reference' = next_reference + 1
      /\ selected_roots' = selected_roots \cup (IF root THEN {Root(next_reference, kind)} ELSE {})
      /\ network_name_fallbacks' = network_name_fallbacks \cup (IF by_name THEN {next_reference} ELSE {})
  BY DEF RecordInspect, Record
<1>2. result = None /\ Control /\ Ledger /\ ~failed /\ capture = None /\ pending = None
  BY <1>1, Known DEF Record, Control
<1>3. q.op = "Inspect" /\ q.object = <<kind, id>>
  OBVIOUS
<1>. HIDE DEF q
<1>4. /\ expansions \in Nat /\ next_reference = expansions + 1
      /\ next_reference \in Nat /\ next_reference # None
  BY <1>2, NoneIsNone, Limits DEF Control
<1>5. B!RequestError(q, next_reference, api # None) = "Ok"
  <2>1. resource_ids[next_reference] = None /\ native_refs[q.object] = None
    BY <1>2, <1>3, Unbound
  <2>2. api # None
    BY <1>2 DEF Control, Expanding
  <2>. QED BY <1>2, <1>3, <1>4, <2>1, <2>2 DEF B!RequestError, B!Conflicting
<1>6. B!RecordRequest(q, next_reference, api # None)
  BY <1>1 DEF Record
<1>7. CASE outcome' = "Ok"
  <2>1. /\ UNCHANGED <<capture, selected_resources, exchanges>> /\ expansions' = expansions + 1
        /\ pending' = [request |-> q, resource |-> next_reference, api |-> api # None]
    BY <1>2, <1>4, <1>6, <1>7, RecordOutcome
  <2>2. UNCHANGED <<pc, result, selector, containers, networks, volumes, inspected_network_ids>>
    BY <1>1, <1>7 DEF Record
  <2>3. pending' # None
    <3>1. WalkInv' /\ result' = None /\ phase' = "connect"
      BY <1>1, <1>2, <1>7, InspectWalk DEF Record, Ledgers, Todo, Kinds
    <3>. QED BY <3>1 DEF WalkInv, Control
  <2>4. Inspecting' /\ pending'.request.object = <<kind, id>> /\ ~Inspecting
    BY <1>2, <1>3, <2>1, <2>3 DEF Inspecting
  <2>5. /\ Completed' = Completed /\ Range(exchanges)' = Range(exchanges)
        /\ Met' = Met /\ Frontier' = Frontier /\ Frontier = expansions + 1
        /\ RootKind' = RootKind /\ RootReason' = RootReason
    BY <2>1, <2>2, <2>4, RootStays DEF Completed, Frontier, Met, ReadOf
  <2>6. \A e \in Completed : e.resource \in network_name_fallbacks' <=> e.resource \in network_name_fallbacks
    BY <1>1, <1>2, <1>4, <2>5 DEF Ledger, Numbered
  <2>7. Numbered' /\ Staged' /\ Listed'
    BY <1>2, <2>1, <2>2, <2>5 DEF Ledger, Numbered, Staged, Listed, Todo, Wanted, ReadKeys, ReadOf, Early,
       Expanding
  <2>8. Closing'
    BY <1>2, <2>1, <2>2, <2>5 DEF Ledger, Closing, NameOnly, Wanted, ReadKeys, ReadOf, Todo, Chosen,
       SetOf, Expanding
  <2>9. Marked'
    <3>1. network_name_fallbacks' \subseteq 1 .. expansions'
      BY <1>1, <1>2, <1>4, <2>1 DEF Ledger, Marked
    <3>2. expansions' \notin network_name_fallbacks
      BY <1>2, <1>4, <2>1 DEF Ledger, Marked
    <3>3. expansions' \in network_name_fallbacks' <=> by_name
      BY <1>1, <1>4, <2>1, <3>2
    <3>4. \A e \in Completed' :
             e.resource \in network_name_fallbacks' <=>
               e.request.object[1] = "Network" /\ NameOnly(e.request.object[2])'
      <4>1. SUFFICES ASSUME NEW e \in Completed
                     PROVE  e.resource \in network_name_fallbacks <=>
                              e.request.object[1] = "Network" /\ NameOnly(e.request.object[2])'
        BY <2>5, <2>6
      <4>2. NameOnly(e.request.object[2])' <=> NameOnly(e.request.object[2])
        BY <2>2, <2>5 DEF NameOnly, Chosen, SetOf
      <4>. QED BY <1>2, <4>2 DEF Ledger, Marked
    <3>5. (pc' = "networks" /\ networks'[pending'.request.object[2]]) <=> by_name
      <4>1. pending'.request.object[2] = id
        BY <2>4
      <4>. QED BY Zenon, <2>2, <4>1
    <3>. QED BY <3>1, <3>3, <3>4, <3>5 DEF Marked
  <2>10. Identified'
    BY <1>2, <2>2, <2>5, <2>6 DEF Ledger, Identified, Named_, ReadOf
  <2>11. Rooted'
    <3>1. selected_roots = {TheRoot(e.resource) : e \in ReadOf(RootKind)}
      BY <1>2, <2>4 DEF Ledger, Rooted
    <3>2. selected_roots' = selected_roots \cup (IF kind = RootKind THEN {TheRoot(expansions')} ELSE {})
      BY <1>1, <1>4, <2>1, RootIsThe
    <3>3. (Inspecting' /\ pending'.request.object[1] = RootKind') <=> kind = RootKind
      BY <2>4, <2>5
    <3>4. /\ TheRoot(expansions)' = TheRoot(expansions')
          /\ {TheRoot(e.resource) : e \in ReadOf(RootKind)}' = {TheRoot(e.resource) : e \in ReadOf(RootKind)}
      BY <2>5 DEF TheRoot, ReadOf
    <3>5. Wanted(RootKind)' = Wanted(RootKind) /\ Wanted("Container")' = Wanted("Container")
      BY <2>2, <2>5 DEF Wanted, ReadKeys, ReadOf, Todo
    <3>. QED BY <1>2, <2>1, <2>2, <2>5, <3>1, <3>2, <3>3, <3>4, <3>5 DEF Ledger, Rooted
  <2>12. Ledger'
    BY <2>7, <2>8, <2>9, <2>10, <2>11 DEF Ledger
  <2>. QED BY <1>2, <2>1, <2>2, <2>12, RunLedger
<1>. QED BY <1>1, <1>5, <1>7, RefusedLedger

\* Sending keeps the ledger, whatever the program counter is at.
LEMMA SendLedger == ASSUME Ledgers, Send PROVE LedgerInv'
<1>1. CASE RecordPlain("version", "DaemonVersion") \/ RecordPlain("info", "DaemonInfo")
             \/ RecordPlain("list", "ListContainers")
  BY <1>1, PlainLedger
<1>2. CASE pc = "containers" /\ \E id \in containers : RecordInspect("Container", id, TRUE, FALSE)
  <2>1. PICK id \in containers : RecordInspect("Container", id, TRUE, FALSE)
    BY <1>2
  <2>2. Rooted
    BY <1>2, Known DEF Ledger
  <2>3. id \in Todo("Container") /\ "Container" \in Kinds
    BY DEF Todo, Kinds
  <2>4. RootKind = "Container"
    BY <2>2, <2>3 DEF Rooted, Wanted
  <2>. QED BY <1>2, <2>1, <2>3, <2>4, InspectLedger
<1>3. CASE /\ pc = "networks"
           /\ \E id \in DOMAIN networks :
                RecordInspect("Network", id, selector.kind = "NetworkIds", networks[id])
  <2>1. PICK id \in DOMAIN networks :
                RecordInspect("Network", id, selector.kind = "NetworkIds", networks[id])
    BY <1>3
  <2>2. id \in Todo("Network") /\ "Network" \in Kinds
    BY DEF Todo, Kinds
  <2>3. networks[id] <=> pc = "networks" /\ networks[id]
    BY Zenon, <1>3
  <2>4. (selector.kind = "NetworkIds") <=> "Network" = RootKind
    BY RootKinds
  <2> DEFINE root == selector.kind = "NetworkIds"
  <2> DEFINE by_name == networks[id]
  <2>5. /\ RecordInspect("Network", id, root, by_name)
        /\ root <=> "Network" = RootKind
        /\ by_name <=> pc = "networks" /\ networks[id]
    BY <2>1, <2>3, <2>4
  <2>. HIDE DEF root, by_name
  <2>. QED BY <1>3, <2>2, <2>5, InspectLedger
<1>4. CASE /\ pc = "volumes"
           /\ \E id \in volumes : RecordInspect("Volume", id, selector.kind = "VolumeNames", FALSE)
  <2>1. PICK id \in volumes : RecordInspect("Volume", id, selector.kind = "VolumeNames", FALSE)
    BY <1>4
  <2>2. id \in Todo("Volume") /\ "Volume" \in Kinds
    BY DEF Todo, Kinds
  <2>3. (selector.kind = "VolumeNames") <=> "Volume" = RootKind
    BY RootKinds
  <2>. QED BY <1>4, <2>1, <2>2, <2>3, InspectLedger
<1>. QED BY <1>1, <1>2, <1>3, <1>4 DEF Send

(***************************************************************************)
(* Taking an answer in.                                                    *)
(***************************************************************************)
\* The exchange a usable answer completes.
Exchanged == [request |-> pending.request, resource |-> pending.resource, api |-> pending.api,
              len |-> answer.len, reply |-> answer.reply]

\* A usable response adds one exchange to the ledger.
LEMMA AnsweredExchange ==
  ASSUME Ledgers, Complete, Usable
  PROVE  /\ Range(exchanges)' = Range(exchanges) \cup {Exchanged}
         /\ exchanges' # <<>>
         /\ result = None /\ Control /\ Keyed /\ Asked /\ Ledger /\ capture' = None
         /\ UNCHANGED <<expansions, selected_resources>> /\ pending # None /\ ~Inspecting'
<1>1. result = None /\ Control /\ Keyed /\ Asked /\ Ledger /\ BP!BudgetInv /\ phase = "read"
  BY Known DEF Complete
<1>2. /\ exchanges' = Append(exchanges, Exchanged) /\ pending' = None
      /\ UNCHANGED <<expansions, selected_resources, capture>>
  BY Completing DEF Exchanged, Ledgers
<1>3. exchanges \in Seq(BP!Exchange)
  BY <1>1 DEF BP!BudgetInv, BP!TypeOK
<1>4. /\ Len(exchanges') = Len(exchanges) + 1 /\ Len(exchanges) \in Nat
      /\ \A i \in 1 .. Len(exchanges) : exchanges'[i] = exchanges[i]
      /\ exchanges'[Len(exchanges) + 1] = Exchanged
      /\ DOMAIN exchanges = 1 .. Len(exchanges) /\ DOMAIN exchanges' = 1 .. Len(exchanges) + 1
  BY <1>2, <1>3
<1>5. Range(exchanges)' = Range(exchanges) \cup {Exchanged}
  <2>. HIDE DEF Exchanged
  <2>1. Range(exchanges)' = {exchanges'[i] : i \in 1 .. Len(exchanges) + 1}
    BY <1>4 DEF Range
  <2>2. Range(exchanges) = {exchanges[i] : i \in 1 .. Len(exchanges)}
    BY <1>4 DEF Range
  <2>3. 1 .. Len(exchanges) + 1 = (1 .. Len(exchanges)) \cup {Len(exchanges) + 1}
    BY <1>4
  <2>. QED BY <1>4, <2>1, <2>2, <2>3
<1>6. exchanges' # <<>>
  BY <1>4
<1>. QED BY <1>1, <1>2, <1>5, <1>6 DEF Control, Inspecting

\* A plain read changes none of the inspections.
LEMMA PlainAnswer ==
  ASSUME Ledgers, Complete, Usable, pc \in {"version", "info", "list"}
  PROVE  /\ Completed' = {} /\ Completed = {} /\ Frontier' = 1 /\ Frontier = 1
         /\ Exchanged.request = Plain(IF pc = "version" THEN "DaemonVersion"
                                      ELSE IF pc = "info" THEN "DaemonInfo" ELSE "ListContainers")
         /\ ~Inspecting
<1>1. /\ Range(exchanges)' = Range(exchanges) \cup {Exchanged}
      /\ Control /\ Asked /\ Ledger /\ pending # None /\ ~Inspecting' /\ expansions' = expansions
  BY AnsweredExchange
<1>2. Exchanged.request = pending.request
  BY DEF Exchanged
<1>. HIDE DEF Exchanged
<1>3. Exchanged.request = Plain(IF pc = "version" THEN "DaemonVersion"
                                      ELSE IF pc = "info" THEN "DaemonInfo" ELSE "ListContainers")
  BY <1>1, <1>2 DEF Asked
<1>4. Exchanged.request.op # "Inspect"
  BY <1>3 DEF Plain
<1>5. Completed = {} /\ expansions = 0
  BY <1>1 DEF Ledger, Staged, Early
<1>6. Completed' = {}
  BY <1>1, <1>4, <1>5 DEF Completed
<1>. QED BY <1>1, <1>2, <1>3, <1>4, <1>5, <1>6 DEF Frontier, Inspecting

\* Before the selection is counted there is little to say.
LEMMA EarlyLedger ==
  ASSUME Completed' = {}, Frontier' = 1, ~Inspecting', pc' \in {"info", "list", "select"}, exchanges' # <<>>,
         expansions' = 0, selected_resources' = 0, selected_roots' = {}, network_name_fallbacks' = {},
         inspected_network_ids' = {}, RootKind' # "Container" => containers' = {}, Listed'
  PROVE  Ledger'
<1>1. (\A kind \in Kinds : ReadOf(kind)' = {} /\ ReadKeys(kind)' = {}) /\ ReadOf(RootKind)' = {}
  BY DEF ReadOf, ReadKeys
<1>2. Numbered'
  BY DEF Numbered
<1>3. Staged'
  BY DEF Staged, Early, Expanding
<1>4. Closing' /\ Marked' /\ Identified'
  BY <1>1 DEF Closing, Marked, Identified, Expanding, Kinds
<1>5. Rooted'
  BY <1>1 DEF Rooted, Expanding, Wanted, Todo, Kinds
<1>. QED BY <1>2, <1>3, <1>4, <1>5 DEF Ledger

\* Before the list has been read nothing has been inspected.
LEMMA UnlistedYet ==
  ASSUME Ledgers, Complete, Usable, pc \in {"version", "info"}
  PROVE  Listed'
<1>1. Range(exchanges)' = Range(exchanges) \cup {Exchanged} /\ Ledger
  BY AnsweredExchange
<1>2. Exchanged.request.op # "ListContainers"
  BY PlainAnswer DEF Plain
<1>. HIDE DEF Exchanged
<1>3. \A e \in Range(exchanges) : e.request.op # "ListContainers"
  BY <1>1 DEF Ledger, Listed, Early
<1>. QED BY <1>1, <1>2, <1>3 DEF Listed

\* The daemon's version keeps the ledger.
LEMMA GotVersionLedger == ASSUME Ledgers, GotVersion PROVE LedgerInv'
<1>1. /\ exchanges' # <<>> /\ result = None /\ Keyed /\ Ledger /\ capture' = None
      /\ UNCHANGED <<expansions, selected_resources>> /\ ~Inspecting'
  BY AnsweredExchange DEF GotVersion
<1>2. CASE Return("Version")
  BY <1>1, <1>2, ReturnLedger, NoneIsNone DEF Results, InternalErrors
<1>3. CASE Goto("info")
  <2>1. pc' = "info" /\ result' = None /\ UNCHANGED walk
    BY <1>1, <1>3 DEF Goto, GotVersion
  <2>2. containers = {} /\ pc = "version"
    BY <1>1 DEF Keyed, Early, GotVersion
  <2>3. Completed' = {} /\ Frontier' = 1 /\ Listed'
    BY <2>2, PlainAnswer, UnlistedYet DEF GotVersion
  <2>4. Ledger'
    BY <1>1, <2>1, <2>2, <2>3, EarlyLedger DEF Ledger, Staged, Early, walk
  <2>. QED BY <1>1, <2>1, <2>4, RunLedger
<1>. QED BY <1>2, <1>3 DEF GotVersion

\* The daemon's info keeps it.
LEMMA GotInfoLedger == ASSUME Ledgers, GotInfo PROVE LedgerInv'
<1>1. /\ exchanges' # <<>> /\ result = None /\ Keyed /\ Ledger /\ capture' = None
      /\ UNCHANGED <<expansions, selected_resources>> /\ ~Inspecting'
  BY AnsweredExchange DEF GotInfo
<1>2. pc' \in {"list", "select"} /\ result' = None /\ UNCHANGED walk
  BY <1>1 DEF Goto, GotInfo
<1>3. containers = {} /\ pc = "info"
  BY <1>1 DEF Keyed, Early, GotInfo
<1>4. Completed' = {} /\ Frontier' = 1 /\ Listed'
  BY <1>3, PlainAnswer, UnlistedYet DEF GotInfo
<1>5. Ledger'
  BY <1>1, <1>2, <1>3, <1>4, EarlyLedger DEF Ledger, Staged, Early, walk
<1>. QED BY <1>1, <1>2, <1>5, RunLedger

\* The daemon's list keeps it.
LEMMA GotListLedger == ASSUME Ledgers, GotList PROVE LedgerInv'
<1>1. /\ exchanges' # <<>> /\ result = None /\ Control /\ Keyed /\ Ledger /\ capture' = None
      /\ UNCHANGED <<expansions, selected_resources>> /\ ~Inspecting' /\ pc = "list"
      /\ Range(exchanges)' = Range(exchanges) \cup {Exchanged}
  BY AnsweredExchange DEF GotList
<1>2. CASE Return("Shape") \/ Return("Selection")
  BY <1>1, <1>2, ReturnLedger, NoneIsNone DEF Results, InternalErrors
<1>3. CASE containers' = Matches(selector, Body) /\ Goto("select")
  <2>1. /\ pc' = "select" /\ result' = None
        /\ UNCHANGED <<selector, selected_roots, network_name_fallbacks, inspected_network_ids>>
    BY <1>1, <1>3 DEF Goto, GotList
  <2>2. Completed' = {} /\ Frontier' = 1
    BY <1>1, PlainAnswer DEF GotList
  <2>3. selector.kind \in ListSelectors
    BY <1>1 DEF Control
  <2>4. RootKind' = "Container"
    <3>1. selector.kind # "NetworkIds" /\ selector.kind # "VolumeNames"
      BY <2>3 DEF ListSelectors
    <3>. QED BY <2>1, <3>1, RootKinds, RootStays DEF Kinds
  <2>5. Listed'
    <3>1. \A e \in Range(exchanges) : e.request.op # "ListContainers"
      BY <1>1 DEF Ledger, Listed, Early
    <3>2. Exchanged.reply.body = Body
      BY DEF Exchanged, Body
    <3>. HIDE DEF Exchanged
    <3>3. Wanted("Container")' = containers'
      BY <2>2 DEF Wanted, ReadKeys, ReadOf, Todo
    <3>4. selector' = selector /\ pc' \notin Early \ {"select"}
      BY <2>1
    <3>. QED BY <1>1, <1>3, <2>3, <3>1, <3>2, <3>3, <3>4 DEF Listed
  <2>6. Ledger'
    BY <1>1, <2>1, <2>2, <2>4, <2>5, EarlyLedger DEF Ledger, Staged, Early
  <2>. QED BY <1>1, <2>1, <2>6, RunLedger
<1>. QED BY <1>2, <1>3 DEF GotList

(***************************************************************************)
(* Counting the selection.                                                 *)
(***************************************************************************)

\* What is counted is what there is to do about the roots.
LEMMA CountedRoots ==
  ASSUME Ledgers, Select
  PROVE  /\ Counted = Cardinality(Todo(RootKind)') /\ IsFiniteSet(Todo(RootKind)')
         /\ RootKind # "Container" => containers' = {}
<1>1. /\ Keyed /\ pc = "select"
      /\ containers' = containers \cup Items("ContainerIds")
      /\ networks' = [k \in Items("NetworkIds") |-> FALSE] /\ volumes' = Items("VolumeNames")
      /\ selector' = selector /\ Ledger
  BY Known, Selecting
<1>2. Cardinality({}) = 0 /\ IsFiniteSet({})
  BY FS_EmptySet
<1>3. /\ IsFiniteSet(containers') /\ IsFiniteSet(DOMAIN networks') /\ IsFiniteSet(volumes')
  BY CountFits DEF Ledgers
<1>4. ~(\E k \in ListSelectors : k \in {"ContainerIds", "NetworkIds", "VolumeNames"})
  BY DEF ListSelectors
<1>5. selector.kind \notin ListSelectors => containers = {}
  BY <1>1 DEF Keyed
<1>6. RootKind' = RootKind
  BY <1>1, RootStays
<1>7. DOMAIN networks' = Items("NetworkIds")
  BY <1>1
<1>8. Cardinality(containers') \in Nat /\ Cardinality(DOMAIN networks') \in Nat
      /\ Cardinality(volumes') \in Nat
  BY <1>3, FS_CardinalityType
<1>9. Counted = Cardinality(containers') + Cardinality(DOMAIN networks') + Cardinality(volumes')
  BY <1>1, <1>7 DEF Counted
<1>10. CASE RootKind = "Network"
  <2>1. selector.kind = "NetworkIds"
    BY <1>10, RootKinds
  <2>2. containers' = {} /\ volumes' = {} /\ Todo(RootKind)' = DOMAIN networks'
    BY <1>1, <1>4, <1>5, <1>6, <1>10, <2>1 DEF Items, Todo
  <2>. QED BY <1>2, <1>3, <1>8, <1>9, <2>2
<1>11. CASE RootKind = "Volume"
  <2>1. selector.kind = "VolumeNames"
    BY <1>11, RootKinds
  <2>2. containers' = {} /\ DOMAIN networks' = {} /\ Todo(RootKind)' = volumes'
    BY <1>1, <1>4, <1>5, <1>6, <1>7, <1>11, <2>1 DEF Items, Todo
  <2>. QED BY <1>2, <1>3, <1>8, <1>9, <2>2
<1>12. CASE RootKind = "Container"
  <2>1. selector.kind # "NetworkIds" /\ selector.kind # "VolumeNames"
    BY <1>12, RootKinds
  <2>2. volumes' = {} /\ DOMAIN networks' = {} /\ Todo(RootKind)' = containers'
    BY <1>1, <1>6, <1>7, <1>12, <2>1 DEF Items, Todo
  <2>. QED BY <1>2, <1>3, <1>8, <1>9, <1>12, <2>2
<1>. QED BY <1>10, <1>11, <1>12, RootKinds DEF Kinds

\* The selection keeps it: what was selected is what there is to inspect.
LEMMA SelectLedger == ASSUME Ledgers, Select PROVE LedgerInv'
<1>1. result = None /\ Control /\ Keyed /\ Ledger /\ pc = "select" /\ capture = None /\ ~failed
  BY Known, Selecting
<1>2. Counted \in Nat /\ selected_resources \in Nat /\ B!RecordSelection(Counted)
  BY <1>1, CountFits, Selecting, Limits DEF Control, Ledgers
<1>3. /\ outcome' \in {"Elapsed", "SelectedResources", "Ok"}
      /\ UNCHANGED <<expansions, pending, exchanges, capture>>
      /\ outcome' = "Ok" => selected_resources' = selected_resources + Counted
  BY <1>1, <1>2, SelectionOutcome
<1>4. CASE outcome' # "Ok"
  BY <1>1, <1>3, <1>4, Selecting, ReturnLedger, NoneIsNone DEF Results, InternalErrors
<1>5. CASE outcome' = "Ok"
  <2>1. /\ pc' \in {"containers", "networks", "volumes", "finish"}
        /\ pc' # "containers" => containers' = {}
        /\ pc' \notin {"containers", "networks"} => DOMAIN networks' = {}
        /\ pc' = "finish" => volumes' = {}
        /\ result' = None
    BY <1>1, <1>5, Selecting, OnwardGoes
  <2>2. /\ selector' = selector
        /\ UNCHANGED <<selected_roots, network_name_fallbacks, inspected_network_ids>>
        /\ containers' = containers \cup Items("ContainerIds")
        /\ networks' = [k \in Items("NetworkIds") |-> FALSE] /\ volumes' = Items("VolumeNames")
    BY Selecting
  <2>3. /\ Completed = {} /\ expansions = 0 /\ selected_resources = 0 /\ exchanges # <<>>
        /\ selected_roots = {} /\ network_name_fallbacks = {} /\ inspected_network_ids = {}
    BY <1>1 DEF Ledger, Staged, Early
  <2>4. Completed' = {} /\ Range(exchanges)' = Range(exchanges)
    BY <1>3, <2>3 DEF Completed
  <2>5. pending = None /\ ~Inspecting' /\ Frontier' = 1
    BY <1>1, <1>3, <2>3 DEF Control, Inspecting, Frontier
  <2>6. /\ \A kind \in Kinds : ReadOf(kind) = {} /\ ReadOf(kind)' = {} /\ ReadKeys(kind) = {} /\ ReadKeys(kind)' = {}
        /\ Met' = {}
    BY <2>3, <2>4 DEF ReadOf, ReadKeys, Met
  <2>7. Numbered' /\ Staged'
    BY <1>3, <2>1, <2>3, <2>4, <2>5, <2>6 DEF Numbered, Staged, Early, Expanding, Kinds
  <2>8. Listed'
    <3>1. \A e \in Range(exchanges) : e.request.op = "ListContainers" =>
            selector.kind \in ListSelectors /\ containers = Matches(selector, e.reply.body)
      BY <1>1, <2>6 DEF Ledger, Listed, Wanted, Todo, Kinds
    <3>2. selector.kind \in ListSelectors => containers' = containers
      BY <2>2 DEF Items, ListSelectors
    <3>3. Wanted("Container")' = containers'
      BY <2>6 DEF Wanted, Todo, Kinds
    <3>. QED BY <2>1, <2>2, <2>4, <3>1, <3>2, <3>3 DEF Listed, Early
  <2>9. Closing'
    <3>1. \A kind : Chosen(kind)' = Items(kind)
      BY <2>2 DEF Chosen, Items, SetOf
    <3>2. Wanted("Network")' = Items("NetworkIds") /\ Wanted("Volume")' = Items("VolumeNames")
      BY <2>2, <2>6 DEF Wanted, Todo, Kinds
    <3>3. ReadOf("Container")' = {}
      BY <2>6 DEF Kinds
    <3>4. \A k \in DOMAIN networks' : networks'[k] = NameOnly(k)'
      <4>1. SUFFICES ASSUME NEW k \in Items("NetworkIds") PROVE NameOnly(k)' = FALSE
        BY <2>2
      <4>2. k \in Chosen("NetworkIds")'
        BY <3>1
      <4>. QED BY Zenon, <4>2 DEF NameOnly
    <3>5. Chosen("NetworkIds")' = Items("NetworkIds") /\ Chosen("VolumeNames")' = Items("VolumeNames")
      BY <3>1
    <3>. QED BY <2>6, <3>2, <3>3, <3>4, <3>5 DEF Closing
  <2>10. Marked' /\ Identified'
    BY <2>2, <2>3, <2>4, <2>5, <2>6 DEF Marked, Identified, Kinds
  <2>11. Rooted'
    <3>1. RootKind' = RootKind /\ RootKind \in Kinds
      BY <2>2, RootStays, RootKinds
    <3>2. ReadOf(RootKind)' = {} /\ ReadKeys(RootKind)' = {} /\ ReadKeys("Container")' = {}
      BY <2>6, <3>1 DEF Kinds
    <3>3. Wanted(RootKind)' = Todo(RootKind)' /\ Wanted("Container")' = containers'
      BY <3>2 DEF Wanted, Todo
    <3>4. selected_resources' = Counted
      BY <1>2, <1>3, <1>5, <2>3
    <3>5. selected_roots' = {}
      BY <2>2, <2>3
    <3>. QED BY <2>5, <3>1, <3>2, <3>3, <3>4, <3>5, CountedRoots DEF Rooted
  <2>12. Ledger'
    BY <2>7, <2>8, <2>9, <2>10, <2>11 DEF Ledger
  <2>. QED BY <1>1, <1>3, <2>1, <2>12, RunLedger
<1>. QED BY <1>4, <1>5

(***************************************************************************)
(* Taking an inspection in.                                                *)
(***************************************************************************)
AskedKind == pending.request.object[1]
AskedKey == pending.request.object[2]

\* The pending inspection is of the object the walk took up last.
LEMMA AskedAbout ==
  ASSUME Control, Asked, pending # None, pc \in {"containers", "networks", "volumes"}
  PROVE  /\ pending.request = InspectOf(AskedKind, AskedKey) /\ AskedKey \in Todo(AskedKind)
         /\ pending.resource = expansions
         /\ pc = "containers" <=> AskedKind = "Container"
         /\ pc = "networks" <=> AskedKind = "Network"
         /\ pc = "volumes" <=> AskedKind = "Volume"
         /\ AskedKind \in Kinds /\ pending.request.op = "Inspect"
<1>. USE DEF AskedKind, AskedKey
<1>1. CASE pc = "containers"
  <2>1. PICK id \in containers : pending.request = InspectOf("Container", id)
    BY <1>1 DEF Asked
  <2>2. AskedKind = "Container" /\ AskedKey = id /\ pending.request.op = "Inspect"
    BY <2>1 DEF InspectOf
  <2>. QED BY <1>1, <2>1, <2>2 DEF Asked, Todo, Kinds
<1>2. CASE pc = "networks"
  <2>1. PICK id \in DOMAIN networks : pending.request = InspectOf("Network", id)
    BY <1>2 DEF Asked
  <2>2. AskedKind = "Network" /\ AskedKey = id /\ pending.request.op = "Inspect"
    BY <2>1 DEF InspectOf
  <2>. QED BY <1>2, <2>1, <2>2 DEF Asked, Todo, Kinds
<1>3. CASE pc = "volumes"
  <2>1. PICK id \in volumes : pending.request = InspectOf("Volume", id)
    BY <1>3 DEF Asked
  <2>2. AskedKind = "Volume" /\ AskedKey = id /\ pending.request.op = "Inspect"
    BY <2>1 DEF InspectOf
  <2>. QED BY <1>3, <2>1, <2>2 DEF Asked, Todo, Kinds
<1>. QED BY <1>1, <1>2, <1>3

\* What an inspection's response adds to the ledger.
LEMMA InspectAnswer ==
  ASSUME Ledgers, Complete, Usable, pc \in {"containers", "networks", "volumes"}
  PROVE  /\ AskedKey \in Todo(AskedKind) /\ AskedKind \in Kinds
         /\ Exchanged.request.op = "Inspect" /\ Exchanged.request.object[1] = AskedKind
         /\ Exchanged.request.object[2] = AskedKey
         /\ Exchanged.resource = expansions /\ Exchanged.reply.body = Body
         /\ Completed' = Completed \cup {Exchanged}
         /\ \A kind : ReadOf(kind)' = ReadOf(kind) \cup (IF kind = AskedKind THEN {Exchanged} ELSE {})
         /\ \A kind : ReadKeys(kind)' = ReadKeys(kind) \cup (IF kind = AskedKind THEN {AskedKey} ELSE {})
         /\ Inspecting /\ Frontier = expansions /\ Frontier' = expansions + 1 /\ ~Inspecting'
         /\ expansions \in Nat
<1>1. /\ Range(exchanges)' = Range(exchanges) \cup {Exchanged}
      /\ Control /\ Asked /\ Ledger /\ pending # None /\ ~Inspecting' /\ expansions' = expansions
  BY AnsweredExchange
<1>2. /\ Exchanged.request = pending.request /\ Exchanged.resource = pending.resource
      /\ Exchanged.reply.body = Body
  BY DEF Exchanged, Body
<1>. HIDE DEF Exchanged
<1>3. /\ pending.request = InspectOf(AskedKind, AskedKey) /\ AskedKey \in Todo(AskedKind)
      /\ pending.resource = expansions /\ AskedKind \in Kinds /\ pending.request.op = "Inspect"
  BY <1>1, AskedAbout
<1>4. Exchanged.request.op = "Inspect" /\ Exchanged.request.object[1] = AskedKind
        /\ Exchanged.request.object[2] = AskedKey
  BY <1>2, <1>3 DEF AskedKind, AskedKey
<1>5. Completed' = Completed \cup {Exchanged}
  BY <1>1, <1>4 DEF Completed
<1>6. ASSUME NEW kind
      PROVE  /\ ReadOf(kind)' = ReadOf(kind) \cup (IF kind = AskedKind THEN {Exchanged} ELSE {})
             /\ ReadKeys(kind)' = ReadKeys(kind) \cup (IF kind = AskedKind THEN {AskedKey} ELSE {})
  <2>1. ReadOf(kind)' = ReadOf(kind) \cup (IF kind = AskedKind THEN {Exchanged} ELSE {})
    BY <1>4, <1>5 DEF ReadOf
  <2>. QED BY <1>4, <2>1 DEF ReadKeys
<1>7. Inspecting
  BY <1>1, <1>3 DEF Inspecting
<1>8. expansions \in Nat
  BY <1>1 DEF Control
<1>. QED BY <1>1, <1>2, <1>3, <1>4, <1>5, <1>6, <1>7, <1>8 DEF Frontier

\* By then at least one expansion has been counted.
LEMMA FrontierPositive ==
  ASSUME Ledgers, Complete, Usable, pc \in {"containers", "networks", "volumes"}
  PROVE  expansions \in Nat \ {0}
<1>1. Control /\ Asked /\ BP!BudgetInv /\ pending # None
  BY Known, AnsweredExchange DEF Complete
<1>2. pending.resource = expansions /\ expansions \in Nat
  BY <1>1, AskedAbout DEF Control
<1>3. pending.resource \in Refs \cup {None}
  BY <1>1 DEF BP!BudgetInv, BP!TypeOK, BP!Pending
<1>. QED BY <1>2, <1>3, NoneIsNone, Limits DEF Refs

\* A completed inspection is of one of the three kinds.
LEMMA CompletedKinds ==
  ASSUME Ledgers, NEW e \in Completed
  PROVE  e.request.object[1] \in Kinds
<1>1. BP!TypeOK
  BY DEF Ledgers, BudgetHolds, BP!BudgetInv
<1>2. e \in BP!Exchange /\ e.request.op = "Inspect"
  BY <1>1 DEF Completed, Range, BP!TypeOK
<1>3. e.request \in BP!ReadRequest
  BY <1>2 DEF BP!Exchange
<1>4. e.request \in [op : {"Inspect"}, object : Objects]
  BY <1>2, <1>3 DEF BP!ReadRequest, Reads
<1>. QED BY <1>4 DEF Objects

\* What any inspection taken in does, whatever its kind.
LEMMA InspectedLedger ==
  ASSUME Ledgers, Complete, Usable, pc \in {"containers", "networks", "volumes"},
         pc' \in {"containers", "networks", "volumes", "finish"},
         pc' = "containers" => pc = "containers",
         pc' # "containers" => containers' = {},
         pc' \notin {"containers", "networks"} => DOMAIN networks' = {},
         pc' = "finish" => volumes' = {},
         UNCHANGED <<selector, selected_roots, network_name_fallbacks>>,
         \A k : k = AskedKind => Todo(k)' = Todo(k) \ {AskedKey},
         AskedKind # "Container" => \A k \in Kinds \ {AskedKind} : Todo(k)' = Todo(k)
  PROVE  /\ Numbered' /\ Staged' /\ Listed' /\ Rooted'
         /\ network_name_fallbacks' \subseteq 1 .. expansions'
         /\ Exchanged.resource \in network_name_fallbacks' <=> pc = "networks" /\ networks[AskedKey]
<1>1. /\ AskedKey \in Todo(AskedKind) /\ AskedKind \in Kinds
      /\ Exchanged.request.op = "Inspect" /\ Exchanged.request.object[1] = AskedKind
      /\ Exchanged.request.object[2] = AskedKey
      /\ Exchanged.resource = expansions
      /\ Completed' = Completed \cup {Exchanged}
      /\ \A kind : ReadOf(kind)' = ReadOf(kind) \cup (IF kind = AskedKind THEN {Exchanged} ELSE {})
      /\ \A kind : ReadKeys(kind)' = ReadKeys(kind) \cup (IF kind = AskedKind THEN {AskedKey} ELSE {})
      /\ Inspecting /\ Frontier = expansions /\ Frontier' = expansions + 1 /\ ~Inspecting'
  BY InspectAnswer
<1>2. /\ Range(exchanges)' = Range(exchanges) \cup {Exchanged} /\ exchanges' # <<>>
      /\ Control /\ Asked /\ Ledger /\ UNCHANGED <<expansions, selected_resources>> /\ pending # None
  BY AnsweredExchange
<1>3. expansions \in Nat \ {0}
  BY FrontierPositive
<1>4. /\ pc = "containers" <=> AskedKind = "Container"
      /\ pc = "networks" <=> AskedKind = "Network"
  BY <1>2, AskedAbout
<1>. HIDE DEF Exchanged
<1>5. Numbered'
  <2>1. \A e \in Completed : e.resource \in 1 .. expansions - 1
    BY <1>1, <1>2 DEF Ledger, Numbered
  <2>2. \A e \in Completed' : e.resource \in 1 .. Frontier' - 1
    BY <1>1, <1>3, <2>1
  <2>3. \A r \in 1 .. Frontier' - 1 : \E e \in Completed' : e.resource = r
    BY <1>1, <1>2, <1>3 DEF Ledger, Numbered
  <2>4. \A e, f \in Completed' : e.resource = f.resource => e = f
    BY <1>1, <1>2, <1>3, <2>1 DEF Ledger, Numbered
  <2>5. ASSUME NEW e \in Completed' PROVE e.request.object[2] \notin Todo(e.request.object[1])'
    <3>1. CASE e = Exchanged
      <4>1. e.request.object[1] = AskedKind /\ e.request.object[2] = AskedKey
        BY <1>1, <3>1
      <4>2. Todo(e.request.object[1])' = Todo(e.request.object[1]) \ {AskedKey}
        BY <4>1
      <4>. QED BY <4>1, <4>2
    <3>2. CASE e \in Completed /\ e.request.object[1] = AskedKind
      <4>1. Todo(e.request.object[1])' = Todo(e.request.object[1]) \ {AskedKey}
        BY <3>2
      <4>. QED BY <1>2, <3>2, <4>1 DEF Ledger, Numbered
    <3>3. CASE e \in Completed /\ e.request.object[1] # AskedKind
      <4>1. AskedKind # "Container"
        <5>1. pc = "containers" => e.request.object[1] = "Container"
          BY <1>2, <3>3 DEF Ledger, Staged, ReadOf
        <5>. QED BY <1>4, <3>3, <5>1
      <4>2. \A k \in Kinds \ {AskedKind} : Todo(k)' = Todo(k)
        BY <4>1
      <4>3. CASE e.request.object[1] \in Kinds
        BY <1>2, <3>3, <4>2, <4>3 DEF Ledger, Numbered
      <4>. QED BY <4>3, CompletedKinds, <3>3
    <3>. QED BY <1>1, <3>1, <3>2, <3>3
  <2>. QED BY <2>2, <2>3, <2>4, <2>5 DEF Numbered
<1>6. Staged'
  <2>1. pc' = "containers" => Completed' = ReadOf("Container")'
    <3>1. SUFFICES ASSUME pc' = "containers" PROVE Completed' = ReadOf("Container")'
      OBVIOUS
    <3>2. Completed = ReadOf("Container") /\ AskedKind = "Container"
      BY <1>2, <1>4, <3>1 DEF Ledger, Staged
    <3>. QED BY <1>1, <3>2
  <2>. QED BY <1>2, <2>1 DEF Staged, Early, Expanding
<1>7. \A k \in {"Container", RootKind} : Wanted(k)' = Wanted(k)
  <2>1. SUFFICES ASSUME NEW k \in {"Container", RootKind} PROVE Wanted(k)' = Wanted(k)
    OBVIOUS
  <2>2. CASE k = AskedKind
    <3>1. Todo(k)' = Todo(k) \ {AskedKey} /\ ReadKeys(k)' = ReadKeys(k) \cup {AskedKey}
      BY <1>1, <2>2
    <3>2. AskedKey \in Todo(k)
      BY <1>1, <2>2
    <3>. QED BY <3>1, <3>2 DEF Wanted
  <2>3. CASE k # AskedKind
    <3>1. AskedKind # "Container"
      BY <1>1, <1>2, <2>1, <2>3 DEF Ledger, Rooted, Wanted
    <3>2. Todo(k)' = Todo(k)
      BY <2>1, <2>3, <3>1, RootKinds DEF Kinds
    <3>. QED BY <1>1, <2>3, <3>2 DEF Wanted
  <2>. QED BY <2>2, <2>3
<1>8. Listed'
  <2>1. Exchanged.request.op # "ListContainers"
    BY <1>1
  <2>. QED BY <1>2, <1>7, <2>1 DEF Ledger, Listed, Early
<1>9. Rooted'
  <2>1. RootKind' = RootKind /\ RootReason' = RootReason
    BY RootStays
  <2>2. {TheRoot(e.resource) : e \in ReadOf(RootKind)}' = {TheRoot(e.resource) : e \in ReadOf(RootKind)'}
    BY <2>1 DEF TheRoot
  <2>3. ReadOf(RootKind)' = ReadOf(RootKind) \cup (IF RootKind = AskedKind THEN {Exchanged} ELSE {})
    BY <1>1, <2>1 DEF ReadOf
  <2>4. {TheRoot(e.resource) : e \in ReadOf(RootKind)'} =
          {TheRoot(e.resource) : e \in ReadOf(RootKind)} \cup
            (IF AskedKind = RootKind THEN {TheRoot(expansions)} ELSE {})
    BY <1>1, <2>3
  <2>5. selected_roots = {TheRoot(e.resource) : e \in ReadOf(RootKind)} \cup
          (IF AskedKind = RootKind THEN {TheRoot(expansions)} ELSE {})
    BY <1>1, <1>2 DEF Ledger, Rooted, AskedKind
  <2>6. Wanted(RootKind)' = Wanted(RootKind)
    BY <1>7, <2>1 DEF Wanted, ReadKeys, ReadOf, Todo
  <2>. QED BY <1>1, <1>2, <1>7, <2>1, <2>2, <2>4, <2>5, <2>6 DEF Ledger, Rooted, Expanding
<1>10. network_name_fallbacks' \subseteq 1 .. expansions'
  BY <1>2 DEF Ledger, Marked
<1>11. Exchanged.resource \in network_name_fallbacks' <=> pc = "networks" /\ networks[AskedKey]
  BY <1>1, <1>2 DEF Ledger, Marked, AskedKey
<1>. QED BY <1>5, <1>6, <1>8, <1>9, <1>10, <1>11

\* Reading a network or a volume mentions nothing new.
LEMMA RelativeLedger ==
  ASSUME Ledgers, Complete, Usable, pc \in {"networks", "volumes"},
         UNCHANGED <<selector, network_name_fallbacks>>,
         \A k : k = AskedKind => Todo(k)' = Todo(k) \ {AskedKey},
         \A k \in Kinds \ {AskedKind} : Todo(k)' = Todo(k),
         \A k \in DOMAIN networks' : networks'[k] = networks[k],
         network_name_fallbacks' \subseteq 1 .. expansions',
         Exchanged.resource \in network_name_fallbacks' <=> pc = "networks" /\ networks[AskedKey]
  PROVE  Closing' /\ Marked'
<1>1. /\ AskedKey \in Todo(AskedKind) /\ AskedKind \in Kinds
      /\ Exchanged.request.object[1] = AskedKind /\ Exchanged.request.object[2] = AskedKey
      /\ Completed' = Completed \cup {Exchanged} /\ ~Inspecting'
      /\ \A kind : ReadOf(kind)' = ReadOf(kind) \cup (IF kind = AskedKind THEN {Exchanged} ELSE {})
      /\ \A kind : ReadKeys(kind)' = ReadKeys(kind) \cup (IF kind = AskedKind THEN {AskedKey} ELSE {})
  BY InspectAnswer
<1>2. Control /\ Asked /\ Ledger /\ pending # None
  BY AnsweredExchange
<1>3. AskedKind # "Container" /\ (pc = "networks" <=> AskedKind = "Network")
  BY <1>2, AskedAbout
<1>. HIDE DEF Exchanged
<1>4. ReadOf("Container")' = ReadOf("Container") /\ Met' = Met
  BY <1>1, <1>3 DEF Met
<1>5. \A k \in Kinds : Wanted(k)' = Wanted(k)
  <2>1. SUFFICES ASSUME NEW k \in Kinds PROVE Wanted(k)' = Wanted(k)
    OBVIOUS
  <2>2. CASE k = AskedKind
    <3>1. Todo(k)' = Todo(k) \ {AskedKey} /\ ReadKeys(k)' = ReadKeys(k) \cup {AskedKey}
      BY <1>1, <2>2
    <3>2. AskedKey \in Todo(k)
      BY <1>1, <2>2
    <3>. QED BY <3>1, <3>2 DEF Wanted
  <2>3. CASE k # AskedKind
    BY <1>1, <2>3 DEF Wanted
  <2>. QED BY <2>2, <2>3
<1>6. \A k : NameOnly(k)' = NameOnly(k)
  BY <1>4 DEF NameOnly, Chosen, SetOf
<1>7. DOMAIN networks' \subseteq DOMAIN networks
  <2>1. Todo("Network")' \subseteq Todo("Network")
    <3>1. CASE AskedKind = "Network"
      BY <3>1
    <3>2. CASE AskedKind # "Network"
      BY <3>2 DEF Kinds
    <3>. QED BY <3>1, <3>2
  <2>. QED BY <2>1 DEF Todo
<1>8. pc \in Expanding
  BY DEF Expanding
<1>9. Closing'
  <2>1. /\ Wanted("Network")' = Wanted("Network") /\ Wanted("Volume")' = Wanted("Volume")
        /\ \A kind : Chosen(kind)' = Chosen(kind)
    BY <1>5 DEF Kinds, Chosen, SetOf
  <2>2. /\ Wanted("Network") = Chosen("NetworkIds") \cup {KeyOf(n) : n \in Met}
        /\ Wanted("Volume") = Chosen("VolumeNames") \cup UNION {e.reply.body.vols : e \in ReadOf("Container")}
    BY <1>2, <1>8 DEF Ledger, Closing
  <2>3. \A k \in DOMAIN networks' : networks'[k] = NameOnly(k)'
    <3>1. SUFFICES ASSUME NEW k \in DOMAIN networks' PROVE networks'[k] = NameOnly(k)'
      OBVIOUS
    <3>2. networks'[k] = networks[k] /\ k \in DOMAIN networks
      BY <1>7
    <3>3. networks[k] = NameOnly(k)
      BY <1>2, <1>8, <3>2 DEF Ledger, Closing
    <3>. QED BY <1>6, <3>2, <3>3
  <2>. QED BY <1>4, <2>1, <2>2, <2>3 DEF Closing
<1>10. Marked'
  <2>1. SUFFICES ASSUME NEW e \in Completed'
                 PROVE  e.resource \in network_name_fallbacks' <=>
                          e.request.object[1] = "Network" /\ NameOnly(e.request.object[2])'
    BY <1>1 DEF Marked
  <2>2. NameOnly(e.request.object[2])' = NameOnly(e.request.object[2])
    BY <1>6
  <2>3. CASE e \in Completed
    BY <1>2, <2>2, <2>3 DEF Ledger, Marked
  <2>4. CASE e = Exchanged
    <3>1. e.request.object[1] = AskedKind /\ e.request.object[2] = AskedKey
      BY <1>1, <2>4
    <3>2. CASE pc = "networks"
      <4>1. AskedKey \in DOMAIN networks
        BY <1>1, <1>3, <3>2 DEF Todo
      <4>2. networks[AskedKey] = NameOnly(AskedKey)
        BY <1>2, <1>8, <4>1 DEF Ledger, Closing
      <4>3. NameOnly(e.request.object[2])' = NameOnly(AskedKey)
        BY <2>2, <3>1
      <4>. QED BY Zenon, <1>3, <2>4, <3>1, <3>2, <4>2, <4>3
    <3>3. CASE pc # "networks"
      BY <1>3, <2>4, <3>1, <3>3
    <3>. QED BY <3>2, <3>3
  <2>. QED BY <1>1, <2>3, <2>4
<1>. QED BY <1>9, <1>10

\* An inspected volume keeps the ledger.
LEMMA GotVolumeLedger == ASSUME Ledgers, GotVolume PROVE LedgerInv'
<1>1. /\ pc = "volumes" /\ Complete /\ Usable /\ volumes' = volumes \ {AskedKey}
      /\ UNCHANGED <<selector, containers, networks, selected_roots, network_name_fallbacks,
                     inspected_network_ids>>
  BY DEF GotVolume, AskedKey
<1>2. result = None /\ Control /\ Asked /\ Ledger /\ capture' = None /\ pending # None
  BY <1>1, AnsweredExchange
<1>3. AskedKind = "Volume"
  BY <1>1, <1>2, AskedAbout
<1>4. CASE Return("Shape")
  BY <1>2, <1>4, ReturnLedger, NoneIsNone DEF Results, InternalErrors
<1>5. CASE Identity("Name", AskedKey) /\ Onward({}, networks, volumes')
  <2>1. /\ pc' \in {"networks", "volumes", "finish"}
        /\ pc' \notin {"containers", "networks"} => DOMAIN networks = {}
        /\ pc' = "finish" => volumes' = {}
        /\ result' = None
    BY <1>2, <1>5, OnwardGoes
  <2>2. containers' = {}
    BY <1>1, <1>2 DEF Ledger, Staged, Expanding
  <2>3. /\ \A k : k = AskedKind => Todo(k)' = Todo(k) \ {AskedKey}
        /\ \A k \in Kinds \ {AskedKind} : Todo(k)' = Todo(k)
    BY <1>1, <1>3 DEF Todo, Kinds
  <2>4. /\ Numbered' /\ Staged' /\ Listed' /\ Rooted'
        /\ network_name_fallbacks' \subseteq 1 .. expansions'
        /\ Exchanged.resource \in network_name_fallbacks' <=> pc = "networks" /\ networks[AskedKey]
    <3>. HIDE DEF Exchanged
    <3>. QED BY <1>1, <1>3, <2>1, <2>2, <2>3, InspectedLedger
  <2>5. Closing' /\ Marked'
    <3>. HIDE DEF Exchanged
    <3>. QED BY <1>1, <2>3, <2>4, RelativeLedger
  <2>6. Identified'
    <3>1. /\ Completed' = Completed \cup {Exchanged} /\ ReadOf("Network")' = ReadOf("Network")
          /\ Exchanged.request.object[1] = "Volume" /\ Exchanged.request.object[2] = AskedKey
          /\ Exchanged.reply.body = Body
      BY <1>1, <1>3, InspectAnswer
    <3>. HIDE DEF Exchanged
    <3>2. Body["Name"] = AskedKey
      BY <1>5 DEF Identity
    <3>3. \A e \in Completed' : e.reply.body[IF Named_(e)' THEN "Name" ELSE "Id"] = e.request.object[2]
      BY <1>1, <1>2, <3>1, <3>2 DEF Ledger, Identified, Named_
    <3>. QED BY <1>1, <1>2, <3>1, <3>3 DEF Ledger, Identified
  <2>7. Ledger'
    BY <2>4, <2>5, <2>6 DEF Ledger
  <2>. QED BY <1>2, <2>1, <2>7, RunLedger
<1>. QED BY <1>4, <1>5 DEF GotVolume, AskedKey

\* An inspected network keeps it.
LEMMA GotNetworkLedger == ASSUME Ledgers, GotNetwork PROVE LedgerInv'
<1>1. /\ pc = "networks" /\ Complete /\ Usable
      /\ networks' = [k \in DOMAIN networks \ {AskedKey} |-> networks[k]]
      /\ UNCHANGED <<selector, containers, volumes, selected_roots, network_name_fallbacks>>
  BY DEF GotNetwork, AskedKey
<1>2. result = None /\ Control /\ Asked /\ Ledger /\ capture' = None /\ pending # None
  BY <1>1, AnsweredExchange
<1>3. AskedKind = "Network"
  BY <1>1, <1>2, AskedAbout
<1>4. CASE Return("Shape")
  BY <1>2, <1>4, ReturnLedger, NoneIsNone DEF Results, InternalErrors
<1>5. CASE /\ FreshNetwork(AskedKey) /\ Onward({}, networks', volumes)
           /\ inspected_network_ids' = inspected_network_ids \cup {Body.Id}
  <2>1. /\ pc' \in {"networks", "volumes", "finish"}
        /\ pc' \notin {"containers", "networks"} => DOMAIN networks' = {}
        /\ pc' = "finish" => volumes' = {}
        /\ result' = None
    BY <1>1, <1>2, <1>5, OnwardGoes
  <2>2. containers' = {}
    BY <1>1, <1>2 DEF Ledger, Staged, Expanding
  <2>3. /\ \A k : k = AskedKind => Todo(k)' = Todo(k) \ {AskedKey}
        /\ \A k \in Kinds \ {AskedKind} : Todo(k)' = Todo(k)
        /\ \A k \in DOMAIN networks' : networks'[k] = networks[k]
    BY <1>1, <1>3 DEF Todo, Kinds
  <2>4. /\ Numbered' /\ Staged' /\ Listed' /\ Rooted'
        /\ network_name_fallbacks' \subseteq 1 .. expansions'
        /\ Exchanged.resource \in network_name_fallbacks' <=> pc = "networks" /\ networks[AskedKey]
    <3>. HIDE DEF Exchanged
    <3>. QED BY <1>1, <1>3, <2>1, <2>2, <2>3, InspectedLedger
  <2>5. Closing' /\ Marked'
    <3>. HIDE DEF Exchanged
    <3>. QED BY <1>1, <2>3, <2>4, RelativeLedger
  <2>6. Identified'
    <3>1. /\ Completed' = Completed \cup {Exchanged} /\ ReadOf("Network")' = ReadOf("Network") \cup {Exchanged}
          /\ Exchanged.request.object[1] = "Network" /\ Exchanged.request.object[2] = AskedKey
          /\ Exchanged.reply.body = Body
      BY <1>1, <1>3, InspectAnswer
    <3>2. Exchanged.resource \in network_name_fallbacks' <=> networks[AskedKey]
      BY <1>1, <2>4
    <3>. HIDE DEF Exchanged
    <3>3. Body[IF networks[AskedKey] THEN "Name" ELSE "Id"] = AskedKey /\ Body.Id \notin inspected_network_ids
      BY <1>5 DEF FreshNetwork, Identity
    <3>4. \A e \in Completed : e.reply.body[IF Named_(e)' THEN "Name" ELSE "Id"] = e.request.object[2]
      BY <1>1, <1>2 DEF Ledger, Identified, Named_
    <3>5. Exchanged.reply.body[IF Exchanged.request.object[1] = "Volume" \/ Exchanged.resource \in network_name_fallbacks'
                               THEN "Name" ELSE "Id"] = Exchanged.request.object[2]
      BY <3>1, <3>2, <3>3
    <3>6. \A e \in Completed' : e.reply.body[IF Named_(e)' THEN "Name" ELSE "Id"] = e.request.object[2]
      BY <3>1, <3>4, <3>5 DEF Named_
    <3>7. inspected_network_ids' = {e.reply.body.Id : e \in ReadOf("Network")'}
      BY <1>2, <1>5, <3>1 DEF Ledger, Identified
    <3>8. \A e, f \in ReadOf("Network")' : e # f => e.reply.body.Id # f.reply.body.Id
      BY <1>2, <3>1, <3>3 DEF Ledger, Identified
    <3>. QED BY <3>6, <3>7, <3>8 DEF Identified
  <2>7. Ledger'
    BY <2>4, <2>5, <2>6 DEF Ledger
  <2>. QED BY <1>2, <2>1, <2>7, RunLedger
<1>. QED BY <1>4, <1>5 DEF GotNetwork, AskedKey

\* What merging an answer's mentions makes of the keys.
LEMMA MergedKeys ==
  ASSUME NEW nets, NEW body
  PROVE  /\ DOMAIN Merge(nets, Mentions(body)) = DOMAIN nets \cup {KeyOf(n) : n \in body.nets}
         /\ \A k \in DOMAIN nets \cup {KeyOf(n) : n \in body.nets} :
              Merge(nets, Mentions(body))[k] <=>
                /\ k \in DOMAIN nets => nets[k]
                /\ \A n \in body.nets : KeyOf(n) = k => n.NetworkID = None
<1>1. Mentions(body) = {[key |-> KeyOf(n), by_name |-> n.NetworkID = None] : n \in body.nets}
  BY DEF Mentions, KeyOf
<1>2. \A m \in Mentions(body) : \E n \in body.nets : m.key = KeyOf(n) /\ (m.by_name <=> n.NetworkID = None)
  <2>. TAKE m \in Mentions(body)
  <2>1. PICK n \in body.nets : m = [key |-> KeyOf(n), by_name |-> n.NetworkID = None]
    BY <1>1
  <2>2. m.key = KeyOf(n)
    BY <2>1
  <2>3. m.by_name = (n.NetworkID = None)
    BY <2>1
  <2>. QED BY Zenon, <2>2, <2>3
<1>3. \A n \in body.nets : \E m \in Mentions(body) : m.key = KeyOf(n) /\ (m.by_name <=> n.NetworkID = None)
  <2>. TAKE n \in body.nets
  <2>1. [key |-> KeyOf(n), by_name |-> n.NetworkID = None] \in Mentions(body)
    BY <1>1
  <2>. QED BY <2>1
<1>. HIDE DEF KeyOf
<1>4. {m.key : m \in Mentions(body)} = {KeyOf(n) : n \in body.nets}
  BY <1>2, <1>3
<1>5. \A k : (\A m \in Mentions(body) : m.key = k => m.by_name) <=>
               (\A n \in body.nets : KeyOf(n) = k => n.NetworkID = None)
  BY <1>2, <1>3
<1>. QED BY <1>4, <1>5 DEF Merge

\* A network to inspect is asked for by its name or it is not.
LEMMA MergeIsBoolean ==
  ASSUME NEW nets, NEW mentions, NEW k \in DOMAIN Merge(nets, mentions)
  PROVE  Merge(nets, mentions)[k] \in BOOLEAN
  BY DEF Merge

\* An inspected container keeps it: what it mentions is to be inspected.
LEMMA GotContainerLedger == ASSUME Ledgers, GotContainer PROVE LedgerInv'
<1>1. /\ pc = "containers" /\ Complete /\ Usable /\ containers' = containers \ {AskedKey}
      /\ UNCHANGED <<selector, selected_roots, network_name_fallbacks, inspected_network_ids>>
  BY DEF GotContainer, AskedKey
<1>2. result = None /\ Control /\ Asked /\ Ledger /\ capture' = None /\ pending # None
  BY <1>1, AnsweredExchange
<1>3. AskedKind = "Container"
  BY <1>1, <1>2, AskedAbout
<1>4. CASE Return("Shape") \/ Return("Expansions")
  BY <1>2, <1>4, ReturnLedger, NoneIsNone DEF Results, InternalErrors
<1>5. CASE /\ Identity("Id", AskedKey)
           /\ networks' = Merge(networks, Mentions(Body)) /\ volumes' = volumes \cup Body.vols
           /\ Onward(containers', networks', volumes')
  <2>1. /\ pc' \in {"containers", "networks", "volumes", "finish"}
        /\ pc' # "containers" => containers' = {}
        /\ pc' \notin {"containers", "networks"} => DOMAIN networks' = {}
        /\ pc' = "finish" => volumes' = {}
        /\ result' = None
    BY <1>2, <1>5, OnwardGoes
  <2>2. \A k : k = AskedKind => Todo(k)' = Todo(k) \ {AskedKey}
    BY <1>1, <1>3 DEF Todo
  <2>3. /\ Numbered' /\ Staged' /\ Listed' /\ Rooted'
        /\ network_name_fallbacks' \subseteq 1 .. expansions'
        /\ Exchanged.resource \in network_name_fallbacks' <=> pc = "networks" /\ networks[AskedKey]
    <3>. HIDE DEF Exchanged
    <3>. QED BY <1>1, <1>3, <2>1, <2>2, InspectedLedger
  <2>4. /\ Completed' = Completed \cup {Exchanged} /\ ~Inspecting'
        /\ Exchanged.request.object[1] = "Container" /\ Exchanged.request.object[2] = AskedKey
        /\ Exchanged.reply.body = Body
        /\ ReadOf("Container")' = ReadOf("Container") \cup {Exchanged}
        /\ ReadOf("Network")' = ReadOf("Network")
        /\ \A k \in {"Network", "Volume"} : ReadKeys(k)' = ReadKeys(k)
    BY <1>1, <1>3, InspectAnswer
  <2>. HIDE DEF Exchanged
  <2>5. Completed = ReadOf("Container")
    BY <1>1, <1>2 DEF Ledger, Staged
  <2>6. ReadKeys("Network") = {} /\ ReadKeys("Volume") = {} /\ ReadOf("Network") = {}
    BY <2>5 DEF ReadKeys, ReadOf
  <2>7. Met' = Met \cup Body.nets
    BY <2>4 DEF Met
  <2>8. /\ DOMAIN networks = Chosen("NetworkIds") \cup {KeyOf(n) : n \in Met}
        /\ volumes = Chosen("VolumeNames") \cup UNION {e.reply.body.vols : e \in ReadOf("Container")}
        /\ \A k \in DOMAIN networks : networks[k] = NameOnly(k)
    BY <1>1, <1>2, <2>6 DEF Ledger, Closing, Expanding, Wanted, Todo
  <2>9. /\ DOMAIN networks' = DOMAIN networks \cup {KeyOf(n) : n \in Body.nets}
        /\ \A k \in DOMAIN networks' :
              networks'[k] <=> /\ k \in DOMAIN networks => networks[k]
                               /\ \A n \in Body.nets : KeyOf(n) = k => n.NetworkID = None
        /\ \A k \in DOMAIN networks' : networks'[k] \in BOOLEAN
    <3>. HIDE DEF Body
    <3>1. /\ DOMAIN networks' = DOMAIN networks \cup {KeyOf(n) : n \in Body.nets}
          /\ \A k \in DOMAIN networks \cup {KeyOf(n) : n \in Body.nets} :
               networks'[k] <=> /\ k \in DOMAIN networks => networks[k]
                                /\ \A n \in Body.nets : KeyOf(n) = k => n.NetworkID = None
      BY <1>5, MergedKeys
    <3>2. \A k \in DOMAIN networks' : networks'[k] \in BOOLEAN
      BY <1>5, MergeIsBoolean
    <3>. QED BY Zenon, <3>1, <3>2
  <2>10. \A k : Chosen(k)' = Chosen(k)
    BY <1>1 DEF Chosen, SetOf
  <2>11. None \notin DOMAIN networks'
    <3>1. WalkInv'
      BY GotContainerWalk DEF Ledgers
    <3>. QED BY <2>1, <3>1, NoneIsNone DEF WalkInv, Keyed
  <2>12. \A k \in DOMAIN networks' : networks'[k] = NameOnly(k)'
    <3>1. SUFFICES ASSUME NEW k \in DOMAIN networks' PROVE networks'[k] = NameOnly(k)'
      OBVIOUS
    <3>2. NameOnly(k)' <=> k \notin Chosen("NetworkIds") /\ \A n \in Met \cup Body.nets : n.NetworkID # k
      BY <2>7, <2>10 DEF NameOnly
    <3>3. (\A n \in Body.nets : KeyOf(n) = k => n.NetworkID = None) <=> (\A n \in Body.nets : n.NetworkID # k)
      BY <2>11 DEF KeyOf
    <3>4. CASE k \in DOMAIN networks
      <4>1. networks[k] <=> k \notin Chosen("NetworkIds") /\ \A n \in Met : n.NetworkID # k
        BY <2>8, <3>4 DEF NameOnly
      <4>2. networks'[k] <=> NameOnly(k)'
        BY <2>9, <3>2, <3>3, <3>4, <4>1
      <4>. QED BY Zenon, <2>9, <4>2 DEF NameOnly
    <3>5. CASE k \notin DOMAIN networks
      <4>1. k \notin Chosen("NetworkIds") /\ \A n \in Met : n.NetworkID # k
        BY <2>8, <2>11, <3>5 DEF KeyOf
      <4>2. networks'[k] <=> NameOnly(k)'
        BY <2>9, <3>2, <3>3, <3>5, <4>1
      <4>. QED BY Zenon, <2>9, <4>2 DEF NameOnly
    <3>. QED BY <3>4, <3>5
  <2>13. Closing'
    <3>1. Wanted("Network")' = DOMAIN networks' /\ Wanted("Volume")' = volumes'
      BY <2>4, <2>6 DEF Wanted, Todo
    <3>2. {KeyOf(n) : n \in Met'} = {KeyOf(n) : n \in Met} \cup {KeyOf(n) : n \in Body.nets}
      BY <2>7
    <3>3. UNION {e.reply.body.vols : e \in ReadOf("Container")'} =
            (UNION {e.reply.body.vols : e \in ReadOf("Container")}) \cup Body.vols
      BY <2>4
    <3>. QED BY <1>5, <2>8, <2>9, <2>10, <2>12, <3>1, <3>2, <3>3 DEF Closing, KeyOf
  <2>14. Marked'
    <3>1. \A e \in Completed : e.request.object[1] = "Container"
      BY <2>5 DEF ReadOf
    <3>2. \A e \in Completed : e.resource \notin network_name_fallbacks
      BY <1>2, <3>1 DEF Ledger, Marked
    <3>. QED BY <1>1, <2>3, <2>4, <3>1, <3>2 DEF Marked
  <2>15. Identified'
    <3>1. Body["Id"] = AskedKey
      BY <1>5 DEF Identity
    <3>2. Exchanged.resource \notin network_name_fallbacks
      BY <1>1, <2>3
    <3>3. \A e \in Completed' : e.reply.body[IF Named_(e)' THEN "Name" ELSE "Id"] = e.request.object[2]
      BY <1>1, <1>2, <2>4, <3>1, <3>2 DEF Ledger, Identified, Named_
    <3>. QED BY <1>1, <1>2, <2>4, <3>3 DEF Ledger, Identified
  <2>16. Ledger'
    BY <2>3, <2>13, <2>14, <2>15 DEF Ledger
  <2>. QED BY <1>2, <2>1, <2>16, RunLedger
<1>. QED BY <1>4, <1>5 DEF GotContainer, AskedKey

(***************************************************************************)
(* The capture: the ledger at the last step is what a capture promises.    *)
(***************************************************************************)
\* What a completed inspection is: a bound reference of an object of its kind.
LEMMA InspectionShape ==
  ASSUME Ledgers, NEW e \in Completed
  PROVE  /\ e.request.object \in Objects /\ e.resource \in Refs
         /\ e.request.object = <<e.request.object[1], e.request.object[2]>>
         /\ native_refs[e.request.object] = e.resource
<1>1. BP!TypeOK /\ BP!ReadsBound /\ BP!OneToOne
  BY DEF Ledgers, BudgetHolds, BP!BudgetInv
<1>2. e \in BP!Exchange /\ e.request.op = "Inspect" /\ e \in BP!Recorded
  <2>1. e \in Range(exchanges) /\ e.request.op = "Inspect"
    BY DEF Completed
  <2>2. e \in BP!Exchange
    BY <1>1, <2>1 DEF Range, BP!TypeOK
  <2>. QED BY <2>1, <2>2 DEF BP!Recorded, Range, BP!Range
<1>3. e.request \in BP!ReadRequest /\ e.resource \in Refs \cup {None}
  BY <1>2 DEF BP!Exchange
<1>4. e.request.object \in Objects
  BY <1>2, <1>3 DEF BP!ReadRequest, Reads
<1>5. e.resource # None /\ resource_ids[e.resource] = e.request.object
  BY <1>1, <1>2 DEF BP!ReadsBound
<1>6. native_refs[e.request.object] = e.resource
  BY <1>1, <1>3, <1>4, <1>5 DEF BP!OneToOne
<1>. QED BY <1>3, <1>4, <1>5, <1>6 DEF Objects

\* Two completed inspections of one object are the same.
LEMMA InspectedOnce ==
  ASSUME Ledgers, Numbered, NEW e \in Completed, NEW f \in Completed,
         e.request.object = f.request.object
  PROVE  e = f
<1>1. e.resource = f.resource
  BY InspectionShape
<1>. QED BY <1>1 DEF Numbered

\* The completed inspections are as many as the references used for them.
LEMMA InspectionsCounted ==
  ASSUME Ledgers, Numbered, Frontier \in Nat
  PROVE  IsFiniteSet(Completed) /\ (Frontier \in Nat \ {0} => Cardinality(Completed) = Frontier - 1)
<1> DEFINE N == 1 .. Frontier - 1
           g == [r \in N |-> CHOOSE e \in Completed : e.resource = r]
<1>1. \A r \in N : g[r] \in Completed /\ g[r].resource = r
  BY DEF Numbered
<1>2. \A e \in Completed : e.resource \in N /\ g[e.resource] = e
  BY <1>1 DEF Numbered
<1>3. g \in [N -> Completed]
  BY <1>1
<1>. HIDE DEF g
<1>4. g \in Bijection(N, Completed)
  BY <1>1, <1>2, <1>3 DEF Bijection, Injection, Surjection, IsInjective
<1>5. IsFiniteSet(N) /\ (Frontier \in Nat \ {0} => Cardinality(N) = Frontier - 1)
  BY FS_Interval
<1>. QED BY <1>4, <1>5, FS_Bijection DEF ExistsBijection

\* As many inspections of a kind as keys.
LEMMA KeysCounted ==
  ASSUME Ledgers, Numbered, Frontier \in Nat, NEW kind
  PROVE  IsFiniteSet(ReadOf(kind)) /\ Cardinality(ReadOf(kind)) = Cardinality(ReadKeys(kind))
<1> DEFINE h == [e \in ReadOf(kind) |-> e.request.object[2]]
<1>1. IsFiniteSet(ReadOf(kind))
  BY InspectionsCounted, FS_Subset DEF ReadOf
<1>2. \A e, f \in ReadOf(kind) : e.request.object[2] = f.request.object[2] => e = f
  <2>. SUFFICES ASSUME NEW e \in ReadOf(kind), NEW f \in ReadOf(kind),
                       e.request.object[2] = f.request.object[2]
                PROVE  e = f
    OBVIOUS
  <2>1. e \in Completed /\ f \in Completed /\ e.request.object[1] = f.request.object[1]
    BY DEF ReadOf
  <2>2. e.request.object = f.request.object
    BY <2>1, InspectionShape
  <2>. QED BY <2>1, <2>2, InspectedOnce
<1>3. h \in Bijection(ReadOf(kind), ReadKeys(kind))
  BY <1>2 DEF ReadKeys, Bijection, Injection, Surjection,
     IsInjective
<1>. QED BY <1>1, <1>3, FS_Bijection DEF ExistsBijection

\* As many roots as inspections of the chosen kind.
RootsRead == {TheRoot(e.resource) : e \in ReadOf(RootKind)}
\* As many roots were read as inspections of their kind.
LEMMA RootsCounted ==
  ASSUME Ledgers, Numbered, Frontier \in Nat
  PROVE  Cardinality(RootsRead) = Cardinality(ReadOf(RootKind))
<1> DEFINE h == [e \in ReadOf(RootKind) |-> TheRoot(e.resource)]
<1>1. \A e, f \in ReadOf(RootKind) : TheRoot(e.resource) = TheRoot(f.resource) => e = f
  <2>1. \A r, s : TheRoot(r) = TheRoot(s) => r = s
    BY DEF TheRoot
  <2>. QED BY <2>1 DEF Numbered, ReadOf
<1>2. h \in Bijection(ReadOf(RootKind), RootsRead)
  BY <1>1 DEF RootsRead, Bijection, Injection, Surjection,
     IsInjective
<1>. QED BY <1>2, KeysCounted, FS_Bijection DEF ExistsBijection

\* Nothing is left to inspect when the budget is turned into a capture.
LEMMA AtCapture ==
  ASSUME Ledgers, TakeCapture
  PROVE  /\ result = None /\ Control /\ Ledger /\ capture = None /\ ~failed
         /\ pending = None /\ exchanges # <<>> /\ requests # 0
         /\ \A kind : Todo(kind) = {}
         /\ ~Inspecting /\ Frontier = expansions + 1 /\ expansions \in Nat /\ Frontier \in Nat
         /\ B!IntoCapture /\ result' = outcome' /\ pc' = "done"
         /\ UNCHANGED <<exchanges, selector, selected_roots, network_name_fallbacks>>
<1>1. /\ pc = "capture" /\ B!IntoCapture /\ Return(outcome')
      /\ UNCHANGED <<selector, selected_roots, network_name_fallbacks>>
  BY DEF TakeCapture, walk
<1>2. result = None /\ Control /\ Ledger /\ capture = None /\ ~failed /\ BP!BudgetInv
  BY <1>1, Known
<1>3. phase = "send" /\ pending = None
  BY <1>1, <1>2 DEF Control
<1>4. exchanges # <<>> /\ containers = {} /\ DOMAIN networks = {} /\ volumes = {}
  BY <1>1, <1>2 DEF Ledger, Staged, Early, Expanding
<1>5. requests # 0
  <2>1. exchanges \in Seq(BP!Exchange) /\ requests = Len(exchanges)
    BY <1>2, <1>3 DEF BP!BudgetInv, BP!TypeOK, BP!RequestsAccounted
  <2>. QED BY <1>4, <2>1
<1>6. expansions \in Nat
  BY <1>2, Limits DEF Control
<1>7. UNCHANGED exchanges
  BY <1>1 DEF B!IntoCapture, B!budget
<1>. QED BY <1>1, <1>2, <1>3, <1>4, <1>5, <1>6, <1>7 DEF Todo, Inspecting, Frontier, Return

\* The capture succeeds, or its time is up: the two refusals a caller of the
\* budget could run into are excluded here, the third by the budget itself.
LEMMA CaptureOutcome ==
  ASSUME Ledgers, BudgetHolds', TakeCapture
  PROVE  /\ outcome' \in {"Elapsed", "Ok"}
         /\ outcome' = "Ok" => capture' = [bounds |-> B!Counts, exchanges |-> exchanges]
         /\ outcome' = "Elapsed" => capture' = None
<1>1. capture = None /\ ~failed /\ pending = None /\ requests # 0 /\ B!IntoCapture
  BY AtCapture
<1>2. outcome' # "CaptureAccounting"
  BY DEF BudgetHolds, BP!AccountingNeverFails
<1>3. B!CaptureError \in {"Elapsed", "Ok", "CaptureAccounting"}
  BY <1>1 DEF B!CaptureError
<1>4. /\ outcome' = B!CaptureError
      /\ capture' = IF B!CaptureError = "Ok" THEN [bounds |-> B!Counts, exchanges |-> exchanges] ELSE capture
  BY <1>1 DEF B!IntoCapture
<1>. QED BY <1>1, <1>2, <1>3, <1>4

\* What a capture just made holds.
LEMMA Captures ==
  ASSUME Ledgers, TakeCapture, capture' # None,
         capture' = [bounds |-> B!Counts, exchanges |-> exchanges]
  PROVE  /\ Captured' = Range(exchanges)
         /\ \A kind : Inspections(kind)' = ReadOf(kind) /\ Keys(kind)' = ReadKeys(kind)
                        /\ Wanted(kind) = ReadKeys(kind) /\ Chosen(kind)' = Chosen(kind)
         /\ Endpoints' = Met
         /\ capture'.bounds.selected_resources = selected_resources
         /\ capture'.bounds.expansions = expansions
<1>1. UNCHANGED <<selector, exchanges>> /\ \A kind : Todo(kind) = {}
  BY AtCapture
<1>2. Captured' = Range(exchanges)
  BY <1>1 DEF Captured
<1>3. \A kind : Inspections(kind)' = ReadOf(kind)
  BY <1>2 DEF Inspections, ReadOf, Completed
<1>4. \A kind : Keys(kind)' = ReadKeys(kind)
  BY <1>3 DEF Keys, ReadKeys
<1>5. \A kind : Wanted(kind) = ReadKeys(kind) /\ Chosen(kind)' = Chosen(kind)
  BY <1>1 DEF Wanted, Chosen, SetOf
<1>6. Endpoints' = Met
  BY <1>3 DEF Endpoints, Met
<1>7. capture'.bounds = B!Counts
  OBVIOUS
<1>8. B!Counts.selected_resources = selected_resources /\ B!Counts.expansions = expansions
  BY DEF B!Counts
<1>. QED BY <1>2, <1>3, <1>4, <1>5, <1>6, <1>7, <1>8

\* A capture holds an inspection of all it mentions.
LEMMA CaptureCloses ==
  ASSUME Ledgers, TakeCapture, capture' # None,
         capture' = [bounds |-> B!Counts, exchanges |-> exchanges]
  PROVE  CaptureIsClosed'
<1>1. Ledger /\ pc = "capture" /\ Frontier \in Nat
  BY AtCapture DEF TakeCapture
<1>2. /\ ReadKeys("Network") = Chosen("NetworkIds") \cup {KeyOf(n) : n \in Met}
      /\ ReadKeys("Volume") = Chosen("VolumeNames") \cup UNION {e.reply.body.vols : e \in ReadOf("Container")}
  BY <1>1, Captures DEF Ledger, Closing, Expanding
<1>3. \A kind \in Kinds : Cardinality(ReadOf(kind)) = Cardinality(ReadKeys(kind))
  BY <1>1, KeysCounted DEF Ledger
<1>4. \A kind \in Kinds : Cardinality(Inspections(kind)') = Cardinality(Keys(kind)')
  BY <1>3, Captures
<1>5. /\ Keys("Network")' = Chosen("NetworkIds")'
           \cup {IF n.NetworkID # None THEN n.NetworkID ELSE n.name : n \in Endpoints'}
      /\ Keys("Volume")' = Chosen("VolumeNames")'
           \cup UNION {e.reply.body.vols : e \in Inspections("Container")'}
  BY <1>2, Captures DEF KeyOf
<1>. QED BY <1>4, <1>5 DEF CaptureIsClosed

\* A capture's fallbacks, identities and networks are those of the ledger.
LEMMA CaptureHoldsWhatWasAsked ==
  ASSUME Ledgers, TakeCapture, capture' # None,
         capture' = [bounds |-> B!Counts, exchanges |-> exchanges]
  PROVE  FallbackMeansNameOnly' /\ CaptureIdentified' /\ NoAliasCaptured'
<1>1. Ledger /\ UNCHANGED network_name_fallbacks
  BY AtCapture
<1>2. FallbackMeansNameOnly'
  <2>1. \A e \in ReadOf("Network") :
          e.resource \in network_name_fallbacks <=> NameOnly(e.request.object[2])
    BY <1>1 DEF Ledger, Marked, ReadOf
  <2>. QED BY <1>1, <2>1, Captures DEF FallbackMeansNameOnly, NameOnly
<1>3. CaptureIdentified'
  <2>1. \A e \in Range(exchanges) : e.request.op = "Inspect" =>
          e.reply.body[IF Named_(e) THEN "Name" ELSE "Id"] = e.request.object[2]
    BY <1>1 DEF Ledger, Identified, Completed
  <2>. QED BY <1>1, <2>1, Captures DEF CaptureIdentified, Named_
<1>4. NoAliasCaptured'
  BY <1>1, Captures DEF NoAliasCaptured, Ledger, Identified
<1>. QED BY <1>2, <1>3, <1>4

\* A capture's roots are what was selected.
LEMMA CaptureMatchesRoots ==
  ASSUME Ledgers, TakeCapture, capture' # None,
         capture' = [bounds |-> B!Counts, exchanges |-> exchanges]
  PROVE  RootsMatchSelection'
<1>1. /\ Ledger /\ pc = "capture" /\ ~Inspecting /\ Frontier = expansions + 1
      /\ expansions \in Nat /\ Frontier \in Nat \ {0}
      /\ UNCHANGED <<selector, exchanges, selected_roots, network_name_fallbacks>>
  BY AtCapture DEF TakeCapture
<1>2. RootKind' = RootKind
  BY <1>1, RootStays
<1>3. \A r : Root(r, RootKind)' = TheRoot(r)
  <2>1. \A r : TheRoot(r)' = TheRoot(r)
    BY <1>1, RootStays DEF TheRoot
  <2>2. \A r : Root(r, RootKind)' = TheRoot(r)'
    BY DEF Root, TheRoot, RootReason
  <2>. QED BY <2>1, <2>2
<1>4. selected_roots = RootsRead
  BY <1>1 DEF Ledger, Rooted, RootsRead
<1>5. selected_roots' = {Root(e.resource, RootKind)' : e \in Inspections(RootKind)'}
  <2>1. Inspections(RootKind)' = ReadOf(RootKind)
    <3>1. \A k : k = RootKind => Inspections(k)' = ReadOf(k)
      BY Captures
    <3>. QED BY <1>2, <3>1 DEF Inspections
  <2>. QED BY <1>1, <1>3, <1>4, <2>1 DEF RootsRead
<1>6. Cardinality(selected_roots') = capture'.bounds.selected_resources
  <2>1. Cardinality(RootsRead) = Cardinality(ReadKeys(RootKind))
    BY <1>1, RootsCounted, KeysCounted DEF Ledger
  <2>2. selected_resources = Cardinality(ReadKeys(RootKind))
    BY <1>1, Captures DEF Ledger, Rooted, Expanding
  <2>. QED BY <1>1, <1>4, <2>1, <2>2, Captures
<1>7. \A e \in Captured' : e.request.op = "ListContainers" =>
         Keys("Container")' = Matches(selector, e.reply.body)'
  BY <1>1, Captures DEF Ledger, Listed
<1>8. capture'.bounds.expansions = Cardinality(UNION {Inspections(kind)' : kind \in Kinds})
  <2>1. UNION {ReadOf(kind) : kind \in Kinds} = Completed
    BY CompletedKinds DEF ReadOf
  <2>2. UNION {Inspections(kind)' : kind \in Kinds} = Completed
    BY <2>1, Captures
  <2>3. Cardinality(Completed) = expansions
    BY <1>1, InspectionsCounted DEF Ledger
  <2>. QED BY <2>2, <2>3, Captures
<1>. QED BY <1>5, <1>6, <1>7, <1>8 DEF RootsMatchSelection

\* Taking the capture keeps the ledger.
LEMMA TakeCaptureLedger == ASSUME Ledgers, BudgetHolds', TakeCapture PROVE LedgerInv'
<1>1. result' = outcome' /\ pc' = "done"
  BY AtCapture
<1>2. CASE capture' = None
  <2>1. outcome' # None /\ outcome' \notin InternalErrors
    BY CaptureOutcome, NoneIsNone DEF Results, InternalErrors
  <2>. QED BY <1>2, <2>1, ReturnLedger DEF TakeCapture
<1>3. CASE capture' # None
  <2>1. outcome' = "Ok" /\ capture' = [bounds |-> B!Counts, exchanges |-> exchanges]
    BY <1>3, CaptureOutcome
  <2>2. Final'
    BY <1>3, <2>1, CaptureCloses, CaptureHoldsWhatWasAsked, CaptureMatchesRoots DEF Final
  <2>3. NoInternalError' /\ result' # None
    BY <1>1, <2>1, NoneIsNone DEF NoInternalError, InternalErrors, Results
  <2>. QED BY <2>2, <2>3 DEF LedgerInv
<1>. QED BY <1>2, <1>3

\* Every step of acquisition keeps the ledger.
LEMMA LedgerStep == Ledgers /\ BudgetHolds' /\ [Next]_vars => LedgerInv'
<1>. SUFFICES ASSUME Ledgers, BudgetHolds', [Next]_vars PROVE LedgerInv'
  OBVIOUS
<1>1. CASE Own
  BY <1>1, ValidateLedger, SendLedger, ConnectLedger, GiveUpLedger, UnusableLedger, GotVersionLedger,
     GotInfoLedger, GotListLedger, SelectLedger, GotContainerLedger, GotNetworkLedger, GotVolumeLedger,
     FinishLedger, TakeCaptureLedger DEF Own
<1>2. CASE TransportFails \/ Receive \/ Tick \/ DaemonChanges \/ Cancel
  BY <1>2, TransportFailsLedger, ReceiveLedger, TickLedger, DaemonChangesLedger, CancelLedger
<1>3. CASE UNCHANGED vars
  <2>1. CASE result = None
    BY <1>3, <2>1, Known, IdleLedger DEF Running, vars, budget
  <2>2. CASE result # None
    <3>1. UNCHANGED <<selector, selected_roots, network_name_fallbacks, capture, result>>
      BY <1>3 DEF vars, budget, walk
    <3>2. Captured' = Captured
      BY <3>1 DEF Captured
    <3>3. \A kind : Inspections(kind)' = Inspections(kind) /\ Keys(kind)' = Keys(kind)
                     /\ Chosen(kind)' = Chosen(kind)
      BY <3>1, <3>2 DEF Inspections, Keys, Chosen, SetOf
    <3>4. Endpoints' = Endpoints
      BY <3>3 DEF Endpoints
    <3>5. CaptureIsClosed' /\ FallbackMeansNameOnly' /\ CaptureIdentified' /\ NoAliasCaptured'
      BY <3>1, <3>2, <3>3, <3>4 DEF Ledgers, LedgerInv, Final, CaptureIsClosed, FallbackMeansNameOnly,
         CaptureIdentified, NoAliasCaptured
    <3>6. RootsMatchSelection'
      <4>1. RootKind' = RootKind /\ RootReason' = RootReason
        BY <3>1, RootStays
      <4>2. \A r : Root(r, RootKind)' = Root(r, RootKind)
        BY <4>1 DEF Root, RootReason
      <4>3. Inspections(RootKind)' = Inspections(RootKind)
        BY <3>2, <4>1 DEF Inspections
      <4>. QED BY <3>1, <3>2, <3>3, <4>2, <4>3 DEF Ledgers, LedgerInv, Final, RootsMatchSelection
    <3>. QED BY <2>2, <3>1, <3>5, <3>6 DEF Ledgers, LedgerInv, Final, NoInternalError
  <2>. QED BY <2>1, <2>2
<1>. QED BY <1>1, <1>2, <1>3 DEF Next

\* The ledger, the budget and the walk together are invariant.
LEMMA LedgerInvariance == Spec => []LedgerInv
<1>1. LedgerInv /\ (WalkInv /\ BudgetHolds /\ BudgetHolds') /\ [Next]_vars => LedgerInv'
  BY LedgerStep DEF Ledgers
<1>. QED BY <1>1, LedgerInit, WalkInvariance, BudgetInvariance, PTL DEF Spec

(***************************************************************************)
(* A walk that is abandoned never becomes a capture.                       *)
(***************************************************************************)
Overdue == cancelled \/ clock >= MaxElapsed
Abandoned == capture = None /\ Overdue /\ pc # "capture"

\* Only the last look at the deadline leads to the capture, and only the
\* capture is made there; time and the caller are out of every step's hands.
LEMMA KeepsGoing ==
  ASSUME pc # "capture", Own, ~Finish
  PROVE  UNCHANGED <<clock, cancelled, capture>> /\ pc' # "capture"
<1>1. CASE Validate \/ Connect \/ GiveUp
  BY <1>1 DEF Validate, Connect, GiveUp, Return, budget
<1>2. CASE Send
  <2>1. ASSUME NEW q, NEW r, Record(q, r) PROVE UNCHANGED <<clock, cancelled, capture>> /\ pc' # "capture"
    <3>1. UNCHANGED <<clock, capture>>
      BY <2>1 DEF Record, B!RecordRequest
    <3>. QED BY <2>1, <3>1 DEF Record, Return
  <2>. QED BY <1>2, <2>1 DEF Send, RecordPlain, RecordInspect
<1>3. CASE Unusable \/ GotVersion \/ GotInfo \/ GotList \/ GotContainer \/ GotNetwork \/ GotVolume
  <2>1. Complete
    BY <1>3 DEF Unusable, GotVersion, GotInfo, GotList, GotContainer, GotNetwork, GotVolume
  <2>2. UNCHANGED <<clock, capture>>
    BY <2>1 DEF Complete, B!EndRead
  <2>3. CASE Unusable \/ GotVersion \/ GotInfo \/ GotList
    BY <2>2, <2>3 DEF Unusable, GotVersion, GotInfo, GotList, Return, Goto
  <2>4. CASE GotContainer
    <3>1. (\E v : Return(v)) \/ (\E cs, nets, vols : Onward(cs, nets, vols))
      BY <2>4 DEF GotContainer
    <3>. QED BY <2>2, <2>4, <3>1, OnwardGoes DEF GotContainer, Return
  <2>5. CASE GotNetwork
    <3>1. (\E v : Return(v)) \/ (\E cs, nets, vols : Onward(cs, nets, vols))
      BY <2>5 DEF GotNetwork
    <3>. QED BY <2>2, <2>5, <3>1, OnwardGoes DEF GotNetwork, Return
  <2>6. CASE GotVolume
    <3>1. (\E v : Return(v)) \/ (\E cs, nets, vols : Onward(cs, nets, vols))
      BY <2>6 DEF GotVolume
    <3>. QED BY <2>2, <2>6, <3>1, OnwardGoes DEF GotVolume, Return
  <2>. QED BY <1>3, <2>3, <2>4, <2>5, <2>6
<1>4. CASE Select
  <2>1. UNCHANGED <<clock, capture>>
    BY <1>4, Selecting DEF B!RecordSelection
  <2>2. CASE outcome' = "Ok"
    BY <1>4, <2>1, <2>2, Selecting, OnwardGoes
  <2>3. CASE outcome' # "Ok"
    BY <1>4, <2>1, <2>3, Selecting DEF Return
  <2>. QED BY <2>2, <2>3
<1>. QED BY <1>1, <1>2, <1>3, <1>4 DEF Own, TakeCapture

\* An abandoned acquisition stays abandoned.
LEMMA AbandonedStays == BudgetHolds /\ Abandoned /\ [Next]_vars => Abandoned'
<1>. SUFFICES ASSUME BudgetHolds, Abandoned, [Next]_vars PROVE Abandoned'
  OBVIOUS
<1>1. clock \in Nat /\ MaxElapsed \in Nat
  BY Limits DEF BudgetHolds, BP!BudgetInv, BP!TypeOK
<1>2. CASE Own /\ ~Finish
  BY <1>2, KeepsGoing DEF Abandoned, Overdue
<1>3. CASE Finish
  <2>1. RemainingError # "Ok"
    BY <1>1 DEF Abandoned, Overdue, RemainingError
  <2>2. Return(RemainingError) /\ UNCHANGED <<budget, cancelled>>
    BY <1>3, <2>1 DEF Finish
  <2>. QED BY <2>2 DEF Return, budget, Abandoned, Overdue
<1>4. CASE TransportFails
  BY <1>4 DEF TransportFails, Return, budget, Abandoned, Overdue
<1>5. CASE Receive
  <2>1. UNCHANGED <<clock, capture>>
    BY <1>5 DEF Receive, B!BeginRead
  <2>. QED BY <1>5, <2>1 DEF Receive, Return, Abandoned, Overdue
<1>6. CASE Tick
  BY <1>1, <1>6 DEF Tick, B!Tick, Abandoned, Overdue
<1>7. CASE DaemonChanges \/ Cancel
  BY <1>7 DEF DaemonChanges, Cancel, budget, Abandoned, Overdue
<1>8. CASE UNCHANGED vars
  BY <1>8 DEF vars, budget, Abandoned, Overdue
<1>. QED BY <1>2, <1>3, <1>4, <1>5, <1>6, <1>7, <1>8 DEF Next

\* acquire looks at the deadline and the caller's cancellation for the last
\* time before into_capture: a walk that is cancelled or out of time before
\* that never becomes a capture, whatever it was doing.
THEOREM AbandonedNeverCaptured == Spec => AbandonedIsFinal
<1>1. WalkInv /\ (cancelled \/ clock >= MaxElapsed) /\ pc \notin {"capture", "done"} => Abandoned
  BY StillRunning DEF Abandoned, Overdue, Control
<1>2. Abandoned => capture = None
  BY DEF Abandoned
<1>. QED BY <1>1, <1>2, AbandonedStays, WalkInvariance, BudgetInvariance, PTL DEF Spec, AbandonedIsFinal

(***************************************************************************)
(* The properties of the capture.                                          *)
(***************************************************************************)
\* acquire never returns an error its own bookkeeping should exclude: no
\* request is recorded over an outstanding one, no reference is bound twice, no
\* read is made before the API version is known, no capture is refused by its
\* own accounting.  What a caller sees is a limit, the time, a cancellation,
\* the transport, or what the daemon said.
THEOREM OnlyOrdinaryErrors == Spec => []NoInternalError
<1>1. LedgerInv => NoInternalError
  BY DEF LedgerInv
<1>. QED BY <1>1, LedgerInvariance, PTL

\* Every network and volume a captured container mentions is captured with it,
\* and nothing else and nothing twice, however the daemon changed meanwhile
\* (related_ids and the three inspect loops of acquire).
THEOREM CapturesAreClosed == Spec => []CaptureIsClosed
<1>1. LedgerInv => CaptureIsClosed
  BY DEF LedgerInv, Final
<1>. QED BY <1>1, LedgerInvariance, PTL

\* network_name_fallbacks holds exactly the captured networks that no captured
\* endpoint gives by id, whether the id was met before the name or after it.
THEOREM FallbacksAreNameOnly == Spec => []FallbackMeansNameOnly
<1>1. LedgerInv => FallbackMeansNameOnly
  BY DEF LedgerInv, Final
<1>. QED BY <1>1, LedgerInvariance, PTL

\* Every captured inspection holds the object it was asked for: inspect_identity
\* compares the key it was looked up by, which the fallback marks decide.
THEOREM CapturesAreIdentified == Spec => []CaptureIdentified
<1>1. LedgerInv => CaptureIdentified
  BY DEF LedgerInv, Final
<1>. QED BY <1>1, LedgerInvariance, PTL

\* No network is captured under two keys: inspected_network_ids refuses the
\* second.
THEOREM NetworksCapturedOnce == Spec => []NoAliasCaptured
<1>1. LedgerInv => NoAliasCaptured
  BY DEF LedgerInv, Final
<1>. QED BY <1>1, LedgerInvariance, PTL

\* The roots of a capture are its inspections of the selected kind, as many as
\* the selection that was charged and, for the list selectors, the containers
\* the captured list gives; its expansions are its inspections.
THEOREM RootsAreTheSelection == Spec => []RootsMatchSelection
<1>1. LedgerInv => RootsMatchSelection
  BY DEF LedgerInv, Final
<1>. QED BY <1>1, LedgerInvariance, PTL
(***************************************************************************)
(* A daemon that neither changes nor answers nonsense.                     *)
(***************************************************************************)
Stable == MaxChanges = 0 /\ BadBodies = {}

\* All that was read, and all that is being read, is an answer of the one world.
SteadyInv ==
  /\ changes = 0
  /\ result = None =>
       /\ \A e \in Range(exchanges) : e.reply \in Answers(world, e.request) /\ e.reply.status = 200
       /\ phase = "read" => answer.reply \in Answers(world, pending.request)
  /\ StableRefusal

\* None is not the refusal the property is about.
LEMMA NoneIsNoRefusal == None # "Shape"
  BY NoneIsNone DEF Results

\* The walk starts with nothing read.
LEMMA SteadyInit == Init => SteadyInv
<1>. SUFFICES ASSUME Init PROVE SteadyInv
  OBVIOUS
<1>1. Range(exchanges) = {} /\ phase # "read" /\ changes = 0 /\ result = None
  BY DEF Init, B!Init, Range
<1>. QED BY <1>1, NoneIsNoRefusal DEF SteadyInv, StableRefusal

\* Whatever returns another error than the shape keeps it.
LEMMA SteadyReturn ==
  ASSUME SteadyInv, NEW v, Return(v), v # "Shape", v # None, UNCHANGED daemon
  PROVE  SteadyInv'
<1>1. result' = v /\ changes' = 0
  BY DEF Return, SteadyInv, daemon
<1>. QED BY <1>1 DEF SteadyInv, StableRefusal

\* So does whatever reads nothing.
LEMMA SteadyIdle ==
  ASSUME SteadyInv, result = None, UNCHANGED <<exchanges, daemon, result>>,
         phase' = "read" => UNCHANGED <<phase, answer, pending>>
  PROVE  SteadyInv'
<1>1. changes' = 0 /\ result' = None /\ world' = world
  BY DEF SteadyInv, daemon
<1>2. \A e \in Range(exchanges)' : e.reply \in Answers(world', e.request) /\ e.reply.status = 200
  BY <1>1 DEF SteadyInv, Range
<1>3. phase' = "read" => answer'.reply \in Answers(world', pending'.request)
  BY <1>1 DEF SteadyInv
<1>. QED BY <1>1, <1>2, <1>3, NoneIsNoRefusal DEF SteadyInv, StableRefusal

\* And whatever goes on after a usable answer.
LEMMA SteadyAnswer ==
  ASSUME Ledgers, SteadyInv, Complete, Usable, NEW label, Goto(label), UNCHANGED daemon
  PROVE  SteadyInv'
<1>1. Range(exchanges)' = Range(exchanges) \cup {Exchanged} /\ result = None
  BY AnsweredExchange
<1>2. result' = None /\ phase' = "send" /\ changes' = 0 /\ world' = world
  BY <1>1 DEF Goto, SteadyInv, daemon
<1>3. phase = "read" /\ Exchanged.request = pending.request /\ Exchanged.reply = answer.reply
  BY DEF Exchanged, Complete
<1>. HIDE DEF Exchanged
<1>4. \A e \in Range(exchanges)' : e.reply \in Answers(world', e.request) /\ e.reply.status = 200
  BY <1>1, <1>2, <1>3 DEF SteadyInv, Usable
<1>. QED BY <1>2, <1>4, NoneIsNoRefusal DEF SteadyInv, StableRefusal

\* What the walk and its budget do before and between the reads keeps it.
LEMMA SteadyBetween ==
  ASSUME Ledgers, SteadyInv,
         Validate \/ Send \/ Connect \/ GiveUp \/ Select \/ Finish \/ TakeCapture
  PROVE  SteadyInv'
<1>1. result = None /\ Control
  BY Known, StillRunning DEF Ledgers, Validate, Send, RecordPlain, RecordInspect, Record, Connect, GiveUp, Select,
     Finish, TakeCapture
<1>2. UNCHANGED daemon
  BY DEF Validate, Send, RecordPlain, RecordInspect, Record, Connect, GiveUp, Select, Finish, TakeCapture
<1>3. RemainingError \in {"Cancelled", "Deadline", "Ok"}
  BY DEF RemainingError
<1>4. CASE Validate
  <2>1. exchanges' = exchanges
    BY <1>4 DEF Validate, budget
  <2>2. SelectorError \in Results \ {"Shape"}
    BY DEF SelectorError, Results
  <2>3. CASE pc' = "version" /\ UNCHANGED <<phase, result>>
    BY <1>1, <1>2, <1>4, <2>1, <2>3, SteadyIdle DEF Validate, Control
  <2>. QED BY <1>2, <1>4, <2>2, <2>3, SteadyReturn, NoneIsNone DEF Validate
<1>5. ASSUME NEW q, NEW r, Record(q, r) PROVE SteadyInv'
  <2>1. ~failed /\ B!RecordRequest(q, r, api # None)
    BY <1>1, <1>5 DEF Record, Control
  <2>2. exchanges' = exchanges /\ outcome' \in Results \ {"Shape"}
    BY <2>1, RecordOutcome DEF Results
  <2>3. CASE phase' = "connect" /\ UNCHANGED <<pc, result>>
    BY <1>1, <1>5, <2>2, <2>3, SteadyIdle DEF Record
  <2>. QED BY <1>2, <1>5, <2>2, <2>3, SteadyReturn, NoneIsNone DEF Record
<1>6. CASE Send
  BY <1>5, <1>6 DEF Send, RecordPlain, RecordInspect
<1>7. CASE Connect
  <2>1. CASE phase' = "receive" /\ UNCHANGED <<pc, result>>
    BY <1>1, <1>2, <1>7, <2>1, SteadyIdle DEF Connect, budget
  <2>. QED BY <1>2, <1>3, <1>7, <2>1, SteadyReturn, NoneIsNone DEF Connect, Results
<1>8. CASE GiveUp
  BY <1>2, <1>3, <1>8, SteadyReturn, NoneIsNone DEF GiveUp, Results
<1>9. CASE Select
  <2>1. Counted \in Nat /\ B!RecordSelection(Counted) /\ selected_resources \in Nat /\ ~failed
    BY <1>1, <1>9, CountFits, Selecting, Limits DEF Ledgers, Control
  <2>2. exchanges' = exchanges /\ outcome' \in Results \ {"Shape"}
    BY <2>1, SelectionOutcome DEF Results
  <2>3. CASE outcome' = "Ok"
    <3>1. PICK label \in {"containers", "networks", "volumes", "finish"} : Goto(label)
      BY <1>9, <2>3, Selecting, OnwardGoes
    <3>. QED BY <1>1, <1>2, <2>2, <3>1, SteadyIdle DEF Goto
  <2>. QED BY <1>2, <1>9, <2>2, <2>3, Selecting, SteadyReturn, NoneIsNone
<1>10. CASE Finish
  <2>1. CASE Goto("capture")
    BY <1>1, <1>2, <1>10, <2>1, SteadyIdle DEF Finish, Goto, budget
  <2>. QED BY <1>2, <1>3, <1>10, <2>1, SteadyReturn, NoneIsNone DEF Finish, Results
<1>11. CASE TakeCapture
  <2>1. outcome' \in Results \ {"Shape"}
    BY <1>11 DEF TakeCapture, B!IntoCapture, B!CaptureError, Results
  <2>. QED BY <1>2, <1>11, <2>1, SteadyReturn, NoneIsNone DEF TakeCapture
<1>. QED BY <1>4, <1>6, <1>7, <1>8, <1>9, <1>10, <1>11

\* The answer that is complete is the one world's.
LEMMA SteadyBody ==
  ASSUME Stable, Ledgers, SteadyInv, Complete, Usable
  PROVE  /\ result = None /\ Control /\ Keyed /\ Asked /\ Ledger /\ world \in Worlds
         /\ answer.reply \in Answers(world, pending.request) /\ answer.reply.status = 200
<1>1. result = None /\ Control /\ Keyed /\ Asked /\ Ledger
  BY AnsweredExchange
<1>. QED BY <1>1 DEF SteadyInv, Complete, Usable, Control

\* A list is never refused for its shape.
LEMMA SteadyList ==
  ASSUME Stable, Ledgers, SteadyInv, GotList
  PROVE  SteadyInv'
<1>1. Complete /\ Usable /\ pc = "list" /\ UNCHANGED daemon
  BY DEF GotList
<1>2. Body = ListBody(world) /\ Body # Malformed
  <2>1. /\ result = None /\ Control /\ Asked /\ world \in Worlds
        /\ answer.reply \in Answers(world, pending.request) /\ answer.reply.status = 200
    BY <1>1, SteadyBody
  <2>2. pending.request = Plain("ListContainers")
    BY <1>1, <2>1, AnsweredExchange DEF Asked
  <2>3. Plain("ListContainers") \in Requests
    BY DEF Plain, Requests, Reads
  <2>. QED BY <2>1, <2>2, <2>3, ListedBody, DaemonAssumption DEF Body
<1>3. CASE Return("Selection")
  BY <1>1, <1>3, SteadyReturn, NoneIsNone DEF Results
<1>4. CASE Goto("select")
  BY <1>1, <1>4, SteadyAnswer
<1>. QED BY <1>2, <1>3, <1>4 DEF GotList

\* The body of an inspection is an object of the one world under that key.
LEMMA SteadyInspection ==
  ASSUME Stable, Ledgers, SteadyInv, Complete, Usable, pc \in {"containers", "networks", "volumes"}
  PROVE  /\ Body \in Inspected(world, AskedKind, AskedKey) /\ Body # Malformed
         /\ AskedKey \in NativeIds
<1>1. /\ result = None /\ Control /\ Keyed /\ Asked /\ world \in Worlds
      /\ answer.reply \in Answers(world, pending.request) /\ answer.reply.status = 200
  BY SteadyBody
<1>2. /\ pending.request = InspectOf(AskedKind, AskedKey) /\ AskedKind \in Kinds
      /\ AskedKey \in Todo(AskedKind)
  BY <1>1, AnsweredExchange, AskedAbout
<1>3. AskedKey \in NativeIds
  BY <1>1, <1>2 DEF Keyed, Todo, Kinds
<1>4. InspectOf(AskedKind, AskedKey) \in Requests
  BY <1>2, <1>3 DEF InspectOf, Requests, Objects
<1>. QED BY <1>1, <1>2, <1>3, <1>4, InspectedBody, DaemonAssumption DEF Body

\* Nor is a container.
LEMMA SteadyContainer ==
  ASSUME Stable, Ledgers, SteadyInv, GotContainer
  PROVE  SteadyInv'
<1>1. Complete /\ Usable /\ pc = "containers" /\ UNCHANGED daemon
  BY DEF GotContainer
<1>2. AskedKind = "Container"
  BY <1>1, AskedAbout, AnsweredExchange
<1>3. Identity("Id", AskedKey)
  <2>1. Body \in Inspected(world, "Container", AskedKey) /\ Body # Malformed
    BY <1>1, <1>2, SteadyInspection
  <2>2. Inspected(world, "Container", AskedKey) =
          {ContainerBody(world, c) : c \in DOMAIN world.containers \cap {AskedKey}}
    BY DEF Inspected
  <2>3. Body.Id = AskedKey
    BY <2>1, <2>2 DEF ContainerBody
  <2>. QED BY <2>1, <2>3 DEF Identity
<1>4. CASE Return("Expansions")
  BY <1>1, <1>4, SteadyReturn, NoneIsNone DEF Results
<1>5. ASSUME NEW cs, NEW nets, NEW vols, Onward(cs, nets, vols) PROVE SteadyInv'
  <2>1. \E label : Goto(label)
    BY <1>5 DEF Onward
  <2>. QED BY <1>1, <2>1, SteadyAnswer
<1>. QED BY <1>3, <1>4, <1>5 DEF GotContainer, AskedKey

\* Nor a volume.
LEMMA SteadyVolume ==
  ASSUME Stable, Ledgers, SteadyInv, GotVolume
  PROVE  SteadyInv'
<1>1. Complete /\ Usable /\ pc = "volumes" /\ UNCHANGED daemon
  BY DEF GotVolume
<1>2. AskedKind = "Volume"
  BY <1>1, AskedAbout, AnsweredExchange
<1>3. Identity("Name", AskedKey)
  <2>1. Body \in Inspected(world, "Volume", AskedKey) /\ Body # Malformed
    BY <1>1, <1>2, SteadyInspection
  <2>2. Inspected(world, "Volume", AskedKey) =
          {[Name |-> v, fields |-> world.volumes[v]] : v \in DOMAIN world.volumes \cap {AskedKey}}
    BY DEF Inspected
  <2>3. Body.Name = AskedKey
    BY <2>1, <2>2
  <2>. QED BY <2>1, <2>3 DEF Identity
<1>4. ASSUME NEW cs, NEW nets, NEW vols, Onward(cs, nets, vols) PROVE SteadyInv'
  <2>1. \E label : Goto(label)
    BY <1>4 DEF Onward
  <2>. QED BY <1>1, <2>1, SteadyAnswer
<1>. QED BY <1>3, <1>4 DEF GotVolume, AskedKey

\* A network looked up before is one of the world's, and was met under its key.
LEMMA SteadyLookup ==
  ASSUME Stable, Ledgers, Ledger, SteadyInv, result = None, NEW f \in ReadOf("Network"), world \in Worlds,
         NEW net \in world.networks, net.Id = f.reply.body.Id
  PROVE  f.request.object[2] \in {net.Id, net.Name}
<1>1. /\ f \in Completed /\ f \in Range(exchanges) /\ f.request.op = "Inspect"
      /\ f.request.object[1] = "Network"
  BY DEF ReadOf, Completed
<1>2. f.reply \in Answers(world, f.request) /\ f.reply.status = 200
  BY <1>1 DEF SteadyInv
<1>3. f.reply.body[IF Named_(f) THEN "Name" ELSE "Id"] = f.request.object[2]
  BY <1>1 DEF Ledger, Identified
<1>4. CASE f.reply.body \in world.networks
  BY <1>3, <1>4, DaemonAssumption
<1>5. Answers(world, f.request) \subseteq {Reply(200, b) : b \in world.networks} \cup {Reply(404, None)}
  BY <1>1 DEF Answers, Inspected
<1>. QED BY <1>2, <1>4, <1>5 DEF Reply

\* A network is refused for its shape only with a cause to show.
LEMMA SteadyNetwork ==
  ASSUME Stable, Ledgers, SteadyInv, GotNetwork
  PROVE  SteadyInv'
<1>1. Complete /\ Usable /\ pc = "networks" /\ UNCHANGED <<daemon, network_name_fallbacks>>
  BY DEF GotNetwork
<1>2. /\ result = None /\ Control /\ Asked /\ Ledger /\ world \in Worlds
      /\ Range(exchanges)' = Range(exchanges) \cup {Exchanged}
  BY <1>1, SteadyBody, AnsweredExchange
<1>3. AskedKind = "Network"
  BY <1>1, <1>2, AskedAbout, AnsweredExchange
<1>4. /\ Exchanged.request.op = "Inspect" /\ Exchanged.request.object[1] = "Network"
      /\ Exchanged.request.object[2] = AskedKey /\ Exchanged.resource = expansions
      /\ Inspecting /\ Frontier = expansions /\ AskedKey \in DOMAIN networks /\ expansions \in Nat
  BY <1>1, <1>3, InspectAnswer DEF Todo
<1>. HIDE DEF Exchanged
<1>0. PICK x : x = Exchanged
  OBVIOUS
<1>5. Body \in world.networks /\ AskedKey \in {Body.Id, Body.Name} /\ Body # Malformed
  <2>1. Body \in Inspected(world, "Network", AskedKey) /\ Body # Malformed
    BY <1>1, <1>3, SteadyInspection
  <2>. QED BY <2>1 DEF Inspected
<1>6. x \in Lookups' /\ ReadOf("Network") \subseteq Lookups'
  BY <1>0, <1>2, <1>4 DEF Lookups, ReadOf, Completed
<1>7. Role(x)' = IF networks[AskedKey] THEN "Name" ELSE "Id"
  <2>1. expansions \in network_name_fallbacks <=> networks[AskedKey]
    BY <1>1, <1>2, <1>4 DEF Ledger, Marked, AskedKey
  <2>. QED BY <1>0, <1>1, <1>4, <2>1 DEF Role
<1>8. CASE ~FreshNetwork(AskedKey) /\ Return("Shape")
  <2>1. result' = "Shape" /\ changes' = 0 /\ world' = world
    BY <1>1, <1>8 DEF Return, SteadyInv, daemon
  <2>2. CASE Body[IF networks[AskedKey] THEN "Name" ELSE "Id"] # AskedKey
    <3>1. Body[Role(x)'] # x.request.object[2]
      BY <1>0, <1>4, <1>7, <2>2
    <3>2. StableRefusal'
      BY <1>0, <1>4, <1>5, <1>6, <2>1, <3>1 DEF StableRefusal
    <3>. QED BY <2>1, <3>2, NoneIsNoRefusal DEF SteadyInv
  <2>3. CASE Body.Id \in inspected_network_ids
    <3>1. PICK f \in ReadOf("Network") : f.reply.body.Id = Body.Id
      BY <1>2, <2>3 DEF Ledger, Identified
    <3>2. f.request.object[2] \in {Body.Id, Body.Name}
      BY <1>2, <1>5, <3>1, SteadyLookup
    <3>3. f \in Lookups' \ {x}
      <4>1. f.resource \in 1 .. expansions - 1
        BY <1>2, <1>4 DEF Ledger, Numbered, ReadOf
      <4>2. f # x
        BY <1>0, <1>4, <4>1
      <4>. QED BY <1>6, <4>2
    <3>4. StableRefusal'
      BY <1>0, <1>4, <1>5, <1>6, <2>1, <3>2, <3>3 DEF StableRefusal
    <3>. QED BY <2>1, <3>4, NoneIsNoRefusal DEF SteadyInv
  <2>. QED BY <1>5, <1>8, <2>2, <2>3 DEF FreshNetwork, Identity
<1>9. ASSUME NEW cs, NEW nets, NEW vols, Onward(cs, nets, vols) PROVE SteadyInv'
  <2>1. \E label : Goto(label)
    BY <1>9 DEF Onward
  <2>. QED BY <1>1, <2>1, SteadyAnswer
<1>. QED BY <1>8, <1>9 DEF GotNetwork, AskedKey

\* Every step keeps it, while the daemon is stable.
LEMMA SteadyStep ==
  ASSUME Stable
  PROVE  Ledgers /\ SteadyInv /\ [Next]_vars => SteadyInv'
<1>. SUFFICES ASSUME Ledgers, SteadyInv, [Next]_vars PROVE SteadyInv'
  OBVIOUS
<1>1. CASE Unusable
  <2>1. ~failed /\ B!EndRead(answer.len, answer.reply)
    BY <1>1, Known DEF Unusable, Complete
  <2>2. outcome' \in {"Elapsed", "Bytes", "Ok"}
    BY <2>1, EndOutcome
  <2>. QED BY <1>1, <2>2, SteadyReturn, NoneIsNone DEF Unusable, Results
<1>2. CASE GotVersion
  BY <1>2, SteadyReturn, SteadyAnswer, NoneIsNone DEF GotVersion, Results
<1>3. CASE GotInfo
  BY <1>3, SteadyAnswer DEF GotInfo
<1>4. CASE Own
  BY <1>1, <1>2, <1>3, <1>4, SteadyBetween, SteadyList, SteadyContainer, SteadyNetwork, SteadyVolume DEF Own
<1>5. CASE TransportFails
  <2>1. PICK error \in {"Io", "Protocol", "Bytes"} : Return(error)
    BY <1>5 DEF TransportFails
  <2>. QED BY <1>5, <2>1, SteadyReturn, NoneIsNone DEF TransportFails, Results
<1>6. CASE Receive
  <2>1. result = None /\ Control /\ UNCHANGED daemon
    BY <1>6, Known DEF Receive
  <2>2. /\ ~failed /\ reading = FALSE /\ pending # None /\ B!BeginRead
    BY <1>6, <2>1 DEF Receive, Control
  <2>3. /\ UNCHANGED <<clock, B!budget, owned, capture>>
        /\ reading' \/ outcome' = "Elapsed"
    BY <2>2, BeginOutcome
  <2>4. exchanges' = exchanges /\ pending' = pending
    BY <2>3 DEF B!budget
  <2>5. CASE reading'
    <3>1. answer'.reply \in Answers(world, pending.request)
      BY <1>6 DEF Receive, Stable
    <3>2. UNCHANGED result
      BY <1>6, <2>5 DEF Receive
    <3>3. changes' = 0 /\ world' = world
      BY <2>1 DEF SteadyInv, daemon
    <3>4. \A e \in Range(exchanges)' : e.reply \in Answers(world', e.request) /\ e.reply.status = 200
      BY <2>1, <2>4, <3>3 DEF SteadyInv, Range
    <3>. QED BY <2>1, <2>4, <3>1, <3>2, <3>3, <3>4, NoneIsNoRefusal DEF SteadyInv, StableRefusal
  <2>6. CASE ~reading'
    BY <1>6, <2>1, <2>3, <2>6, SteadyReturn, NoneIsNone DEF Receive, Results
  <2>. QED BY <2>5, <2>6
<1>7. CASE Tick \/ Cancel
  <2>1. result = None
    BY <1>7, Known DEF Tick, Cancel
  <2>. QED BY <1>7, <2>1, SteadyIdle DEF Tick, Cancel, B!Tick, B!budget, budget
<1>8. CASE DaemonChanges
  BY <1>8 DEF DaemonChanges, SteadyInv, Stable
<1>9. CASE UNCHANGED vars
  <2>1. UNCHANGED <<changes, result, exchanges, phase, answer, pending, world, network_name_fallbacks>>
    BY <1>9 DEF vars, budget, daemon, walk
  <2>2. Range(exchanges)' = Range(exchanges) /\ Lookups' = Lookups /\ \A e : Role(e)' = Role(e)
    BY <2>1 DEF Lookups, Role
  <2>. QED BY <2>1, <2>2 DEF SteadyInv, StableRefusal
<1>. QED BY <1>4, <1>5, <1>6, <1>7, <1>8, <1>9 DEF Next

\* A daemon that neither changes nor answers nonsense is refused for the shape
\* of its answers only with a cause in its own networks: one was met under two
\* keys, or a key taken for an id is a name, or the other way round
\* (inspect_identity and inspected_network_ids of acquire).
THEOREM StableDaemonsAreRefusedForCause ==
  ASSUME Stable
  PROVE  Spec => []StableRefusal
<1>1. SteadyInv /\ (WalkInv /\ BudgetHolds /\ LedgerInv) /\ [Next]_vars => SteadyInv'
  BY SteadyStep DEF Ledgers
<1>2. SteadyInv => StableRefusal
  BY DEF SteadyInv
<1>. QED BY <1>1, <1>2, SteadyInit, WalkInvariance, BudgetInvariance, LedgerInvariance, PTL DEF Spec

(***************************************************************************)
(* No response is larger than a document the decoder takes.                *)
(***************************************************************************)
Fitting == phase = "read" => answer.len \in Nat /\ ~(answer.len > MaxJson)

\* A response is read up to the allowance, which both sizes bound.
LEMMA FittingStep == WalkInv /\ BudgetHolds /\ Fitting /\ [Next]_vars => Fitting'
<1>. SUFFICES ASSUME WalkInv, BudgetHolds, Fitting, [Next]_vars, phase' = "read"
              PROVE  answer'.len \in Nat /\ ~(answer'.len > MaxJson)
  BY DEF Fitting
<1>1. CASE Receive
  <2>1. PICK n \in BodySizes : n <= Allowance /\ answer'.len = n
    BY <1>1 DEF Receive
  <2>2. n \in Nat /\ MaxJson \in Nat
    BY AcquireAssumption
  <2>3. bytes_read \in Nat /\ MaxTotal \in Nat /\ MaxResponse \in Nat
    <3>1. bytes_read \in 0 .. UsizeMax
      BY DEF BudgetHolds, BP!BudgetInv, BP!TypeOK
    <3>. QED BY <3>1, Limits, AcquireAssumption DEF B!BudgetAssumption, B!ValidLimits
  <2>4. B!Allowance \in Int
    BY <2>3 DEF B!Allowance, B!Smaller
  <2>5. n <= MaxJson
    BY <2>1, <2>2, <2>4 DEF Allowance
  <2>. QED BY <2>1, <2>2, <2>5
<1>2. ASSUME NEW v, Return(v) PROVE FALSE
  BY <1>2 DEF Return
<1>3. ASSUME NEW label, Goto(label) PROVE FALSE
  BY <1>3 DEF Goto
<1>4. ASSUME NEW cs, NEW nets, NEW vols, Onward(cs, nets, vols) PROVE FALSE
  BY <1>3, <1>4 DEF Onward
<1>5. CASE UNCHANGED <<phase, answer>>
  BY <1>5 DEF Fitting
<1>6. CASE TransportFails
  BY <1>2, <1>6 DEF TransportFails
<1>7. ASSUME NEW q, NEW r, Record(q, r) PROVE FALSE
  BY <1>2, <1>7 DEF Record
<1>8. CASE Validate \/ Send \/ Connect \/ GiveUp \/ Unusable \/ TakeCapture
  <2>1. CASE Send
    BY <1>7, <2>1 DEF Send, RecordPlain, RecordInspect
  <2>2. CASE Validate
    BY <1>2, <1>5, <2>2 DEF Validate
  <2>3. CASE Connect
    BY <1>2, <2>3 DEF Connect
  <2>. QED BY <1>2, <1>8, <2>1, <2>2, <2>3 DEF GiveUp, Unusable, TakeCapture
<1>9. CASE GotVersion \/ GotInfo \/ GotList \/ Select \/ GotContainer \/ GotNetwork \/ GotVolume \/ Finish
  BY <1>2, <1>3, <1>4, <1>9 DEF GotVersion, GotInfo, GotList, Select, GotContainer, GotNetwork, GotVolume, Finish
<1>10. CASE Tick \/ DaemonChanges \/ Cancel \/ UNCHANGED vars
  BY <1>5, <1>10 DEF Tick, DaemonChanges, Cancel, vars
<1>. QED BY <1>1, <1>6, <1>8, <1>9, <1>10 DEF Next, Own

\* So is every response of a walk.
LEMMA FittingInvariance == Spec => []Fitting
<1>1. Init => Fitting
  BY DEF Init, Fitting
<1>. QED BY <1>1, FittingStep, WalkInvariance, BudgetInvariance, PTL DEF Spec

(***************************************************************************)
(* The order of the exchanges, which the decoder goes by.                  *)
(***************************************************************************)
\* The version, the info and, for a selector that needs it, the list come
\* first; the inspections follow, each under a reference of its own.
Preliminaries == IF selector.kind \in ListSelectors THEN 3 ELSE 2

VersionTaken(body) ==
  /\ Negotiable(body) /\ api = Negotiated(body)
  /\ body.max \in Nat /\ body.min \in Nat \cup {None}
ListTaken(body) ==
  body # Malformed /\ ~SelectionFails(selector, body) /\ DOMAIN body \subseteq NativeIds
InspectionTaken(e) ==
  /\ e.request.op = "Inspect" /\ e.reply.body # Malformed
  /\ e.request.object[1] = "Network" => e.reply.body.Id # None

EntryTaken(e, i) ==
  /\ e.reply.status = 200 /\ e.api = (i # 1) /\ ~(e.len > MaxJson)
  /\ e.reply.body # Malformed => Seen(e.request, e.reply.body) # Malformed
  /\ i = 1 => e.request = Plain("DaemonVersion") /\ VersionTaken(e.reply.body)
  /\ i = 2 => e.request = Plain("DaemonInfo")
  /\ i = 3 /\ Preliminaries = 3 => e.request = Plain("ListContainers") /\ ListTaken(e.reply.body)
  /\ i > Preliminaries => InspectionTaken(e)

Chronicle(es) ==
  /\ \A i \in 1 .. Len(es) : EntryTaken(es[i], i)
  /\ \A i, j \in 1 .. Len(es) :
       es[i].request.op = "Inspect" /\ es[j].request.op = "Inspect" /\ es[i].resource = es[j].resource
         => i = j

\* How far the exchanges have come at each stage of the walk.
Progress ==
  /\ pc \in {"validate", "version"} => Len(exchanges) = 0 /\ api = None
  /\ pc = "info" => Len(exchanges) = 1
  /\ pc = "list" => Len(exchanges) = 2
  /\ pc = "select" => Len(exchanges) = Preliminaries
  /\ pc \in Expanding => Len(exchanges) >= Preliminaries
  /\ pending # None => pending.api = (pc # "version")
  /\ pc # "validate" /\ selector.kind = "ContainerNames" => selector.items # <<>>

\* A capture is the chronicle of a walk that came to its end.
Recorded ==
  /\ Chronicle(capture.exchanges) /\ Len(capture.exchanges) >= Preliminaries
  /\ capture.exchanges \in Seq(BP!Exchange)
  /\ IsFiniteSet(Captured)
  /\ \A r \in network_name_fallbacks : \E e \in Inspections("Network") : e.resource = r
  /\ \A kind : \A e, f \in Inspections(kind) : e.request.object = f.request.object => e = f
  /\ selector.kind = "ContainerNames" => selector.items # <<>>
  /\ api # None /\ selector \in Selectors

ChronicleInv ==
  /\ result = None => Chronicle(exchanges) /\ Progress
  /\ capture # None => Recorded

\* A walk starts with an empty chronicle.
LEMMA ChronicleInit == Init => ChronicleInv
<1>. SUFFICES ASSUME Init PROVE ChronicleInv
  OBVIOUS
<1>1. /\ exchanges = <<>> /\ capture = None /\ pc = "validate" /\ pending = None /\ api = None
  BY DEF Init, B!Init
<1>2. Len(exchanges) = 0
  BY <1>1
<1>3. Chronicle(exchanges)
  BY <1>2 DEF Chronicle
<1>. QED BY <1>1, <1>2, <1>3 DEF ChronicleInv, Progress, Expanding

\* Whatever returns without a capture keeps it.
LEMMA ChronicleReturn ==
  ASSUME NEW v, Return(v), v # None, capture' = None
  PROVE  ChronicleInv'
  BY DEF Return, ChronicleInv

\* What was taken in stays so, while the selector and the version do.
LEMMA ChronicleStays ==
  ASSUME UNCHANGED <<selector, api>>
  PROVE  Preliminaries' = Preliminaries /\ \A e, i : EntryTaken(e, i)' = EntryTaken(e, i)
<1>1. Preliminaries' = Preliminaries
  BY DEF Preliminaries
<1>2. \A body : VersionTaken(body)' = VersionTaken(body) /\ ListTaken(body)' = ListTaken(body)
  BY DEF VersionTaken, ListTaken
<1>. QED BY <1>1, <1>2 DEF EntryTaken

\* A step that reads nothing keeps it.
LEMMA ChronicleIdle ==
  ASSUME ChronicleInv, result = None, capture' = None, UNCHANGED <<exchanges, selector, api, result>>,
         pending' # None => pc' = pc /\ (pending' = pending \/ pending'.api = (pc # "version")),
         \/ pc' = pc
         \/ pc = "validate" /\ pc' = "version" /\ (selector.kind = "ContainerNames" => selector.items # <<>>)
         \/ pc = "select" /\ pc' \in Expanding
         \/ pc = "finish" /\ pc' = "capture"
  PROVE  ChronicleInv'
<1>1. Preliminaries' = Preliminaries /\ \A e, i : EntryTaken(e, i)' = EntryTaken(e, i)
  BY ChronicleStays
<1>2. Chronicle(exchanges) /\ Progress /\ result' = None
  BY DEF ChronicleInv
<1>3. Chronicle(exchanges)'
  BY <1>1, <1>2 DEF Chronicle
<1>4. Progress'
  <2>1. Len(exchanges)' = Len(exchanges)
    OBVIOUS
  <2>2. Preliminaries \in Nat
    BY DEF Preliminaries
  <2>. QED BY <1>1, <1>2, <2>1, <2>2 DEF Progress, Expanding
<1>. QED BY <1>2, <1>3, <1>4 DEF ChronicleInv

\* What an answer carries is no nonsense to the decoder either.
LEMMA AnswerSeen ==
  ASSUME Ledgers, Complete, Usable, Body # Malformed
  PROVE  Seen(Exchanged.request, Exchanged.reply.body) # Malformed
<1>1. PICK w \in Worlds : answer.reply \in Answers(w, pending.request)
  BY Honest DEF Ledgers
<1>2. pending.request \in Requests
  <2>1. pending # None /\ BP!TypeOK
    BY AnsweredExchange DEF Ledgers, BudgetHolds, BP!BudgetInv
  <2>2. pending \in BP!Pending
    BY <2>1 DEF BP!TypeOK
  <2>. QED BY <2>2 DEF BP!Pending, BP!ReadRequest, Requests
<1>3. Seen(pending.request, answer.reply.body) # Malformed
  BY <1>1, <1>2, ReplayAssumption DEF Usable
<1>4. Exchanged.request = pending.request /\ Exchanged.reply.body = answer.reply.body
  BY DEF Exchanged
<1>. QED BY <1>3, <1>4

\* A usable answer is the chronicle's next entry.
LEMMA ChronicleGrows ==
  ASSUME Ledgers, Fitting, Complete, Usable
  PROVE  /\ exchanges' = Append(exchanges, Exchanged) /\ exchanges \in Seq(BP!Exchange)
         /\ Len(exchanges') = Len(exchanges) + 1 /\ Len(exchanges) \in Nat
         /\ \A i \in 1 .. Len(exchanges) : exchanges'[i] = exchanges[i]
         /\ exchanges'[Len(exchanges) + 1] = Exchanged
         /\ pending' = None /\ capture' = None /\ result = None /\ Control /\ Asked /\ Ledger
         /\ Exchanged.reply.status = 200 /\ Exchanged.reply.body = Body /\ ~(Exchanged.len > MaxJson)
         /\ Exchanged.request = pending.request /\ Exchanged.api = pending.api
         /\ Exchanged.resource = pending.resource /\ pending # None
         /\ (Body # Malformed => Seen(Exchanged.request, Exchanged.reply.body) # Malformed)
<1>1. /\ result = None /\ Control /\ Asked /\ Ledger /\ capture' = None /\ pending # None
  BY AnsweredExchange
<1>2. exchanges' = Append(exchanges, Exchanged) /\ pending' = None
  BY Completing DEF Exchanged, Ledgers
<1>3. exchanges \in Seq(BP!Exchange)
  BY DEF Ledgers, BudgetHolds, BP!BudgetInv, BP!TypeOK
<1>4. /\ Exchanged.reply.status = 200 /\ Exchanged.reply.body = Body /\ ~(Exchanged.len > MaxJson)
      /\ Exchanged.request = pending.request /\ Exchanged.api = pending.api
      /\ Exchanged.resource = pending.resource
  BY DEF Exchanged, Usable, Body, Fitting, Complete
<1>5. Body # Malformed => Seen(Exchanged.request, Exchanged.reply.body) # Malformed
  BY AnswerSeen
<1>. HIDE DEF Exchanged
<1>. QED BY <1>1, <1>2, <1>3, <1>4, <1>5

\* A plain answer keeps the chronicle, in its place and taken as it has to be.
LEMMA ChroniclePlain ==
  ASSUME Ledgers, Fitting, ChronicleInv, Complete, Usable, pc \in {"version", "info", "list"},
         pc' \in {"info", "list", "select"}, result' = None, selector' = selector, NEW b, b = Body,
         pc = "version" => pc' = "info" /\ VersionTaken(b)',
         pc # "version" => api' = api,
         pc = "info" => pc' = (IF selector.kind \in ListSelectors THEN "list" ELSE "select"),
         pc = "list" => pc' = "select" /\ ListTaken(b)
  PROVE  ChronicleInv'
<1>1. /\ Len(exchanges') = Len(exchanges) + 1 /\ Len(exchanges) \in Nat
      /\ \A i \in 1 .. Len(exchanges) : exchanges'[i] = exchanges[i]
      /\ exchanges'[Len(exchanges) + 1] = Exchanged
      /\ pending' = None /\ capture' = None /\ result = None /\ Control
      /\ Exchanged.reply.status = 200 /\ Exchanged.reply.body = Body /\ ~(Exchanged.len > MaxJson)
      /\ Exchanged.api = pending.api /\ pending # None
      /\ (Body # Malformed => Seen(Exchanged.request, Exchanged.reply.body) # Malformed)
  BY ChronicleGrows
<1>2. Exchanged.request = Plain(IF pc = "version" THEN "DaemonVersion"
                                ELSE IF pc = "info" THEN "DaemonInfo" ELSE "ListContainers")
  BY PlainAnswer
<1>3. Chronicle(exchanges) /\ Progress
  BY <1>1 DEF ChronicleInv
<1>. HIDE DEF Exchanged
<1>4. PICK x, n, s : x = Exchanged /\ n = Len(exchanges) /\ s = exchanges'
  OBVIOUS
<1>5. Preliminaries' = Preliminaries /\ Preliminaries \in {2, 3}
      /\ (Preliminaries = 3 <=> selector.kind \in ListSelectors)
  BY DEF Preliminaries
<1>6. /\ n = (IF pc = "version" THEN 0 ELSE IF pc = "info" THEN 1 ELSE 2)
      /\ pc = "list" => Preliminaries = 3
  BY <1>1, <1>3, <1>4, <1>5 DEF Progress, Control
<1>7. EntryTaken(x, n + 1)'
  <2>1. x.api = (n + 1 # 1)
    BY <1>1, <1>3, <1>4, <1>6 DEF Progress
  <2>2. /\ n + 1 = 1 => x.request = Plain("DaemonVersion") /\ VersionTaken(b)'
        /\ n + 1 = 2 => x.request = Plain("DaemonInfo")
        /\ n + 1 = 3 => x.request = Plain("ListContainers") /\ ListTaken(b)'
        /\ n + 1 \in 1 .. 3
    BY <1>2, <1>4, <1>6 DEF ListTaken
  <2>. QED BY <1>1, <1>4, <1>5, <1>6, <2>1, <2>2 DEF EntryTaken
<1>8. \A i \in 1 .. n : EntryTaken(s[i], i)'
  <2>1. CASE n = 0
    BY <2>1
  <2>2. CASE n # 0
    <3>1. \A i \in 1 .. n : s[i] = exchanges[i] /\ EntryTaken(s[i], i)
      BY <1>1, <1>3, <1>4 DEF Chronicle
    <3>2. \A e, i : EntryTaken(e, i)' = EntryTaken(e, i)
      BY <1>6, <2>2, ChronicleStays
    <3>. QED BY <3>1, <3>2
  <2>. QED BY <2>1, <2>2
<1>9. Len(s) = n + 1 /\ n \in 0 .. 2 /\ s[n + 1] = x
  BY <1>1, <1>4, <1>6
<1>10. \A i \in 1 .. Len(s) : EntryTaken(s[i], i)'
  BY <1>7, <1>8, <1>9
<1>11. \A i \in 1 .. Len(s) : s[i].request.op # "Inspect"
  <2>1. ASSUME NEW i \in 1 .. Len(s) PROVE s[i].request.op # "Inspect"
    <3>1. i \in {1, 2, 3} /\ (i = 3 => Preliminaries' = 3) /\ EntryTaken(s[i], i)'
      BY <1>5, <1>6, <1>9, <1>10
    <3>. QED BY <3>1 DEF EntryTaken, Plain
  <2>. QED BY <2>1
<1>12. Chronicle(exchanges)'
  BY <1>4, <1>10, <1>11 DEF Chronicle, EntryTaken
<1>13. Progress'
  BY <1>1, <1>3, <1>4, <1>5, <1>6 DEF Progress, Expanding
<1>. QED BY <1>1, <1>12, <1>13 DEF ChronicleInv

\* So is an inspection, under its new reference.
LEMMA ChronicleInspected ==
  ASSUME Ledgers, Fitting, ChronicleInv, Complete, Usable, pc \in {"containers", "networks", "volumes"},
         pc' \in {"containers", "networks", "volumes", "finish"}, result' = None, UNCHANGED <<selector, api>>,
         Body # Malformed, AskedKind = "Network" => Body.Id # None
  PROVE  ChronicleInv'
<1>1. /\ Len(exchanges') = Len(exchanges) + 1 /\ Len(exchanges) \in Nat
      /\ \A i \in 1 .. Len(exchanges) : exchanges'[i] = exchanges[i]
      /\ exchanges'[Len(exchanges) + 1] = Exchanged
      /\ pending' = None /\ capture' = None /\ result = None /\ Control
      /\ Exchanged.reply.status = 200 /\ Exchanged.reply.body = Body /\ ~(Exchanged.len > MaxJson)
      /\ Exchanged.api = pending.api /\ pending # None /\ Ledger /\ exchanges \in Seq(BP!Exchange)
      /\ (Body # Malformed => Seen(Exchanged.request, Exchanged.reply.body) # Malformed)
  BY ChronicleGrows
<1>2. /\ Exchanged.request.op = "Inspect" /\ Exchanged.request.object[1] = AskedKind
      /\ Exchanged.resource = expansions /\ Frontier = expansions /\ expansions \in Nat
  BY InspectAnswer
<1>3. Chronicle(exchanges) /\ Progress
  BY <1>1 DEF ChronicleInv
<1>. HIDE DEF Exchanged
<1>4. PICK x, n, s : x = Exchanged /\ n = Len(exchanges) /\ s = exchanges'
  OBVIOUS
<1>5. Preliminaries' = Preliminaries /\ Preliminaries \in {2, 3} /\ n \in Nat /\ n >= Preliminaries
  BY <1>1, <1>3, <1>4 DEF Preliminaries, Progress, Expanding
<1>6. EntryTaken(x, n + 1)
  <2>1. x.api = (n + 1 # 1)
    BY <1>1, <1>3, <1>4, <1>5 DEF Progress
  <2>2. n + 1 # 1 /\ n + 1 # 2 /\ ~(n + 1 = 3 /\ Preliminaries = 3)
    BY <1>5
  <2>3. InspectionTaken(x)
    BY <1>1, <1>2, <1>4 DEF InspectionTaken
  <2>. QED BY <1>1, <1>4, <2>1, <2>2, <2>3 DEF EntryTaken
<1>7. Len(s) = n + 1 /\ s[n + 1] = x /\ \A i \in 1 .. n : s[i] = exchanges[i]
  BY <1>1, <1>4
<1>8. \A i \in 1 .. Len(s) : EntryTaken(s[i], i)
  BY <1>3, <1>4, <1>5, <1>6, <1>7 DEF Chronicle
<1>9. \A i \in 1 .. n : s[i].request.op = "Inspect" => s[i].resource # x.resource
  <2>1. ASSUME NEW i \in 1 .. n, s[i].request.op = "Inspect" PROVE s[i].resource # x.resource
    <3>1. s[i] \in Completed
      BY <1>1, <1>4, <1>7, <2>1 DEF Completed, Range
    <3>2. s[i].resource \in 1 .. expansions - 1
      BY <1>1, <1>2, <3>1 DEF Ledger, Numbered
    <3>. QED BY <1>2, <1>4, <3>2
  <2>. QED BY <2>1
<1>10. \A i, j \in 1 .. Len(s) :
         s[i].request.op = "Inspect" /\ s[j].request.op = "Inspect" /\ s[i].resource = s[j].resource => i = j
  <2>1. \A i, j \in 1 .. n :
         s[i].request.op = "Inspect" /\ s[j].request.op = "Inspect" /\ s[i].resource = s[j].resource => i = j
    BY <1>3, <1>4, <1>7 DEF Chronicle
  <2>2. \A i \in 1 .. Len(s) : i \in 1 .. n \/ i = n + 1
    BY <1>5, <1>7
  <2>. QED BY <1>7, <1>9, <2>1, <2>2
<1>11. Chronicle(exchanges)'
  <2>1. \A e, i : EntryTaken(e, i)' = EntryTaken(e, i)
    BY ChronicleStays
  <2>2. \A i \in 1 .. Len(s) : EntryTaken(s[i], i)'
    BY <1>8, <2>1
  <2>. QED BY <1>4, <1>10, <2>2 DEF Chronicle, EntryTaken
<1>12. Progress'
  BY <1>1, <1>3, <1>4, <1>5, <1>7 DEF Progress, Expanding, Early
<1>. QED BY <1>1, <1>11, <1>12 DEF ChronicleInv

\* A version the walk can use has a maximum, and a minimum or none.
LEMMA VersionBodyOf ==
  ASSUME Ledgers, Complete, Usable, pc = "version", Negotiable(Body)
  PROVE  Body.max \in Nat /\ Body.min \in Nat \cup {None}
<1>1. PICK w \in Worlds : answer.reply \in Answers(w, pending.request)
  BY Honest DEF Negotiable, Ledgers
<1>2. pending.request = Plain("DaemonVersion")
  BY AnsweredExchange DEF Asked, Control
<1>3. Answers(w, Plain("DaemonVersion")) \subseteq
        {Reply(200, [max |-> v.max, min |-> v.min, release |-> w.version.release,
                     fields |-> w.version.fields]) : v \in VersionBodies}
          \cup {Reply(404, None)}
  BY DEF Answers, Plain
<1>4. PICK v \in VersionBodies :
        answer.reply = Reply(200, [max |-> v.max, min |-> v.min, release |-> w.version.release,
                                   fields |-> w.version.fields])
  <2>1. answer.reply # Reply(404, None)
    BY DEF Reply, Usable
  <2>. QED BY <1>1, <1>2, <1>3, <2>1
<1>5. Body.max = v.max /\ Body.min = v.min
  BY <1>4 DEF Body, Reply
<1>. QED BY <1>5, AcquireAssumption, DaemonAssumption

\* The plain answers keep the chronicle.
LEMMA ChroniclePreliminaries ==
  ASSUME Ledgers, Fitting, ChronicleInv, GotVersion \/ GotInfo \/ GotList
  PROVE  ChronicleInv'
<1>1. Complete /\ Usable /\ capture' = None /\ result = None /\ selector' = selector /\ Control
  BY ChronicleGrows DEF GotVersion, GotInfo, GotList
<1>2. PICK b : b = Body
  OBVIOUS
<1>3. CASE GotVersion
  <2>1. CASE Return("Version")
    BY <1>1, <2>1, ChronicleReturn, NoneIsNone DEF Results
  <2>2. CASE Negotiable(Body) /\ api' = Negotiated(Body) /\ Goto("info")
    <3>1. pc' = "info" /\ result' = None /\ pc = "version"
      BY <1>1, <1>3, <2>2 DEF Goto, GotVersion
    <3>2. VersionTaken(b)'
      <4>1. Negotiable(b) /\ api' = Negotiated(b) /\ b.max \in Nat /\ b.min \in Nat \cup {None}
        BY <1>1, <1>2, <2>2, <3>1, VersionBodyOf
      <4>. QED BY <4>1 DEF VersionTaken, Negotiable, Negotiated
    <3>. QED BY <1>1, <1>2, <3>1, <3>2, ChroniclePlain
  <2>. QED BY <1>3, <2>1, <2>2 DEF GotVersion
<1>4. CASE GotInfo
  <2>1. pc' = (IF selector.kind \in ListSelectors THEN "list" ELSE "select") /\ result' = None /\ pc = "info"
        /\ api' = api
    BY <1>1, <1>4 DEF Goto, GotInfo
  <2>. QED BY <1>1, <1>2, <2>1, ChroniclePlain
<1>5. CASE GotList
  <2>1. CASE Return("Shape") \/ Return("Selection")
    BY <1>1, <2>1, ChronicleReturn, NoneIsNone DEF Results
  <2>2. CASE Body # Malformed /\ ~SelectionFails(selector, Body) /\ Goto("select")
    <3>1. pc' = "select" /\ result' = None /\ pc = "list" /\ api' = api
      BY <1>1, <1>5, <2>2 DEF Goto, GotList
    <3>2. DOMAIN Body \subseteq NativeIds
      <4>1. PICK w \in Worlds : answer.reply \in Answers(w, pending.request)
        BY <1>1, <2>2, Honest DEF Ledgers
      <4>2. pending.request = Plain("ListContainers")
        BY <1>1, <3>1, AnsweredExchange DEF Asked
      <4>3. Body = ListBody(w)
        BY <1>1, <4>1, <4>2, ListedBody DEF Usable, Body
      <4>. QED BY <4>3, AcquireAssumption DEF ListBody
    <3>3. ListTaken(b)
      BY <1>2, <2>2, <3>2 DEF ListTaken
    <3>. QED BY <1>1, <1>2, <3>1, <3>3, ChroniclePlain
  <2>. QED BY <1>5, <2>1, <2>2 DEF GotList
<1>. QED BY <1>3, <1>4, <1>5

\* The inspections keep it.
LEMMA ChronicleInspections ==
  ASSUME Ledgers, Fitting, ChronicleInv, GotContainer \/ GotNetwork \/ GotVolume
  PROVE  ChronicleInv'
<1>1. /\ Complete /\ Usable /\ capture' = None /\ result = None /\ UNCHANGED <<selector, api>> /\ Control
      /\ pc \in {"containers", "networks", "volumes"} /\ Asked /\ pending # None
      /\ GotContainer => pc = "containers"
      /\ GotVolume => pc = "volumes"
  BY ChronicleGrows DEF GotContainer, GotNetwork, GotVolume
<1>2. CASE Return("Shape") \/ Return("Expansions")
  BY <1>1, <1>2, ChronicleReturn, NoneIsNone DEF Results
<1>3. ASSUME NEW cs, NEW nets, NEW vols, NEW role, Identity(role, AskedKey), Onward(cs, nets, vols)
      PROVE  ChronicleInv'
  <2>1. PICK label \in {"containers", "networks", "volumes", "finish"} : Goto(label)
    BY <1>3, OnwardGoes
  <2>2. pc' \in {"containers", "networks", "volumes", "finish"} /\ result' = None
    BY <1>1, <2>1 DEF Goto
  <2>3. Body # Malformed
    BY <1>3 DEF Identity
  <2>4. AskedKind = "Network" => Body.Id # None
    <3>1. SUFFICES ASSUME AskedKind = "Network" PROVE Body.Id # None
      OBVIOUS
    <3>2. PICK w \in Worlds : answer.reply \in Answers(w, pending.request)
      BY <1>1, <2>3, Honest DEF Ledgers
    <3>3. pending.request = InspectOf("Network", AskedKey)
      BY <1>1, <3>1, AskedAbout
    <3>4. Body \in Inspected(w, "Network", AskedKey)
      BY <1>1, <3>2, <3>3, InspectedBody DEF Kinds, Usable, Body
    <3>5. Body \in w.networks
      BY <3>4 DEF Inspected
    <3>. QED BY <3>5, DaemonAssumption
  <2>. QED BY <1>1, <2>2, <2>3, <2>4, ChronicleInspected
<1>. QED BY <1>2, <1>3 DEF GotContainer, GotNetwork, GotVolume, FreshNetwork, AskedKey

\* What the walk and its budget do before and between the reads keeps it.
LEMMA ChronicleBetween ==
  ASSUME Ledgers, ChronicleInv, Validate \/ Send \/ Connect \/ GiveUp \/ Select \/ Finish
  PROVE  ChronicleInv'
<1>1. result = None /\ Control /\ capture = None /\ UNCHANGED <<selector, api>>
      /\ (phase = "send" => pending = None)
  <2>1. UNCHANGED <<selector, api>>
    BY DEF Validate, Send, RecordPlain, RecordInspect, Record, Connect, GiveUp, Select, Finish
  <2>2. result = None /\ Control /\ capture = None
    BY Known DEF Validate, Send, RecordPlain, RecordInspect, Record, Connect, GiveUp, Select, Finish
  <2>. QED BY <2>1, <2>2 DEF Control
<1>2. RemainingError \in {"Cancelled", "Deadline", "Ok"}
  BY DEF RemainingError
<1>3. CASE Validate
  <2>1. UNCHANGED <<exchanges, pending, capture>> /\ pending = None /\ pc = "validate"
    BY <1>1, <1>3 DEF Validate, budget, Control
  <2>2. CASE SelectorError = "Ok" /\ pc' = "version" /\ UNCHANGED result
    <3>1. selector.kind = "ContainerNames" => selector.items # <<>>
      BY <2>2 DEF SelectorError
    <3>. QED BY <1>1, <2>1, <2>2, <3>1, ChronicleIdle
  <2>3. SelectorError \in Results
    BY DEF SelectorError, Results
  <2>. QED BY <1>1, <1>3, <2>1, <2>2, <2>3, ChronicleReturn, NoneIsNone DEF Validate
<1>4. ASSUME NEW q, NEW r, Record(q, r), pc # "validate" PROVE ChronicleInv'
  <2>1. ~failed /\ B!RecordRequest(q, r, api # None)
    BY <1>1, <1>4 DEF Record, Control
  <2>2. UNCHANGED <<exchanges, capture>> /\ outcome' \in Results
    BY <2>1, RecordOutcome DEF Results
  <2>3. CASE outcome' = "Ok"
    <3>1. pending' = [request |-> q, resource |-> r, api |-> api # None] /\ UNCHANGED <<pc, result>>
      BY <1>4, <2>1, <2>3, RecordOutcome DEF Record
    <3>2. pending'.api = (api # None)
      BY <3>1
    <3>3. (api # None) = (pc # "version")
      BY <1>1, <1>4 DEF ChronicleInv, Progress, Control
    <3>. QED BY <1>1, <2>2, <3>1, <3>2, <3>3, ChronicleIdle
  <2>. QED BY <1>1, <1>4, <2>2, <2>3, ChronicleReturn, NoneIsNone DEF Record
<1>5. CASE Send
  <2>1. pc # "validate"
    BY <1>5 DEF Send, RecordPlain
  <2>. QED BY <1>4, <1>5, <2>1 DEF Send, RecordPlain, RecordInspect
<1>6. CASE Connect
  <2>1. UNCHANGED <<exchanges, pending, capture>>
    BY <1>6 DEF Connect, budget
  <2>2. CASE UNCHANGED <<pc, result>>
    BY <1>1, <2>1, <2>2, ChronicleIdle
  <2>. QED BY <1>1, <1>2, <1>6, <2>1, <2>2, ChronicleReturn, NoneIsNone DEF Connect, Results
<1>7. CASE GiveUp
  BY <1>1, <1>2, <1>7, ChronicleReturn, NoneIsNone DEF GiveUp, Results, budget
<1>8. CASE Select
  <2>1. Counted \in Nat /\ B!RecordSelection(Counted) /\ selected_resources \in Nat /\ ~failed
    BY <1>1, <1>8, CountFits, Selecting, Limits DEF Ledgers, Control
  <2>2. UNCHANGED <<exchanges, pending, capture>> /\ outcome' \in Results
    BY <2>1, SelectionOutcome DEF Results
  <2>3. CASE outcome' = "Ok"
    <3>1. /\ pc = "select" /\ pending = None /\ UNCHANGED result
          /\ pc' \in {"containers", "networks", "volumes", "finish"}
      BY <1>1, <1>8, <2>3, Selecting, OnwardGoes DEF Control
    <3>2. pc' \in Expanding
      BY <3>1 DEF Expanding
    <3>. QED BY <1>1, <2>2, <3>1, <3>2, ChronicleIdle
  <2>. QED BY <1>1, <1>8, <2>2, <2>3, Selecting, ChronicleReturn, NoneIsNone
<1>9. CASE Finish
  <2>1. UNCHANGED <<exchanges, pending, capture>> /\ pc = "finish" /\ pending = None
    BY <1>1, <1>9 DEF Finish, budget, Control
  <2>2. CASE Goto("capture")
    BY <1>1, <2>1, <2>2, ChronicleIdle DEF Goto
  <2>. QED BY <1>1, <1>2, <1>9, <2>1, <2>2, ChronicleReturn, NoneIsNone DEF Finish, Results
<1>. QED BY <1>3, <1>5, <1>6, <1>7, <1>8, <1>9

\* The capture is the chronicle, once nothing is left to inspect.
LEMMA ChronicleCaptured ==
  ASSUME Ledgers, BudgetHolds', ChronicleInv, TakeCapture
  PROVE  ChronicleInv'
<1>1. /\ result = None /\ Control /\ Ledger /\ capture = None /\ pc = "capture"
      /\ ~Inspecting /\ Frontier = expansions + 1 /\ expansions \in Nat
      /\ result' = outcome' /\ UNCHANGED <<exchanges, selector, network_name_fallbacks, api>>
  BY AtCapture DEF TakeCapture
<1>2. /\ outcome' \in {"Elapsed", "Ok"}
      /\ outcome' = "Ok" => capture' = [bounds |-> B!Counts, exchanges |-> exchanges]
      /\ outcome' = "Elapsed" => capture' = None
  BY CaptureOutcome
<1>3. result' # None
  BY <1>1, <1>2, NoneIsNone DEF Results
<1>4. CASE capture' = None
  BY <1>3, <1>4 DEF ChronicleInv
<1>5. CASE capture' # None
  <2>1. capture' = [bounds |-> B!Counts, exchanges |-> exchanges] /\ capture'.exchanges = exchanges
    BY <1>2, <1>5
  <2>2. Chronicle(exchanges) /\ Len(exchanges) >= Preliminaries
        /\ (selector.kind = "ContainerNames" => selector.items # <<>>)
    BY <1>1 DEF ChronicleInv, Progress, Expanding
  <2>3. exchanges \in Seq(BP!Exchange)
    BY DEF Ledgers, BudgetHolds, BP!BudgetInv, BP!TypeOK
  <2>4. Captured' = Range(exchanges) /\ \A kind : Inspections(kind)' = ReadOf(kind)
    BY <1>5, <2>1, Captures
  <2>5. IsFiniteSet(Range(exchanges))
    <3>. DEFINE f == [i \in 1 .. Len(exchanges) |-> exchanges[i]]
    <3>1. DOMAIN exchanges = 1 .. Len(exchanges) /\ Len(exchanges) \in Nat
      BY <2>3
    <3>2. IsFiniteSet(1 .. Len(exchanges))
      BY <3>1, FS_Interval
    <3>3. f \in Surjection(1 .. Len(exchanges), Range(exchanges))
      BY <3>1 DEF Range, Surjection
    <3>. QED BY <3>2, <3>3, FS_Surjection
  <2>6. \A r \in network_name_fallbacks : \E e \in ReadOf("Network") : e.resource = r
    <3>1. ASSUME NEW r \in network_name_fallbacks PROVE \E e \in ReadOf("Network") : e.resource = r
      <4>1. r \in 1 .. Frontier - 1
        BY <1>1 DEF Ledger, Marked
      <4>2. PICK e \in Completed : e.resource = r
        BY <1>1, <4>1 DEF Ledger, Numbered
      <4>3. e.request.object[1] = "Network"
        BY <1>1, <4>2 DEF Ledger, Marked
      <4>. QED BY <4>2, <4>3 DEF ReadOf
    <3>. QED BY <3>1
  <2>7. Chronicle(capture.exchanges)' /\ Preliminaries' = Preliminaries
    <3>1. Preliminaries' = Preliminaries /\ \A e, i : EntryTaken(e, i)' = EntryTaken(e, i)
      BY <1>1, ChronicleStays
    <3>2. PICK s : s = exchanges
      OBVIOUS
    <3>3. \A i \in 1 .. Len(s) : EntryTaken(s[i], i)'
      BY <2>2, <3>1, <3>2 DEF Chronicle
    <3>. QED BY <2>1, <2>2, <3>1, <3>2, <3>3 DEF Chronicle, EntryTaken
  <2>8. \A kind : \A e, f \in ReadOf(kind) : e.request.object = f.request.object => e = f
    BY <1>1, InspectedOnce DEF Ledger, ReadOf
  <2>9. Recorded'
    BY <1>1, <2>1, <2>2, <2>3, <2>4, <2>5, <2>6, <2>7, <2>8 DEF Recorded, Control, Early
  <2>. QED BY <1>3, <2>9 DEF ChronicleInv
<1>. QED BY <1>4, <1>5

\* Every step keeps it.
LEMMA ChronicleStep == Ledgers /\ BudgetHolds' /\ Fitting /\ ChronicleInv /\ [Next]_vars => ChronicleInv'
<1>. SUFFICES ASSUME Ledgers, BudgetHolds', Fitting, ChronicleInv, [Next]_vars PROVE ChronicleInv'
  OBVIOUS
<1>1. CASE Unusable
  <2>1. result = None /\ Control /\ capture = None /\ ~failed /\ B!EndRead(answer.len, answer.reply)
    BY <1>1, Known DEF Unusable, Complete
  <2>2. outcome' \in {"Elapsed", "Bytes", "Ok"} /\ capture' = None
    BY <2>1, EndOutcome
  <2>. QED BY <1>1, <2>2, ChronicleReturn, NoneIsNone DEF Unusable, Results
<1>2. CASE Own
  BY <1>1, <1>2, ChronicleBetween, ChroniclePreliminaries, ChronicleInspections, ChronicleCaptured DEF Own
<1>3. CASE TransportFails
  <2>1. PICK error \in {"Io", "Protocol", "Bytes"} : Return(error)
    BY <1>3 DEF TransportFails
  <2>2. capture' = None
    BY <1>3, Known DEF TransportFails, budget
  <2>. QED BY <2>1, <2>2, ChronicleReturn, NoneIsNone DEF Results
<1>4. CASE Receive
  <2>1. result = None /\ Control /\ capture = None /\ UNCHANGED <<selector, api>>
    BY <1>4, Known DEF Receive
  <2>2. ~failed /\ reading = FALSE /\ pending # None /\ B!BeginRead
    BY <1>4, <2>1 DEF Receive, Control
  <2>3. /\ UNCHANGED <<clock, B!budget, owned, capture>>
        /\ reading' \/ outcome' = "Elapsed"
    BY <2>2, BeginOutcome
  <2>4. UNCHANGED <<exchanges, pending, capture>>
    BY <2>3 DEF B!budget
  <2>5. CASE reading'
    BY <1>4, <2>1, <2>4, <2>5, ChronicleIdle DEF Receive
  <2>6. CASE ~reading'
    BY <1>4, <2>1, <2>3, <2>4, <2>6, ChronicleReturn, NoneIsNone DEF Receive, Results
  <2>. QED BY <2>5, <2>6
<1>5. CASE Tick \/ DaemonChanges \/ Cancel
  <2>1. result = None /\ capture = None
    BY <1>5, Known DEF Tick, DaemonChanges, Cancel
  <2>. QED BY <1>5, <2>1, ChronicleIdle DEF Tick, DaemonChanges, Cancel, B!Tick, B!budget, budget
<1>6. CASE UNCHANGED vars
  <2>1. UNCHANGED <<exchanges, selector, api, result, pending, capture, pc, network_name_fallbacks>>
    BY <1>6 DEF vars, budget, walk
  <2>2. CASE result = None
    <3>1. capture = None
      BY <2>2, Known DEF Running
    <3>. QED BY <2>1, <2>2, <3>1, ChronicleIdle
  <2>3. CASE result # None
    <3>1. Captured' = Captured /\ \A kind : Inspections(kind)' = Inspections(kind)
      BY <2>1 DEF Captured, Inspections
    <3>2. capture # None => Chronicle(capture.exchanges)' /\ Preliminaries' = Preliminaries
      <4>1. Preliminaries' = Preliminaries /\ \A e, i : EntryTaken(e, i)' = EntryTaken(e, i)
        BY <2>1, ChronicleStays
      <4>2. PICK s : s = capture.exchanges
        OBVIOUS
      <4>3. capture # None => \A i \in 1 .. Len(s) : EntryTaken(s[i], i)'
        BY <4>1, <4>2 DEF ChronicleInv, Recorded, Chronicle
      <4>4. capture # None => Chronicle(s)
        BY <4>2 DEF ChronicleInv, Recorded
      <4>. QED BY <2>1, <4>1, <4>2, <4>3, <4>4 DEF Chronicle, EntryTaken
    <3>. QED BY <2>1, <2>3, <3>1, <3>2 DEF ChronicleInv, Recorded
  <2>. QED BY <2>2, <2>3
<1>. QED BY <1>2, <1>3, <1>4, <1>5, <1>6 DEF Next

\* The chronicle is kept by every walk.
LEMMA ChronicleInvariance == Spec => []ChronicleInv
<1>1. ChronicleInv /\ (WalkInv /\ BudgetHolds /\ LedgerInv /\ Fitting /\ BudgetHolds') /\ [Next]_vars => ChronicleInv'
  BY ChronicleStep DEF Ledgers
<1>. QED BY <1>1, ChronicleInit, WalkInvariance, BudgetInvariance, LedgerInvariance, FittingInvariance, PTL DEF Spec

(***************************************************************************)
(* The decoder's reading of a capture.                                     *)
(***************************************************************************)
Es == capture.exchanges
Hs == Handed.exchanges
Fields == DOMAIN D!Fresh

InspectedTo(n, kind) == {i \in 1 .. n : Es[i].request.op = "Inspect" /\ Es[i].request.object[1] = kind}
SeenAs(e) == <<e.request.object[1], e.resource, e.request.object[2]>>
NativeOf(e) == e.reply.body[D!NativeKey(e.request.object[1])]
SeenTo(n) == {SeenAs(Es[i]) : i \in {j \in 1 .. n : Es[j].request.op = "Inspect"}}

\* What the decoder has gathered from the first n exchanges, as the walk knows it.
Sound(a, n) ==
  /\ DOMAIN a = Fields /\ a.error = "Ok" /\ (n = 0 => a.version_seen = FALSE) /\ (n <= 1 => a.info_seen = FALSE)
  /\ a.requested_api_versions \subseteq {api}
  /\ n = 0 => a.release = None
  /\ n = 1 => a.release = Es[1].reply.body.release
  /\ n >= 1 => a.max = Es[1].reply.body.max /\ a.min = Es[1].reply.body.min
  /\ DOMAIN a.listed_ids = Kinds /\ a.listed_ids["Network"] = {} /\ a.listed_ids["Volume"] = {}
  /\ a.listed_ids["Container"] = (IF n >= 3 /\ Preliminaries = 3 THEN DOMAIN Es[3].reply.body ELSE {})
  /\ a.selected_from_list = (IF n >= 3 /\ D!Picks(selector)
                             THEN [ids |-> Matches(selector, Es[3].reply.body)] ELSE None)
  /\ a.seen_resources = SeenTo(n)
  /\ DOMAIN a.inspected_ids = Kinds /\ DOMAIN a.inspected_native_objects = Kinds
  /\ \A k \in Kinds : /\ a.inspected_ids[k] = {Es[i].request.object[2] : i \in InspectedTo(n, k)}
                      /\ a.inspected_native_objects[k] = {NativeOf(Es[i]) : i \in InspectedTo(n, k)}

\* What is found refused has one of the reasons the walk leaves to the decoder.
Refused(a) == a.error # "Ok" /\ a.error \in Refusals

\* There is no such reason in the first n exchanges.
Clean(n) ==
  /\ \A i \in 1 .. n : Objections(Es[i]) = {}
  /\ n >= 2 => \/ Es[1].reply.body.release = Es[2].reply.body.release
              \/ None \in {Es[1].reply.body.release, Es[2].reply.body.release}

\* A recorded capture, with all its ledger promises.
Kept == capture # None /\ Recorded /\ Final

\* What the decoder is handed of an exchange.
View(e) ==
  [op |-> e.request.op, object |-> e.request.object, resource |-> e.resource,
   api |-> IF e.api THEN api ELSE None, status |-> e.reply.status, len |-> e.len,
   body |-> Seen(e.request, e.reply.body)]

\* The decoder is handed the exchanges one by one, in their order.
LEMMA Views ==
  ASSUME Kept
  PROVE  /\ Len(Es) \in Nat /\ Len(Es) >= Preliminaries /\ Preliminaries \in {2, 3} /\ DOMAIN Es = 1 .. Len(Es)
         /\ Len(Hs) = Len(Es) /\ \A i \in 1 .. Len(Es) : Hs[i] = View(Es[i])
         /\ \A i \in 1 .. Len(Es) : EntryTaken(Es[i], i)
         /\ \A i \in 1 .. Len(Es) : Hs[i].api = IF i # 1 THEN api ELSE None
         /\ api # None
<1>1. Es \in Seq(BP!Exchange) /\ Len(Es) >= Preliminaries /\ Preliminaries \in {2, 3} /\ api # None
  BY DEF Kept, Recorded, Es, Preliminaries
<1>2. Len(Es) \in Nat /\ DOMAIN Es = 1 .. Len(Es)
  BY <1>1
<1>3. Hs = [i \in 1 .. Len(Es) |-> View(Es[i])]
  BY <1>2 DEF Hs, Handed, Es, View
<1>4. \A i \in 1 .. Len(Es) : EntryTaken(Es[i], i)
  BY DEF Kept, Recorded, Chronicle, Es
<1>. HIDE DEF Es
<1>5. Len(Hs) = Len(Es)
  <2>1. PICK n \in Nat : n = Len(Es)
    BY <1>2
  <2>2. PICK f : f = [i \in 1 .. n |-> View(Es[i])]
    OBVIOUS
  <2>3. DOMAIN f = 1 .. n
    BY <2>2
  <2>4. Len(f) = n
    BY <2>1, <2>2
  <2>. QED BY <1>3, <2>1, <2>2, <2>4
<1>6. ASSUME NEW i \in 1 .. Len(Es) PROVE Hs[i].api = IF i # 1 THEN api ELSE None
  <2>1. PICK e, h : e = Es[i] /\ h = Hs[i]
    OBVIOUS
  <2>2. h = View(e)
    BY <1>3, <2>1
  <2>3. h.api = IF e.api THEN api ELSE None
    BY <2>2 DEF View
  <2>4. e.api = (i # 1)
    BY <1>4, <2>1, Zenon DEF EntryTaken
  <2>5. h.api = IF i # 1 THEN api ELSE None
    BY <2>3, <2>4, Zenon
  <2>. QED BY <2>1, <2>5
<1>. QED BY <1>1, <1>2, <1>3, <1>4, <1>5, <1>6

\* Before it has read anything it has gathered nothing.
LEMMA FreshSound == Sound(D!Fresh, 0)
<1>. DEFINE f == D!Fresh
<1>1. /\ f.error = "Ok" /\ f.version_seen = FALSE /\ f.info_seen = FALSE /\ f.requested_api_versions = {}
      /\ f.release = None /\ f.listed_ids = [k \in Kinds |-> {}] /\ f.selected_from_list = None
      /\ f.seen_resources = {} /\ f.inspected_ids = [k \in Kinds |-> {}]
      /\ f.inspected_native_objects = [k \in Kinds |-> {}]
  BY DEF D!Fresh, D!NothingYet, D!Kinds, Kinds
<1>2. SeenTo(0) = {} /\ \A k : InspectedTo(0, k) = {}
  BY DEF SeenTo, InspectedTo
<1>. HIDE DEF f
<1>3. DOMAIN f = Fields
  BY DEF Fields, f
<1>4. /\ DOMAIN f.listed_ids = Kinds /\ f.listed_ids["Network"] = {} /\ f.listed_ids["Volume"] = {}
      /\ f.listed_ids["Container"] = {} /\ DOMAIN f.inspected_ids = Kinds
      /\ DOMAIN f.inspected_native_objects = Kinds
      /\ \A k \in Kinds : f.inspected_ids[k] = {} /\ f.inspected_native_objects[k] = {}
  BY <1>1 DEF Kinds
<1>5. \A k \in Kinds : /\ f.inspected_ids[k] = {Es[i].request.object[2] : i \in InspectedTo(0, k)}
                       /\ f.inspected_native_objects[k] = {NativeOf(Es[i]) : i \in InspectedTo(0, k)}
  BY <1>2, <1>4
<1>6. f.error = "Ok" /\ f.version_seen = FALSE /\ f.info_seen = FALSE /\ ~(0 >= 3) /\ ~(0 >= 1) /\ 0 # 1
  BY <1>1
<1>7. Sound(f, 0)
  BY <1>1, <1>2, <1>3, <1>4, <1>5, <1>6 DEF Sound
<1>. QED BY <1>7 DEF f

\* What it has refused stays refused.
LEMMA RefusalStays ==
  ASSUME NEW a, Refused(a), NEW h
  PROVE  D!Exchange(a, Handed, h) = a
  BY DEF Refused, D!Exchange

\* A field that is not set keeps its value.
Keeps(b, a, set) == DOMAIN b = DOMAIN a /\ \A f \in Fields \ set : b[f] = a[f]

\* The reading every usable exchange starts with.
Noted(a, h) == [a EXCEPT !.requested_api_versions = @ \cup ({h.api} \ {None})]

\* It changes the noted versions only.
LEMMA Noting ==
  ASSUME NEW a, DOMAIN a = Fields, NEW h
  PROVE  /\ Keeps(Noted(a, h), a, {"requested_api_versions"})
         /\ Noted(a, h).requested_api_versions = a.requested_api_versions \cup ({h.api} \ {None})
  BY DEF Noted, Keeps, Fields, D!Fresh

\* The fields the loop carries.
LEMMA FieldNames ==
  Fields = {"error", "version_seen", "info_seen", "release", "max", "min", "mode",
            "requested_api_versions", "listed_ids", "inspected_ids", "inspected_native_objects",
            "seen_resources", "selected_from_list"}
  BY DEF Fields, D!Fresh

\* What a release teaches.
LEMMA Learning ==
  ASSUME NEW a, DOMAIN a = Fields, a.error = "Ok", NEW release, NEW b, b = D!Learn(a, release)
  PROVE  \/ b.error = "ConflictingFacts" /\ a.release # None /\ release # None /\ a.release # release
         \/ /\ Keeps(b, a, {"release"}) /\ (a.release = None => b.release = release)
            /\ a.release = release \/ None \in {a.release, release}
<1>1. CASE release = None
  BY <1>1 DEF D!Learn, Keeps
<1>2. CASE release # None /\ a.release \notin {None, release}
  BY <1>2, FieldNames DEF D!Learn, D!Fail
<1>3. CASE release # None /\ a.release \in {None, release}
  <2>1. b = [a EXCEPT !.release = release]
    BY <1>3 DEF D!Learn
  <2>. QED BY <1>3, <2>1, FieldNames DEF Keeps
<1>. QED BY <1>1, <1>2, <1>3

\* How an exchange is read, by what was asked.
LEMMA Reading ==
  ASSUME NEW a, a.error = "Ok", NEW h, h.status = 200, ~(h.len > MaxJson), h.body # Malformed,
         h.api # None \/ h.op = "DaemonVersion"
  PROVE  /\ h.op = "DaemonVersion" => D!Exchange(a, Handed, h) = D!Version(Noted(a, h), h.body)
         /\ h.op = "DaemonInfo" => D!Exchange(a, Handed, h) = D!Info(Noted(a, h), h.body)
         /\ h.op = "ListContainers" =>
              D!Exchange(a, Handed, h) = D!ContainerList(Noted(a, h), selector, h.body)
         /\ h.op = "Inspect" => D!Exchange(a, Handed, h) = D!Inspection(Noted(a, h), Handed, h)
<1>1. Handed.selector = selector
  BY DEF Handed
<1>. HIDE DEF Handed
<1>. QED BY <1>1 DEF D!Exchange, Noted

\* What an exchange says is among what the capture says.
LEMMA Telling ==
  ASSUME Kept, NEW i \in 1 .. Len(Es)
  PROVE  /\ Es[i] \in Captured
         /\ Es[i].request.op \in {"DaemonVersion", "DaemonInfo"} /\ Es[i].reply.body # Malformed
              /\ Es[i].reply.body.release # None
              => Es[i].reply.body.release \in Releases
         /\ Objections(Es[i]) \subseteq Refusals
<1>1. Es[i] \in Captured
  BY Views DEF Captured, Es, Kept, Range
<1>2. PICK e : e = Es[i]
  OBVIOUS
<1>3. Objections(e) \subseteq Refusals
  BY <1>1, <1>2 DEF Refusals
<1>. QED BY <1>1, <1>2, <1>3 DEF Releases

\* What fails for an objection is refused for it.
LEMMA Objecting ==
  ASSUME Kept, NEW i \in 1 .. Len(Es), NEW error \in Objections(Es[i]), NEW b, DOMAIN b = Fields
  PROVE  Refused(D!Fail(b, error))
<1>1. error \in Refusals
  BY Telling
<1>2. error # "Ok"
  <2>1. PICK e : e = Es[i]
    OBVIOUS
  <2>2. \E S : Objections(e) = S \ {"Ok"}
    BY DEF Objections
  <2>. QED BY <2>1, <2>2
<1>3. D!Fail(b, error).error = error
  BY FieldNames DEF D!Fail
<1>. QED BY <1>1, <1>2, <1>3 DEF Refused

\* The version is read, unless one of its fields does not decode.
LEMMA VersionRead ==
  ASSUME Kept, NEW a, Sound(a, 0)
  PROVE  \/ Sound(D!Exchange(a, Handed, Hs[1]), 1) /\ Clean(1)
         \/ Refused(D!Exchange(a, Handed, Hs[1]))
<1>1. PICK h, e : h = Hs[1] /\ e = Es[1]
  OBVIOUS
<1>2. h = View(e) /\ EntryTaken(e, 1) /\ 1 \in 1 .. Len(Es) /\ h.api = None
  BY <1>1, Views
<1>3. e.request.op = "DaemonVersion" /\ e.reply.body # Malformed /\ e.reply.status = 200 /\ ~(e.len > MaxJson)
      /\ Seen(e.request, e.reply.body) # Malformed
  <2>1. /\ e.request = Plain("DaemonVersion") /\ VersionTaken(e.reply.body) /\ e.reply.status = 200
        /\ ~(e.len > MaxJson) /\ (e.reply.body # Malformed => Seen(e.request, e.reply.body) # Malformed)
    BY <1>2 DEF EntryTaken
  <2>. QED BY <2>1 DEF VersionTaken, Negotiable, Plain
<1>4. /\ h.op = "DaemonVersion" /\ h.status = 200 /\ h.api = None /\ ~(h.len > MaxJson) /\ h.body # Malformed
      /\ h.body = [release |-> e.reply.body.release, max |-> e.reply.body.max, min |-> e.reply.body.min,
                   fields |-> e.reply.body.fields, rest |-> "Ok"]
  BY <1>2, <1>3 DEF View, Seen
<1>5. PICK b : b = Noted(a, h)
  OBVIOUS
<1>6. Keeps(b, a, {"requested_api_versions"}) /\ b.requested_api_versions \subseteq {api} /\ DOMAIN b = Fields
  <2>1. DOMAIN a = Fields /\ a.requested_api_versions \subseteq {api}
    BY DEF Sound
  <2>2. Keeps(b, a, {"requested_api_versions"})
        /\ b.requested_api_versions = a.requested_api_versions \cup ({h.api} \ {None})
    BY <1>5, <2>1, Noting
  <2>. QED BY <1>4, <2>1, <2>2 DEF Keeps
<1>7. PICK c : c = D!VersionSeen(b, h.body)
  OBVIOUS
<1>8. Keeps(c, b, {"version_seen", "max", "min"}) /\ c.max = h.body.max /\ c.min = h.body.min /\ DOMAIN c = Fields
  BY <1>6, <1>7, FieldNames DEF Keeps, D!VersionSeen
<1>9. PICK d : d = D!Learn(c, h.body.release)
  OBVIOUS
<1>10. D!Exchange(a, Handed, h) =
         IF h.body.fields # "Ok" THEN D!Fail(b, h.body.fields) ELSE D!Afterwards(d, h.body.rest)
  <2>1. D!Exchange(a, Handed, h) = D!Version(b, h.body)
    BY <1>3, <1>4, <1>5, Reading DEF Sound
  <2>2. b.version_seen = FALSE
    BY <1>6, FieldNames DEF Keeps, Sound
  <2>. QED BY <1>7, <1>9, <2>1, <2>2, Zenon DEF D!Version
<1>11. Objections(e) = {e.reply.body.fields} \ {"Ok"} /\ h.body.fields = e.reply.body.fields /\ h.body.rest = "Ok"
       /\ h.body.max = e.reply.body.max /\ h.body.min = e.reply.body.min /\ h.body.release = e.reply.body.release
  BY <1>3, <1>4 DEF Objections
<1>12. CASE h.body.fields # "Ok"
  <2>1. h.body.fields \in Objections(Es[1])
    BY <1>1, <1>11, <1>12
  <2>. QED BY <1>1, <1>2, <1>6, <1>10, <1>12, <2>1, Objecting
<1>13. CASE h.body.fields = "Ok"
  <2>1. D!Exchange(a, Handed, h) = d
    BY <1>10, <1>11, <1>13 DEF D!Afterwards
  <2>2. c.error = "Ok" /\ c.release = None
    BY <1>6, <1>8, FieldNames DEF Keeps, Sound
  <2>3. Keeps(d, c, {"release"}) /\ d.release = h.body.release
    BY <1>8, <1>9, <2>2, Learning
  <2>4. /\ \A f \in Fields \ {"requested_api_versions", "version_seen", "max", "min", "release"} : d[f] = a[f]
        /\ d.max = h.body.max /\ d.min = h.body.min /\ d.requested_api_versions \subseteq {api} /\ DOMAIN d = Fields
    BY <1>6, <1>8, <2>3, FieldNames DEF Keeps
  <2>5. SeenTo(1) = SeenTo(0) /\ \A k : InspectedTo(1, k) = InspectedTo(0, k)
    BY <1>1, <1>3 DEF SeenTo, InspectedTo
  <2>6. Sound(d, 1)
    BY <1>1, <1>11, <2>3, <2>4, <2>5, FieldNames DEF Sound
  <2>7. Clean(1)
    BY <1>1, <1>11, <1>13 DEF Clean
  <2>. QED BY <1>1, <2>1, <2>6, <2>7
<1>. QED BY <1>12, <1>13

\* What /info adds once its release is learnt, or why it is refused.
LEMMA InfoAnswer ==
  ASSUME Kept, 2 \in 1 .. Len(Es), NEW o, o = Es[2].reply.body, o # Malformed,
         Es[2].request.op = "DaemonInfo", o.fields = "Ok", NEW d, DOMAIN d = Fields, d.error = "Ok",
         NEW t, t = D!Afterwards(d, o.rest), NEW x, x = IF t.error = "Ok" THEN D!DaemonMode(t, o) ELSE t
  PROVE  \/ Refused(x)
         \/ Keeps(x, d, {"mode"}) /\ Objections(Es[2]) = {}
<1>1. PICK e : e = Es[2]
  OBVIOUS
<1>2. Objections(e) = ({o.fields, o.rest} \cup (IF o.option /\ o.rootless = FALSE THEN {"ConflictingFacts"} ELSE {}))
                        \ {"Ok"}
  BY <1>1 DEF Objections
<1>3. CASE o.rest # "Ok"
  <2>1. t = D!Fail(d, o.rest) /\ t.error = o.rest
    BY <1>3, FieldNames DEF D!Afterwards, D!Fail
  <2>2. o.rest \in Objections(Es[2])
    BY <1>1, <1>2, <1>3
  <2>. QED BY <1>3, <2>1, <2>2, Objecting
<1>4. CASE o.rest = "Ok"
  <2>1. t = d
    BY <1>4 DEF D!Afterwards
  <2>2. x = D!DaemonMode(d, o)
    BY <2>1
  <2>3. CASE o.option /\ o.rootless = FALSE
    <3>1. x = D!Fail(d, "ConflictingFacts")
      BY <2>2, <2>3 DEF D!DaemonMode
    <3>2. "ConflictingFacts" \in Objections(Es[2])
      BY <1>1, <1>2, <2>3
    <3>. QED BY <3>1, <3>2, Objecting
  <2>4. CASE ~(o.option /\ o.rootless = FALSE)
    <3>1. PICK m : x = [d EXCEPT !.mode = m]
      <4>1. x = [d EXCEPT !.mode = IF o.option \/ o.rootless = TRUE THEN "Rootless"
                                   ELSE IF o.rootless = FALSE THEN "Rootful" ELSE "Unknown"]
        BY <2>2, <2>4, Zenon DEF D!DaemonMode
      <4>. QED BY <4>1
    <3>2. Keeps(x, d, {"mode"})
      BY <3>1, FieldNames DEF Keeps
    <3>3. Objections(e) = {}
      BY <1>2, <1>4, <2>4
    <3>. QED BY <1>1, <3>2, <3>3
  <2>. QED BY <2>3, <2>4
<1>. QED BY <1>3, <1>4

\* The info is read, unless it does not decode or contradicts itself or the
\* version.
LEMMA InfoRead ==
  ASSUME Kept, NEW a, Sound(a, 1), Clean(1)
  PROVE  \/ Sound(D!Exchange(a, Handed, Hs[2]), 2) /\ Clean(2)
         \/ Refused(D!Exchange(a, Handed, Hs[2]))
<1>1. PICK h, e, v, o : h = Hs[2] /\ e = Es[2] /\ v = Es[1] /\ o = e.reply.body
  OBVIOUS
<1>2. /\ h = View(e) /\ EntryTaken(e, 2) /\ 2 \in 1 .. Len(Es) /\ 1 \in 1 .. Len(Es) /\ EntryTaken(v, 1)
      /\ h.api = api /\ api # None
  BY <1>1, Views
<1>3. /\ e.request.op = "DaemonInfo" /\ e.reply.status = 200 /\ ~(e.len > MaxJson)
      /\ v.request.op = "DaemonVersion" /\ v.reply.body # Malformed
  BY <1>2 DEF EntryTaken, VersionTaken, Negotiable, Plain
<1>4. h.op = "DaemonInfo" /\ h.status = 200 /\ h.body = o /\ ~(h.len > MaxJson)
  BY <1>1, <1>2, <1>3 DEF View, Seen
<1>5. DOMAIN a = Fields /\ a.requested_api_versions \subseteq {api} /\ a.error = "Ok" /\ a.info_seen = FALSE
      /\ a.release = v.reply.body.release
  BY <1>1 DEF Sound
<1>6. CASE o = Malformed
  <2>1. D!Exchange(a, Handed, h) = D!Fail(a, "InvalidJson")
    BY <1>4, <1>5, <1>6 DEF D!Exchange
  <2>2. "InvalidJson" \in Objections(e)
    BY <1>1, <1>6 DEF Objections
  <2>. QED BY <1>1, <1>2, <1>5, <2>1, <2>2, Objecting
<1>7. CASE o # Malformed
  <2>1. PICK b : b = Noted(a, h)
    OBVIOUS
  <2>2. Keeps(b, a, {"requested_api_versions"})
        /\ b.requested_api_versions = a.requested_api_versions \cup ({h.api} \ {None})
    BY <1>5, <2>1, Noting
  <2>3. b.requested_api_versions \subseteq {api} /\ DOMAIN b = Fields
    BY <1>2, <1>5, <2>2 DEF Keeps
  <2>4. PICK c : c = D!InfoSeen(b)
    OBVIOUS
  <2>5. Keeps(c, b, {"info_seen"}) /\ DOMAIN c = Fields
    BY <2>3, <2>4, FieldNames DEF Keeps, D!InfoSeen
  <2>6. PICK d : d = D!Learn(c, o.release)
    OBVIOUS
  <2>7. PICK t : t = D!Afterwards(d, o.rest)
    OBVIOUS
  <2>8. PICK x : x = IF t.error = "Ok" THEN D!DaemonMode(t, o) ELSE t
    OBVIOUS
  <2>9. D!Exchange(a, Handed, h) = IF o.fields # "Ok" THEN D!Fail(b, o.fields) ELSE x
    <3>1. D!Exchange(a, Handed, h) = D!Info(b, o)
      BY <1>2, <1>4, <1>5, <1>7, <2>1, Reading
    <3>2. b.info_seen = FALSE
      BY <1>5, <2>2, FieldNames DEF Keeps
    <3>. QED BY <2>4, <2>6, <2>7, <2>8, <3>1, <3>2, Zenon DEF D!Info
  <2>10. c.error = "Ok" /\ c.release = v.reply.body.release
    BY <1>5, <2>2, <2>5, FieldNames DEF Keeps
  <2>11. CASE o.fields # "Ok"
    <3>1. o.fields \in Objections(e)
      BY <1>1, <1>3, <1>7, <2>11 DEF Objections
    <3>. QED BY <1>1, <1>2, <2>3, <2>9, <2>11, <3>1, Objecting
  <2>12. CASE o.fields = "Ok" /\ d.error = "ConflictingFacts" /\ v.reply.body.release # o.release
              /\ v.reply.body.release # None /\ o.release # None
    <3>1. v.reply.body.release \in Releases /\ o.release \in Releases
      BY <1>1, <1>2, <1>3, <1>7, <2>12, Telling
    <3>2. "ConflictingFacts" \in Refusals
      BY <2>12, <3>1 DEF Refusals
    <3>3. x = d
      BY <2>7, <2>8, <2>12 DEF D!Afterwards
    <3>. QED BY <1>1, <2>9, <2>12, <3>2, <3>3 DEF Refused
  <2>13. CASE o.fields = "Ok" /\ Keeps(d, c, {"release"})
              /\ (v.reply.body.release = o.release \/ None \in {v.reply.body.release, o.release})
    <3>1. d.error = "Ok" /\ DOMAIN d = Fields
      BY <2>5, <2>10, <2>13, FieldNames DEF Keeps
    <3>2. Refused(x) \/ (Keeps(x, d, {"mode"}) /\ Objections(Es[2]) = {})
      BY <1>1, <1>2, <1>3, <1>7, <2>7, <2>8, <2>13, <3>1, InfoAnswer
    <3>3. CASE Refused(x)
      BY <1>1, <2>9, <2>13, <3>3
    <3>4. CASE Keeps(x, d, {"mode"}) /\ Objections(Es[2]) = {}
      <4>1. \A f \in Fields \ {"requested_api_versions", "info_seen", "release", "mode"} : x[f] = a[f]
        BY <2>2, <2>5, <2>13, <3>4, FieldNames DEF Keeps
      <4>2. x.requested_api_versions \subseteq {api} /\ DOMAIN x = Fields
        BY <2>3, <2>5, <2>13, <3>1, <3>4, FieldNames DEF Keeps
      <4>3. SeenTo(2) = SeenTo(1) /\ \A k : InspectedTo(2, k) = InspectedTo(1, k)
        BY <1>1, <1>3 DEF SeenTo, InspectedTo
      <4>4. Sound(x, 2)
        BY <4>1, <4>2, <4>3, FieldNames DEF Sound
      <4>5. Clean(2)
        <5>1. \A i \in 1 .. 2 : i \in 1 .. 1 \/ i = 2
          OBVIOUS
        <5>. QED BY <1>1, <2>13, <3>4, <5>1 DEF Clean
      <4>. QED BY <1>1, <2>9, <2>13, <4>4, <4>5
    <3>. QED BY <3>2, <3>3, <3>4
  <2>. QED BY <2>5, <2>6, <2>10, <2>11, <2>12, <2>13, Learning
<1>. QED BY <1>6, <1>7

\* The exchanges after the second bring no release, only objections of their own.
LEMMA CleanGrows ==
  ASSUME NEW n \in Nat, n >= 2, Clean(n), Objections(Es[n + 1]) = {}
  PROVE  Clean(n + 1)
<1>1. \A i \in 1 .. n + 1 : i \in 1 .. n \/ i = n + 1
  OBVIOUS
<1>. QED BY <1>1 DEF Clean

\* Which selectors pick from the list.
LEMMA Picking ==
  ASSUME Kept
  PROVE  D!Picks(selector) <=> selector.kind \in ListSelectors \ {"Discovery"}
<1>1. selector # None
  BY ReplayAssumption DEF Kept, Recorded
<1>. QED BY <1>1 DEF D!Picks, D!ListSelectors, ListSelectors

\* The decoder selects as the walk did.
LEMMA SameCardinality == \A S : D!Cardinality(S) = Cardinality(S)
  BY Zenon DEF D!Cardinality, Cardinality

\* From one list, both pick the same containers.
LEMMA SameMatches ==
  ASSUME selector.kind \in ListSelectors, NEW list
  PROVE  D!Matches(selector, list) = Matches(selector, list)
<1>1. CASE selector.kind = "AllContainers"
  BY <1>1 DEF Matches, D!Matches
<1>2. CASE selector.kind = "Discovery"
  BY <1>2 DEF Matches, D!Matches
<1>3. CASE selector.kind = "Label"
  BY <1>3 DEF Matches, D!Matches
<1>4. CASE selector.kind = "NamePrefix"
  <2>1. \A p, n : D!StartsWith(n, p) = StartsWith(n, p)
    BY Zenon DEF D!StartsWith, StartsWith
  <2>2. D!Prefixed(list, selector.items[1]) = Prefixed(list, selector.items[1])
    BY <2>1, Zenon DEF D!Prefixed, Prefixed
  <2>. QED BY <1>4, <2>2 DEF Matches, D!Matches
<1>5. CASE selector.kind = "ContainerNames"
  <2>1. \A n : D!Named(list, n) = Named(list, n)
    BY Zenon DEF D!Named, Named
  <2>2. D!Range(selector.items) = Range(selector.items)
    BY Zenon DEF D!Range, Range
  <2>3. UNION {D!Named(list, name) : name \in D!Range(selector.items)} = UNION {Named(list, name) : name \in Range(selector.items)}
    BY <2>1, <2>2
  <2>. QED BY <1>5, <2>3 DEF Matches, D!Matches
<1>. QED BY <1>1, <1>2, <1>3, <1>4, <1>5 DEF ListSelectors

\* On one list, both refuse the same selections.
LEMMA SameFailure ==
  ASSUME selector.kind \in ListSelectors, NEW list
  PROVE  D!SelectionFails(selector, list) <=> SelectionFails(selector, list)
<1>1. D!Matches(selector, list) = Matches(selector, list)
  BY SameMatches
<1>2. \A n : D!Named(list, n) = Named(list, n)
  BY Zenon DEF D!Named, Named
<1>3. D!Range(selector.items) = Range(selector.items)
  BY Zenon DEF D!Range, Range
<1>4. D!IsInjective(selector.items) <=> IsInjective(selector.items)
  BY Zenon DEF D!IsInjective, IsInjective
<1>5. \A n : D!Cardinality(D!Named(list, n)) = Cardinality(Named(list, n))
  BY <1>2, SameCardinality
<1>. QED BY <1>1, <1>3, <1>4, <1>5 DEF D!SelectionFails, SelectionFails

\* The list, where there is one, is read as the walk read it, unless one of its
\* entries does not decode.
LEMMA ListRead ==
  ASSUME Kept, Preliminaries = 3, NEW a, Sound(a, 2), Clean(2)
  PROVE  \/ Sound(D!Exchange(a, Handed, Hs[3]), 3) /\ Clean(3)
         \/ Refused(D!Exchange(a, Handed, Hs[3]))
<1>1. PICK h, e, l : h = Hs[3] /\ e = Es[3] /\ l = e.reply.body
  OBVIOUS
<1>2. h = View(e) /\ EntryTaken(e, 3) /\ 3 \in 1 .. Len(Es) /\ h.api = api /\ api # None
  BY <1>1, Views
<1>3. e.request.op = "ListContainers" /\ l # Malformed /\ e.reply.status = 200
      /\ ~SelectionFails(selector, l) /\ ~(e.len > MaxJson)
  BY <1>1, <1>2 DEF EntryTaken, ListTaken, Plain
<1>4. h.op = "ListContainers" /\ h.body = l /\ h.status = 200 /\ ~(h.len > MaxJson)
  BY <1>1, <1>2, <1>3 DEF View, Seen
<1>5. PICK b : b = Noted(a, h)
  OBVIOUS
<1>6. /\ DOMAIN a = Fields /\ a.requested_api_versions \subseteq {api} /\ a.error = "Ok"
      /\ a.selected_from_list = None /\ a.listed_ids["Container"] = {}
      /\ DOMAIN a.listed_ids = Kinds /\ a.listed_ids["Network"] = {} /\ a.listed_ids["Volume"] = {}
  BY DEF Sound
<1>7. Keeps(b, a, {"requested_api_versions"})
      /\ b.requested_api_versions = a.requested_api_versions \cup ({h.api} \ {None})
  BY <1>5, <1>6, Noting
<1>8. b.requested_api_versions \subseteq {api} /\ DOMAIN b = Fields
      /\ b.selected_from_list = None /\ b.listed_ids = a.listed_ids
  BY <1>2, <1>6, <1>7, FieldNames DEF Keeps
<1>9. PICK p : p = IF D!Picks(selector) THEN [ids |-> Matches(selector, l)] ELSE None
  OBVIOUS
<1>10. PICK c : c = [b EXCEPT !.selected_from_list = p]
  OBVIOUS
<1>11. Keeps(c, b, {"selected_from_list"}) /\ c.selected_from_list = p /\ DOMAIN c = Fields
  BY <1>8, <1>10, FieldNames DEF Keeps
<1>12. PICK d : d = D!Listed(c, "Container", DOMAIN l)
  OBVIOUS
<1>13. D!Exchange(a, Handed, h) = IF D!Undecoded(l) # {} THEN D!Fail(b, l[CHOOSE id \in D!Undecoded(l) : TRUE].fields)
                                  ELSE d
  <2>1. D!Exchange(a, Handed, h) = D!ContainerList(b, selector, l)
    BY <1>2, <1>3, <1>4, <1>5, <1>6, Reading
  <2>2. selector.kind \in ListSelectors
    BY DEF Preliminaries
  <2>3. ~D!SelectionFails(selector, l) /\ D!Matches(selector, l) = Matches(selector, l)
    BY <1>3, <2>2, SameMatches, SameFailure
  <2>. QED BY <1>8, <1>9, <1>10, <1>12, <2>1, <2>3 DEF D!ContainerList
<1>14. c.listed_ids = a.listed_ids
  BY <1>8, <1>11, FieldNames DEF Keeps
<1>15. PICK ids : ids = [a.listed_ids EXCEPT !["Container"] = @ \cup DOMAIN l]
  OBVIOUS
<1>16. d = [c EXCEPT !.listed_ids = ids]
  BY <1>11, <1>12, <1>14, <1>15, FieldNames DEF D!Listed
<1>17. Keeps(d, c, {"listed_ids"}) /\ d.listed_ids = ids /\ DOMAIN d = Fields
  BY <1>11, <1>16, FieldNames DEF Keeps
<1>18. DOMAIN ids = Kinds /\ ids["Container"] = DOMAIN l /\ ids["Network"] = {} /\ ids["Volume"] = {}
  BY <1>6, <1>15 DEF Kinds
<1>19. \A f \in Fields \ {"requested_api_versions", "selected_from_list", "listed_ids"} : d[f] = a[f]
  BY <1>7, <1>11, <1>17, FieldNames DEF Keeps
<1>20. d.requested_api_versions \subseteq {api} /\ d.selected_from_list = p
  BY <1>8, <1>11, <1>17, FieldNames DEF Keeps
<1>21. SeenTo(3) = SeenTo(2) /\ \A k : InspectedTo(3, k) = InspectedTo(2, k)
  BY <1>1, <1>3 DEF SeenTo, InspectedTo
<1>22. Sound(d, 3)
  BY <1>1, <1>9, <1>17, <1>18, <1>19, <1>20, <1>21, FieldNames DEF Sound
<1>23. Objections(e) = {l[one].fields : one \in DOMAIN l} \ {"Ok"}
  BY <1>1, <1>3 DEF Objections
<1>24. CASE D!Undecoded(l) = {}
  <2>1. Objections(Es[2 + 1]) = {}
    BY <1>1, <1>23, <1>24 DEF D!Undecoded
  <2>2. Clean(2 + 1)
    BY <2>1, CleanGrows
  <2>. QED BY <1>1, <1>13, <1>22, <1>24, <2>2
<1>25. CASE D!Undecoded(l) # {}
  <2>1. PICK id : id = CHOOSE one \in D!Undecoded(l) : TRUE
    OBVIOUS
  <2>2. id \in D!Undecoded(l)
    BY <1>25, <2>1
  <2>3. l[id].fields \in Objections(Es[3])
    BY <1>1, <1>23, <2>2 DEF D!Undecoded
  <2>4. D!Exchange(a, Handed, h) = D!Fail(b, l[id].fields)
    BY <1>13, <1>25, <2>1
  <2>. QED BY <1>1, <1>2, <1>8, <2>3, <2>4, Objecting
<1>. QED BY <1>24, <1>25

\* What a captured inspection holds, and how the decoder sees it.
LEMMA InspectionViewed ==
  ASSUME Kept, NEW i \in 1 .. Len(Es), Es[i].request.op = "Inspect"
  PROVE  /\ Es[i].request.object[1] \in Kinds /\ Es[i].request.object[2] \in NativeIds
         /\ Es[i].request.object = <<Es[i].request.object[1], Es[i].request.object[2]>>
         /\ i > Preliminaries /\ Es[i] \in Inspections(Es[i].request.object[1])
         /\ Hs[i].body # Malformed /\ Hs[i].body.fields = Es[i].reply.body.fields
         /\ Es[i].reply.body # Malformed
         /\ Hs[i].body[D!IdentityKey(Handed, Hs[i])] = Es[i].request.object[2]
         /\ Hs[i].body[D!NativeKey(Es[i].request.object[1])] = NativeOf(Es[i])
         /\ NativeOf(Es[i]) # None
         /\ Es[i].request.object[1] # "Network" => NativeOf(Es[i]) = Es[i].request.object[2]
         /\ Es[i].request.object[1] = "Network" => NativeOf(Es[i]) = Es[i].reply.body.Id
<1>1. PICK h, e, kind, key, b : h = Hs[i] /\ e = Es[i] /\ kind = e.request.object[1]
                                /\ key = e.request.object[2] /\ b = e.reply.body
  OBVIOUS
<1>2. h = View(e) /\ EntryTaken(e, i) /\ Preliminaries \in {2, 3} /\ Len(Es) \in Nat /\ e.request.op = "Inspect"
  BY <1>1, Views
<1>3. i > Preliminaries
  BY <1>2 DEF EntryTaken, Plain
<1>4. b # Malformed /\ (kind = "Network" => b.Id # None) /\ Seen(e.request, b) # Malformed
  BY <1>1, <1>2, <1>3 DEF EntryTaken, InspectionTaken
<1>5. kind \in Kinds /\ key \in NativeIds /\ e.request.object = <<kind, key>>
  <2>1. Es \in Seq(BP!Exchange)
    BY DEF Kept, Recorded, Es
  <2>2. e \in BP!Exchange
    BY <1>1, <2>1
  <2>3. e.request \in [op : {"Inspect"}, object : Objects]
    BY <1>2, <2>2 DEF BP!Exchange, BP!ReadRequest, Reads
  <2>. QED BY <1>1, <2>3 DEF Objects
<1>6. e \in Captured /\ e \in Inspections(kind)
  BY <1>1, <1>2, Telling DEF Inspections
<1>7. kind # "Network" => e.resource \notin network_name_fallbacks
  <2>1. SUFFICES ASSUME kind # "Network", e.resource \in network_name_fallbacks PROVE FALSE
    OBVIOUS
  <2>2. PICK f \in Inspections("Network") : f.resource = e.resource
    BY <2>1 DEF Kept, Recorded
  <2>3. PICK j \in 1 .. Len(Es) : f = Es[j]
    BY <2>2, Views DEF Inspections, Captured, Kept, Es, Range
  <2>4. Es[j].request.op = "Inspect" /\ f.request.object[1] = "Network"
    BY <2>2, <2>3 DEF Inspections
  <2>5. i = j
    BY <1>1, <1>2, <2>2, <2>3, <2>4 DEF Kept, Recorded, Chronicle, Es
  <2>. QED BY <1>1, <2>1, <2>3, <2>4, <2>5
<1>8. b[IF kind = "Volume" \/ e.resource \in network_name_fallbacks THEN "Name" ELSE "Id"] = key
  BY <1>1, <1>2, <1>6 DEF Kept, Final, CaptureIdentified
<1>9. h.body = Seen(e.request, b) /\ h.object[1] = kind /\ h.resource = e.resource
  BY <1>1, <1>2 DEF View
<1>10. Handed.network_name_fallbacks = network_name_fallbacks
  BY DEF Handed
<1>11. D!NativeKey(kind) = IF kind = "Volume" THEN "Name" ELSE "Id"
  BY DEF D!NativeKey
<1>12. NativeOf(e) = b[D!NativeKey(kind)]
  BY <1>1 DEF NativeOf
<1>13. CASE kind = "Container"
  <2>1. h.body = [Id |-> b.Id, Name |-> None, fields |-> b.fields]
    BY <1>1, <1>2, <1>4, <1>9, <1>13 DEF Seen
  <2>2. D!IdentityKey(Handed, h) = "Id"
    BY <1>9, <1>13 DEF D!IdentityKey
  <2>3. b.Id = key /\ key # None
    BY <1>5, <1>7, <1>8, <1>13, NoneIsNone
  <2>. QED BY <1>1, <1>3, <1>4, <1>5, <1>6, <1>9, <1>11, <1>12, <1>13, <2>1, <2>2, <2>3
<1>14. CASE kind = "Network"
  <2>1. h.body = [Id |-> b.Id, Name |-> b.Name, fields |-> b.fields]
    BY <1>1, <1>2, <1>4, <1>9, <1>14 DEF Seen
  <2>2. D!IdentityKey(Handed, h) = IF e.resource \in network_name_fallbacks THEN "Name" ELSE "Id"
    <3>. HIDE DEF Handed
    <3>. QED BY <1>9, <1>10, <1>14 DEF D!IdentityKey
  <2>3. b[IF e.resource \in network_name_fallbacks THEN "Name" ELSE "Id"] = key
    BY <1>8, <1>14
  <2>. QED BY <1>1, <1>3, <1>4, <1>5, <1>6, <1>9, <1>11, <1>12, <1>14, <2>1, <2>2, <2>3
<1>15. CASE kind = "Volume"
  <2>1. h.body = [Id |-> None, Name |-> b.Name, fields |-> b.fields]
    BY <1>1, <1>2, <1>4, <1>9, <1>15 DEF Seen
  <2>2. D!IdentityKey(Handed, h) = "Name"
    BY <1>9, <1>15 DEF D!IdentityKey
  <2>3. b.Name = key /\ key # None
    BY <1>5, <1>8, <1>15, NoneIsNone
  <2>. QED BY <1>1, <1>3, <1>4, <1>5, <1>6, <1>9, <1>11, <1>12, <1>15, <2>1, <2>2, <2>3
<1>. QED BY <1>5, <1>13, <1>14, <1>15 DEF Kinds

\* Two inspections of a capture differ in their reference, and in what the
\* daemon calls the objects they hold.
LEMMA InspectionsApart ==
  ASSUME Kept, NEW i \in 1 .. Len(Es), NEW j \in 1 .. Len(Es), i # j,
         Es[i].request.op = "Inspect", Es[j].request.op = "Inspect"
  PROVE  /\ Es[i].resource # Es[j].resource
         /\ Es[i].request.object[1] = Es[j].request.object[1] => NativeOf(Es[i]) # NativeOf(Es[j])
<1>1. Es[i].resource # Es[j].resource
  BY DEF Kept, Recorded, Chronicle, Es
<1>2. ASSUME Es[i].request.object[1] = Es[j].request.object[1], NativeOf(Es[i]) = NativeOf(Es[j])
      PROVE  FALSE
  <2>1. CASE Es[i].request.object[1] = "Network"
    <3>1. Es[i] \in Inspections("Network") /\ Es[j] \in Inspections("Network") /\ Es[i] # Es[j]
      BY <1>1, <1>2, <2>1, InspectionViewed
    <3>2. Es[i].reply.body.Id = Es[j].reply.body.Id
      BY <1>2, <2>1, InspectionViewed
    <3>. QED BY <3>1, <3>2 DEF Kept, Final, NoAliasCaptured
  <2>2. CASE Es[i].request.object[1] # "Network"
    <3>1. Es[i].request.object[2] = Es[j].request.object[2]
      BY <1>2, <2>2, InspectionViewed
    <3>2. Es[i].request.object = Es[j].request.object
      BY <1>2, <3>1, InspectionViewed
    <3>3. Es[i] \in Inspections(Es[i].request.object[1]) /\ Es[j] \in Inspections(Es[i].request.object[1])
      BY <1>2, InspectionViewed
    <3>. QED BY <1>1, <3>2, <3>3 DEF Kept, Recorded
  <2>. QED BY <2>1, <2>2
<1>. QED BY <1>1, <1>2

\* An inspection adds itself to what was seen.
LEMMA OneMoreSeen ==
  ASSUME NEW n \in Nat, Es[n + 1].request.op = "Inspect"
  PROVE  /\ SeenTo(n + 1) = SeenTo(n) \cup {SeenAs(Es[n + 1])}
         /\ \A k : InspectedTo(n + 1, k) =
              InspectedTo(n, k) \cup (IF k = Es[n + 1].request.object[1] THEN {n + 1} ELSE {})
<1>1. PICK m : m = n + 1
  OBVIOUS
<1>2. \A j : j \in 1 .. m <=> j \in 1 .. n \/ j = m
  BY <1>1
<1>3. SeenTo(m) = SeenTo(n) \cup {SeenAs(Es[m])}
  BY <1>1, <1>2 DEF SeenTo
<1>4. \A k : InspectedTo(m, k) = InspectedTo(n, k) \cup (IF k = Es[m].request.object[1] THEN {m} ELSE {})
  BY <1>1, <1>2 DEF InspectedTo
<1>. QED BY <1>1, <1>3, <1>4

\* An inspection is read as the object it holds, unless one of its fields does
\* not decode.
LEMMA InspectionRead ==
  ASSUME Kept, NEW n \in Nat, n >= Preliminaries, n + 1 \in 1 .. Len(Es), NEW a, Sound(a, n), Clean(n)
  PROVE  \/ Sound(D!Exchange(a, Handed, Hs[n + 1]), n + 1) /\ Clean(n + 1)
         \/ Refused(D!Exchange(a, Handed, Hs[n + 1]))
<1>1. PICK m, h, e, kind, key, native :
         /\ m = n + 1 /\ h = Hs[m] /\ e = Es[m] /\ kind = e.request.object[1]
         /\ key = e.request.object[2] /\ native = NativeOf(e)
  OBVIOUS
<1>2. /\ h = View(e) /\ EntryTaken(e, m) /\ m \in 1 .. Len(Es) /\ h.api = api /\ api # None
      /\ Preliminaries \in {2, 3} /\ m > Preliminaries
  BY <1>1, Views
<1>3. e.request.op = "Inspect" /\ e.reply.status = 200 /\ ~(e.len > MaxJson)
  BY <1>2 DEF EntryTaken, InspectionTaken
<1>4. /\ h.op = "Inspect" /\ h.status = 200 /\ h.object = e.request.object /\ h.resource = e.resource
      /\ h.body # Malformed /\ h.body.fields = e.reply.body.fields /\ e.reply.body # Malformed
      /\ h.body[D!IdentityKey(Handed, h)] = key /\ ~(h.len > MaxJson)
      /\ h.body[D!NativeKey(kind)] = native /\ native # None /\ kind \in Kinds
  <2>1. Es[m].request.op = "Inspect" /\ m \in 1 .. Len(Es)
    BY <1>1, <1>2, <1>3
  <2>2. /\ Es[m].request.object[1] \in Kinds /\ Hs[m].body # Malformed /\ Es[m].reply.body # Malformed
        /\ Hs[m].body.fields = Es[m].reply.body.fields
        /\ Hs[m].body[D!IdentityKey(Handed, Hs[m])] = Es[m].request.object[2]
        /\ Hs[m].body[D!NativeKey(Es[m].request.object[1])] = NativeOf(Es[m]) /\ NativeOf(Es[m]) # None
    BY <2>1, InspectionViewed
  <2>3. h.op = "Inspect" /\ h.status = 200 /\ h.object = e.request.object /\ h.resource = e.resource
        /\ ~(h.len > MaxJson)
    BY <1>2, <1>3 DEF View
  <2>. QED BY <1>1, <2>2, <2>3, Zenon
<1>5. PICK b : b = Noted(a, h)
  OBVIOUS
<1>6. /\ DOMAIN a = Fields /\ a.requested_api_versions \subseteq {api} /\ a.error = "Ok"
      /\ a.seen_resources = SeenTo(n)
      /\ DOMAIN a.inspected_ids = Kinds /\ DOMAIN a.inspected_native_objects = Kinds
      /\ \A k \in Kinds : /\ a.inspected_ids[k] = {Es[i].request.object[2] : i \in InspectedTo(n, k)}
                          /\ a.inspected_native_objects[k] = {NativeOf(Es[i]) : i \in InspectedTo(n, k)}
  BY DEF Sound
<1>7. Keeps(b, a, {"requested_api_versions"})
      /\ b.requested_api_versions = a.requested_api_versions \cup ({h.api} \ {None})
  BY <1>5, <1>6, Noting
<1>8. /\ b.requested_api_versions \subseteq {api} /\ DOMAIN b = Fields
      /\ b.seen_resources = a.seen_resources /\ b.inspected_ids = a.inspected_ids
      /\ b.inspected_native_objects = a.inspected_native_objects
  BY <1>2, <1>6, <1>7, FieldNames DEF Keeps
<1>9. native \notin b.inspected_native_objects[kind]
  <2>1. SUFFICES ASSUME NEW i \in InspectedTo(n, kind), native = NativeOf(Es[i]) PROVE FALSE
    BY <1>4, <1>6, <1>8
  <2>2. i \in 1 .. Len(Es) /\ i # m /\ Es[i].request.op = "Inspect" /\ Es[i].request.object[1] = kind
    BY <1>1, <1>2, <2>1, Views DEF InspectedTo
  <2>3. m \in 1 .. Len(Es) /\ Es[m].request.op = "Inspect" /\ Es[m].request.object[1] = kind
    BY <1>1, <1>2, <1>3
  <2>4. NativeOf(Es[i]) # NativeOf(Es[m])
    BY <2>2, <2>3, InspectionsApart
  <2>. QED BY <1>1, <2>1, <2>4
<1>10. ~ \E seen \in b.seen_resources : seen[1] = kind /\ seen[2] = h.resource
  <2>1. SUFFICES ASSUME NEW i \in 1 .. n, Es[i].request.op = "Inspect", Es[i].resource = e.resource PROVE FALSE
    BY <1>4, <1>6, <1>8 DEF SeenTo, SeenAs
  <2>2. i \in 1 .. Len(Es) /\ i # m
    BY <1>1, <1>2, <2>1, Views
  <2>. QED BY <1>1, <1>2, <1>3, <2>1, <2>2, InspectionsApart
<1>11. PICK natives, ids, seen :
         /\ natives = [a.inspected_native_objects EXCEPT ![kind] = @ \cup {native}]
         /\ ids = [a.inspected_ids EXCEPT ![kind] = @ \cup {key}]
         /\ seen = a.seen_resources \cup {<<kind, h.resource, key>>}
  OBVIOUS
<1>12. PICK d : d = [b EXCEPT !.inspected_native_objects = natives, !.seen_resources = seen, !.inspected_ids = ids]
  OBVIOUS
<1>13. D!Exchange(a, Handed, h) = IF h.body.fields # "Ok" THEN D!Fail(b, h.body.fields) ELSE d
  <2>1. D!Exchange(a, Handed, h) = D!Inspection(b, Handed, h)
    BY <1>2, <1>4, <1>5, <1>6, Reading
  <2>2. h.object[1] = kind /\ h.object[2] = key
    BY <1>1, <1>4
  <2>3. D!Inspection(b, Handed, h) =
          IF h.body.fields # "Ok" THEN D!Fail(b, h.body.fields)
          ELSE
          [b EXCEPT !.inspected_native_objects[kind] = @ \cup {native},
                    !.seen_resources = @ \cup {<<kind, h.resource, key>>},
                    !.inspected_ids[kind] = @ \cup {key}]
    <3>. HIDE DEF Handed
    <3>. QED BY <1>4, <1>9, <1>10, <2>2, Zenon DEF D!Inspection
  <2>. QED BY <1>8, <1>11, <1>12, <2>1, <2>3, FieldNames
<1>14. Keeps(d, b, {"inspected_native_objects", "seen_resources", "inspected_ids"}) /\ DOMAIN d = Fields
       /\ d.inspected_native_objects = natives /\ d.seen_resources = seen /\ d.inspected_ids = ids
  BY <1>8, <1>12, FieldNames DEF Keeps
<1>15. seen = SeenTo(m) /\ \A k : InspectedTo(m, k) = InspectedTo(n, k) \cup (IF k = kind THEN {m} ELSE {})
  <2>1. SeenAs(e) = <<kind, h.resource, key>>
    BY <1>1, <1>4 DEF SeenAs
  <2>2. Es[n + 1].request.op = "Inspect"
    BY <1>1, <1>3
  <2>3. /\ SeenTo(n + 1) = SeenTo(n) \cup {SeenAs(Es[n + 1])}
        /\ \A k : InspectedTo(n + 1, k) =
             InspectedTo(n, k) \cup (IF k = Es[n + 1].request.object[1] THEN {n + 1} ELSE {})
    BY <2>2, OneMoreSeen
  <2>. QED BY <1>1, <1>6, <1>11, <2>1, <2>3, Zenon
<1>16. /\ DOMAIN natives = Kinds /\ DOMAIN ids = Kinds
       /\ \A k \in Kinds : /\ ids[k] = {Es[i].request.object[2] : i \in InspectedTo(m, k)}
                           /\ natives[k] = {NativeOf(Es[i]) : i \in InspectedTo(m, k)}
  <2>1. DOMAIN natives = Kinds /\ DOMAIN ids = Kinds
    BY <1>6, <1>11
  <2>2. ASSUME NEW k \in Kinds
        PROVE  /\ ids[k] = {Es[i].request.object[2] : i \in InspectedTo(m, k)}
               /\ natives[k] = {NativeOf(Es[i]) : i \in InspectedTo(m, k)}
    <3>1. PICK I : I = InspectedTo(n, k) /\ InspectedTo(m, k) = I \cup (IF k = kind THEN {m} ELSE {})
      BY <1>15
    <3>2. CASE k = kind
      <4>1. ids[k] = {Es[i].request.object[2] : i \in I} \cup {key}
            /\ natives[k] = {NativeOf(Es[i]) : i \in I} \cup {native}
        BY <1>4, <1>6, <1>11, <3>1, <3>2
      <4>. QED BY <1>1, <3>1, <3>2, <4>1
    <3>3. CASE k # kind
      BY <1>6, <1>11, <3>1, <3>3
    <3>. QED BY <3>2, <3>3
  <2>. QED BY <2>1, <2>2
<1>17. \A f \in Fields \ {"requested_api_versions", "inspected_native_objects", "seen_resources", "inspected_ids"} :
         d[f] = a[f]
  BY <1>7, <1>14, FieldNames DEF Keeps
<1>18. d.requested_api_versions \subseteq {api}
  BY <1>8, <1>14, FieldNames DEF Keeps
<1>19. m # 0 /\ m # 1 /\ ~(m <= 1) /\ n >= 1 /\ (n >= 3 \/ Preliminaries # 3)
       /\ (Preliminaries = 3 => m >= 3 /\ n >= 3) /\ (D!Picks(selector) => Preliminaries = 3)
  BY <1>1, <1>2, Picking DEF Preliminaries
<1>20. Sound(d, m)
  BY <1>14, <1>15, <1>16, <1>17, <1>18, <1>19, FieldNames DEF Sound
<1>21. Objections(e) = {e.reply.body.fields} \ {"Ok"}
  BY <1>3, <1>4 DEF Objections
<1>22. CASE h.body.fields = "Ok"
  <2>1. Objections(Es[n + 1]) = {}
    BY <1>1, <1>4, <1>21, <1>22
  <2>2. Clean(n + 1)
    BY <1>2, <2>1, CleanGrows
  <2>. QED BY <1>1, <1>13, <1>20, <1>22, <2>2
<1>23. CASE h.body.fields # "Ok"
  <2>1. h.body.fields \in Objections(Es[m])
    BY <1>1, <1>4, <1>21, <1>23
  <2>. QED BY <1>1, <1>2, <1>8, <1>13, <1>23, <2>1, Objecting
<1>. QED BY <1>22, <1>23

\* The states of the loop over the exchanges.
Loop(f, c, m) ==
  f = [n \in 0 .. m |-> IF n = 0 THEN D!Fresh ELSE D!Exchange(f[n - 1], c, c.exchanges[n])]

\* There are such states, however many exchanges.
LEMMA LoopRuns ==
  ASSUME NEW c, NEW m \in Nat
  PROVE  \E f : Loop(f, c, m)
<1>. DEFINE T == {n \in Nat : \E f : Loop(f, c, n)}
<1>1. 0 \in T
  <2>. DEFINE f == [n \in 0 .. 0 |-> D!Fresh]
  <2>1. Loop(f, c, 0)
    BY DEF Loop
  <2>. QED BY <2>1
<1>2. ASSUME NEW k \in Nat, k \in T PROVE k + 1 \in T
  <2>1. PICK f : Loop(f, c, k)
    BY <1>2
  <2>. DEFINE g == [n \in 0 .. k + 1 |-> IF n = k + 1 THEN D!Exchange(f[k], c, c.exchanges[n]) ELSE f[n]]
  <2>2. ASSUME NEW n \in 0 .. k + 1
        PROVE  g[n] = IF n = 0 THEN D!Fresh ELSE D!Exchange(g[n - 1], c, c.exchanges[n])
    <3>1. CASE n = k + 1
      <4>1. k \in 0 .. k + 1 /\ n # 0 /\ n - 1 = k /\ k # k + 1
        BY <3>1
      <4>2. g[k] = f[k] /\ g[n] = D!Exchange(f[k], c, c.exchanges[n])
        BY <3>1, <4>1
      <4>. QED BY <4>1, <4>2
    <3>2. CASE n # k + 1
      <4>1. n \in 0 .. k /\ (n # 0 => n - 1 \in 0 .. k /\ n - 1 # k + 1 /\ n - 1 \in 0 .. k + 1)
        BY <3>2
      <4>2. f[n] = IF n = 0 THEN D!Fresh ELSE D!Exchange(f[n - 1], c, c.exchanges[n])
        BY <2>1, <4>1 DEF Loop
      <4>3. g[n] = f[n] /\ (n # 0 => g[n - 1] = f[n - 1])
        BY <3>2, <4>1
      <4>. QED BY <4>2, <4>3
    <3>. QED BY <3>1, <3>2
  <2>3. Loop(g, c, k + 1)
    BY <2>2 DEF Loop
  <2>. HIDE DEF g
  <2>. QED BY <2>3
<1>. HIDE DEF T
<1>3. m \in T
  BY <1>1, <1>2, BudgetLimits, BP!Induction
<1>. QED BY <1>3 DEF T

\* What is gathered is the last of them.
LEMMA Gathering ==
  ASSUME Kept
  PROVE  \E f : /\ f[Len(Es)] = D!Gathered(Handed) /\ f[0] = D!Fresh
                /\ \A n \in 1 .. Len(Es) : f[n] = D!Exchange(f[n - 1], Handed, Hs[n])
<1>1. Len(Hs) \in Nat /\ Len(Hs) = Len(Es)
  BY Views
<1>2. PICK c, f : c = Handed /\ f = CHOOSE g : Loop(g, c, Len(c.exchanges))
  OBVIOUS
<1>3. c.exchanges = Hs
  BY <1>2 DEF Hs
<1>. HIDE DEF Handed
<1>4. D!Gathered(c) = f[Len(c.exchanges)]
  BY <1>2 DEF D!Gathered, Loop
<1>5. Loop(f, c, Len(Hs))
  <2>1. \E g : Loop(g, c, Len(c.exchanges))
    BY <1>1, <1>3, LoopRuns
  <2>. QED BY <1>2, <1>3, <2>1
<1>6. PICK n \in Nat : n = Len(Es)
  BY <1>1
<1>7. f = [i \in 0 .. n |-> IF i = 0 THEN D!Fresh ELSE D!Exchange(f[i - 1], c, Hs[i])]
  BY <1>1, <1>3, <1>5, <1>6 DEF Loop
<1>8. f[0] = D!Fresh
  BY <1>7
<1>9. ASSUME NEW i \in 1 .. n PROVE f[i] = D!Exchange(f[i - 1], c, Hs[i])
  <2>1. i \in 0 .. n /\ i # 0
    OBVIOUS
  <2>. QED BY <1>7, <2>1
<1>. QED BY <1>1, <1>2, <1>3, <1>4, <1>6, <1>8, <1>9

\* All the exchanges are read, or the capture is refused with reason.
LEMMA GatheredSound ==
  ASSUME Kept
  PROVE  \/ Sound(D!Gathered(Handed), Len(Es)) /\ Clean(Len(Es))
         \/ Refused(D!Gathered(Handed))
<1>1. PICK f : /\ f[Len(Es)] = D!Gathered(Handed) /\ f[0] = D!Fresh
               /\ \A n \in 1 .. Len(Es) : f[n] = D!Exchange(f[n - 1], Handed, Hs[n])
  BY Gathering
<1>2. Len(Es) \in Nat /\ Preliminaries \in {2, 3}
  BY Views
<1>. DEFINE T == {n \in Nat : n <= Len(Es) => (Sound(f[n], n) /\ Clean(n)) \/ Refused(f[n])}
<1>3. 0 \in T
  BY <1>1, FreshSound DEF Clean
<1>4. ASSUME NEW n \in Nat, n \in T PROVE n + 1 \in T
  <2>. SUFFICES ASSUME n + 1 <= Len(Es) 
               PROVE  (Sound(f[n + 1], n + 1) /\ Clean(n + 1)) \/ Refused(f[n + 1])
    OBVIOUS
  <2>1. n + 1 \in 1 .. Len(Es) /\ (n + 1) - 1 = n /\ n <= Len(Es)
    BY <1>2
  <2>2. f[n + 1] = D!Exchange(f[n], Handed, Hs[n + 1])
    BY <1>1, <2>1
  <2>3. CASE Refused(f[n])
    BY <2>2, <2>3, RefusalStays
  <2>4. CASE Sound(f[n], n) /\ Clean(n)
    <3>1. CASE n = 0
      BY <2>2, <2>4, <3>1, VersionRead
    <3>2. CASE n = 1
      BY <2>2, <2>4, <3>2, InfoRead
    <3>3. CASE n = 2 /\ Preliminaries = 3
      BY <2>2, <2>4, <3>3, ListRead
    <3>4. CASE n >= Preliminaries
      BY <2>1, <2>2, <2>4, <3>4, InspectionRead
    <3>. QED BY <1>2, <3>1, <3>2, <3>3, <3>4
  <2>. QED BY <1>4, <2>1, <2>3, <2>4
<1>. HIDE DEF T
<1>5. Len(Es) \in T
  BY <1>2, <1>3, <1>4, BudgetLimits, BP!Induction
<1>. QED BY <1>1, <1>2, <1>5 DEF T

(***************************************************************************)
(* What was gathered is complete.                                          *)
(***************************************************************************)

\* In the end all the inspections of the capture were seen.
LEMMA AllSeen ==
  ASSUME Kept
  PROVE  /\ SeenTo(Len(Es)) = {<<e.request.object[1], e.resource, e.request.object[2]>> :
                                 e \in {f \in Captured : f.request.op = "Inspect"}}
         /\ \A k \in Kinds : {Es[i].request.object[2] : i \in InspectedTo(Len(Es), k)} = Keys(k)
         /\ \A k \in Kinds : \A e \in Inspections(k) : <<k, e.resource, e.request.object[2]>> \in SeenTo(Len(Es))
         /\ \A s \in SeenTo(Len(Es)) : \E e \in Inspections(s[1]) :
              s = <<s[1], e.resource, e.request.object[2]>>
<1>1. PICK n : n = Len(Es)
  OBVIOUS
<1>2. \A e : e \in Captured <=> \E i \in 1 .. n : e = Es[i]
  BY <1>1, Views DEF Captured, Kept, Es, Range
<1>3. SeenTo(n) = {<<e.request.object[1], e.resource, e.request.object[2]>> :
                     e \in {f \in Captured : f.request.op = "Inspect"}}
  BY <1>2 DEF SeenTo, SeenAs
<1>4. \A k \in Kinds : {Es[i].request.object[2] : i \in InspectedTo(n, k)} = Keys(k)
  BY <1>2 DEF InspectedTo, Keys, Inspections
<1>5. \A k \in Kinds : \A e \in Inspections(k) : <<k, e.resource, e.request.object[2]>> \in SeenTo(n)
  BY <1>3 DEF Inspections
<1>6. \A s \in SeenTo(n) : \E e \in Inspections(s[1]) : s = <<s[1], e.resource, e.request.object[2]>>
  BY <1>3 DEF Inspections
<1>. QED BY <1>1, <1>3, <1>4, <1>5, <1>6

\* The list of a capture, and what the walk took from it.
LEMMA ListKept ==
  ASSUME Kept, Preliminaries = 3
  PROVE  /\ selector.kind \in ListSelectors /\ RootKind = "Container" /\ Len(Es) >= 3
         /\ ListTaken(Es[3].reply.body)
         /\ Keys("Container") = Matches(selector, Es[3].reply.body)
         /\ Matches(selector, Es[3].reply.body) \subseteq DOMAIN Es[3].reply.body
<1>1. selector.kind \in ListSelectors /\ Len(Es) >= 3 /\ 3 \in 1 .. Len(Es) /\ EntryTaken(Es[3], 3)
  BY Views DEF Preliminaries
<1>2. RootKind = "Container"
  BY <1>1 DEF RootKind, ListSelectors
<1>3. ListTaken(Es[3].reply.body) /\ Es[3].request.op = "ListContainers"
  BY <1>1 DEF EntryTaken, Plain
<1>4. Keys("Container") = Matches(selector, Es[3].reply.body)
  BY <1>1, <1>3, Telling DEF Kept, Final, RootsMatchSelection
<1>. QED BY <1>1, <1>2, <1>3, <1>4, MatchesListed

\* The roots of a capture.
LEMMA RootsKept ==
  ASSUME Kept
  PROVE  /\ selected_roots = {Root(e.resource, RootKind) : e \in Inspections(RootKind)}
         /\ RootKind \in Kinds /\ (RootKind # "Container" => ~ selector.kind \in ListSelectors)
         /\ (RootKind = "Container" => selector.kind \in ListSelectors \cup {"ContainerIds"})
<1>1. selector \in Selectors
  BY DEF Kept, Recorded
<1>2. selector.kind \in ListSelectors \cup {"ContainerIds", "NetworkIds", "VolumeNames"}
  BY <1>1, AcquireAssumption
<1>3. selected_roots = {Root(e.resource, RootKind) : e \in Inspections(RootKind)}
  BY DEF Kept, Final, RootsMatchSelection
<1>. QED BY <1>2, <1>3 DEF RootKind, Kinds, ListSelectors

\* Networks marked as found by name were seen.
LEMMA FallbacksSeen ==
  ASSUME Kept, NEW a, Sound(a, Len(Es)), NEW r \in network_name_fallbacks
  PROVE  \E seen \in a.seen_resources : seen[1] = "Network" /\ seen[2] = r
<1>1. PICK e \in Inspections("Network") : e.resource = r
  BY DEF Kept, Recorded
<1>2. <<"Network", e.resource, e.request.object[2]>> \in a.seen_resources
  BY AllSeen DEF Sound, Kinds
<1>. QED BY <1>1, <1>2

\* What was selected from the list is what the roots are.
LEMMA SelectionKept ==
  ASSUME Kept, NEW a, Sound(a, Len(Es))
  PROVE  D!SelectionAgrees(a, Handed)
<1>1. CASE D!Picks(selector)
  <2>1. Preliminaries = 3
    BY <1>1, Picking DEF Preliminaries
  <2>2. a.selected_from_list = [ids |-> Matches(selector, Es[3].reply.body)]
    BY <1>1, <2>1, ListKept DEF Sound
  <2>3. Matches(selector, Es[3].reply.body) \in SUBSET NativeIds
    BY <2>1, ListKept DEF ListTaken
  <2>4. a.selected_from_list # None /\ a.selected_from_list.ids = Keys("Container")
    BY <2>1, <2>2, <2>3, ListKept, ReplayAssumption
  <2>5. D!RootIds(a, Handed) = Keys("Container")
    <3>1. Handed.selected_roots = selected_roots
      BY DEF Handed
    <3>2. selected_roots = {Root(e.resource, "Container") : e \in Inspections("Container")}
      BY <2>1, ListKept, RootsKept
    <3>3. \A e \in Inspections("Container") :
            \E root \in selected_roots : root.kind = "Container" /\ root.resource = e.resource
      <4>1. \A r : Root(r, "Container").kind = "Container" /\ Root(r, "Container").resource = r
        BY DEF Root
      <4>. QED BY <3>2, <4>1
    <3>4. a.seen_resources = SeenTo(Len(Es))
      BY DEF Sound
    <3>5. \A e \in Inspections("Container") : <<"Container", e.resource, e.request.object[2]>> \in a.seen_resources
      BY <3>4, AllSeen DEF Kinds
    <3>6. \A s \in a.seen_resources : s[1] = "Container" => s[3] \in Keys("Container")
      <4>. SUFFICES ASSUME NEW s \in a.seen_resources, s[1] = "Container" PROVE s[3] \in Keys("Container")
        OBVIOUS
      <4>1. PICK e \in Inspections("Container") : s = <<"Container", e.resource, e.request.object[2]>>
        BY <3>4, AllSeen
      <4>2. s[3] = e.request.object[2]
        BY <4>1
      <4>. QED BY <4>2 DEF Keys
    <3>. HIDE DEF Handed
    <3>7. D!RootIds(a, Handed) \subseteq Keys("Container")
      BY <3>6 DEF D!RootIds
    <3>8. ASSUME NEW e \in Inspections("Container") PROVE e.request.object[2] \in D!RootIds(a, Handed)
      <4>1. PICK s : s = <<"Container", e.resource, e.request.object[2]>>
        OBVIOUS
      <4>2. s \in a.seen_resources /\ s[1] = "Container" /\ s[2] = e.resource /\ s[3] = e.request.object[2]
        BY <3>5, <4>1
      <4>3. \E root \in Handed.selected_roots : root.kind = "Container" /\ root.resource = s[2]
        BY <3>1, <3>3, <4>2
      <4>. QED BY <4>2, <4>3 DEF D!RootIds
    <3>. QED BY <3>7, <3>8 DEF Keys
  <2>. QED BY <2>4, <2>5 DEF D!SelectionAgrees
<1>2. CASE ~D!Picks(selector)
  <2>1. a.selected_from_list = None
    BY <1>2 DEF Sound
  <2>2. Handed.selector = selector
    BY DEF Handed
  <2>. HIDE DEF Handed
  <2>. QED BY <1>2, <2>1, <2>2 DEF D!SelectionAgrees
<1>. QED BY <1>1, <1>2

\* Every root was seen, the listed ones in the list.
LEMMA RootsSeen ==
  ASSUME Kept, NEW a, Sound(a, Len(Es))
  PROVE  D!RootsInspected(a, Handed)
<1>1. /\ Handed.selected_roots = selected_roots
      /\ Handed.selected_resources = capture.bounds.selected_resources
  BY DEF Handed
<1>2. /\ selected_roots = {Root(e.resource, RootKind) : e \in Inspections(RootKind)} /\ RootKind \in Kinds
      /\ (RootKind = "Container" => selector.kind \in ListSelectors \cup {"ContainerIds"})
  BY RootsKept
<1>3. \A r : Root(r, RootKind).kind = RootKind /\ Root(r, RootKind).resource = r
               /\ Root(r, RootKind).reason = Reason(RootKind)
  BY DEF Root
<1>4. \A x, y \in selected_roots : x.resource = y.resource => x = y
  BY <1>2, <1>3
<1>5. D!Cardinality(selected_roots) = capture.bounds.selected_resources
  BY SameCardinality DEF Kept, Final, RootsMatchSelection
<1>6. ASSUME NEW root \in selected_roots
      PROVE  \E seen \in a.seen_resources :
               /\ seen[1] = root.kind /\ seen[2] = root.resource
               /\ root.kind = "Container" /\ root.reason # "ExactId" => seen[3] \in a.listed_ids["Container"]
  <2>1. PICK e \in Inspections(RootKind) : root = Root(e.resource, RootKind)
    BY <1>2
  <2>2. PICK s : s = <<RootKind, e.resource, e.request.object[2]>>
    OBVIOUS
  <2>3. s \in a.seen_resources /\ s[1] = root.kind /\ s[2] = root.resource /\ s[3] = e.request.object[2]
    BY <1>2, <1>3, <2>1, <2>2, AllSeen DEF Sound
  <2>4. ASSUME RootKind = "Container", Reason(RootKind) # "ExactId" PROVE s[3] \in a.listed_ids["Container"]
    <3>1. selector.kind # "ContainerIds"
      BY <2>4 DEF Reason
    <3>2. selector.kind \in ListSelectors /\ Preliminaries = 3
      BY <1>2, <2>4, <3>1 DEF Preliminaries
    <3>3. a.listed_ids["Container"] = DOMAIN Es[3].reply.body
      BY <3>2, ListKept DEF Sound
    <3>4. s[3] \in Keys("Container")
      BY <2>1, <2>3, <2>4 DEF Keys
    <3>. QED BY <3>2, <3>3, <3>4, ListKept
  <2>. QED BY <1>3, <2>1, <2>3, <2>4
<1>. HIDE DEF Handed
<1>. QED BY <1>1, <1>4, <1>5, <1>6 DEF D!RootsInspected

\* A capture was made of finitely many reads.
LEMMA SeenFinite ==
  ASSUME Kept, NEW a, Sound(a, Len(Es))
  PROVE  IsFiniteSet({s \in a.seen_resources : s[1] = "Container"})
<1>1. PICK n \in Nat : n = Len(Es)
  BY Views
<1>2. IsFiniteSet(1 .. n)
  BY FS_Interval
<1>. DEFINE I == {i \in 1 .. n : Es[i].request.op = "Inspect"}
            f == [i \in I |-> SeenAs(Es[i])]
<1>3. IsFiniteSet(I)
  BY <1>2, FS_Subset
<1>4. f \in Surjection(I, SeenTo(n))
  BY DEF SeenTo, Surjection
<1>. HIDE DEF I, f
<1>5. IsFiniteSet(SeenTo(n))
  BY <1>3, <1>4, FS_Surjection
<1>6. a.seen_resources = SeenTo(n)
  BY <1>1 DEF Sound
<1>. QED BY <1>5, <1>6, FS_Subset

\* Where something was listed, something was inspected, unless nothing was to be.
LEMMA ListsKept ==
  ASSUME Kept, NEW a, Sound(a, Len(Es))
  PROVE  D!ListsFollowed(a, Handed)
<1>1. /\ Handed.selected_roots = selected_roots
      /\ Handed.selected_resources = capture.bounds.selected_resources
      /\ Handed.discovery_only = (selector.kind = "Discovery")
  BY DEF Handed
<1>2. a.listed_ids["Network"] = {} /\ a.listed_ids["Volume"] = {}
  BY DEF Sound
<1>3. \/ selector.kind = "Discovery" \/ a.listed_ids["Container"] = {}
      \/ a.listed_ids["Container"] \cap a.inspected_ids["Container"] # {}
  <2>1. CASE Preliminaries # 3
    BY <2>1 DEF Sound
  <2>2. CASE Preliminaries = 3
    <3>1. PICK l : l = Es[3].reply.body
      OBVIOUS
    <3>2. a.listed_ids["Container"] = DOMAIN l
      BY <2>2, <3>1, ListKept DEF Sound
    <3>3. a.inspected_ids["Container"] = Matches(selector, l)
      BY <2>2, <3>1, ListKept, AllSeen DEF Sound, Kinds
    <3>4. Matches(selector, l) \subseteq DOMAIN l /\ ~SelectionFails(selector, l) /\ selector.kind \in ListSelectors
      BY <2>2, <3>1, ListKept DEF ListTaken
    <3>5. CASE selector.kind = "AllContainers"
      <4>1. Matches(selector, l) = DOMAIN l
        BY <3>5 DEF Matches
      <4>. QED BY <3>2, <3>3, <4>1
    <3>6. CASE selector.kind \in {"NamePrefix", "Label"}
      <4>1. Matches(selector, l) # {}
        BY <3>4, <3>6 DEF SelectionFails
      <4>. QED BY <3>2, <3>3, <3>4, <4>1
    <3>7. CASE selector.kind = "ContainerNames"
      <4>1. selector.items # <<>> /\ selector.items \in Seq(Range(selector.items))
        BY <3>7, AcquireAssumption DEF Kept, Recorded
      <4>2. PICK name : name \in Range(selector.items)
        <5>1. PICK s : s = selector.items
          OBVIOUS
        <5>2. 1 \in DOMAIN s
          BY <4>1, <5>1
        <5>. QED BY <5>1, <5>2 DEF Range
      <4>3. Cardinality(Named(l, name)) = 1
        BY <3>4, <3>7, <4>2 DEF SelectionFails
      <4>4. Named(l, name) # {}
        BY <4>3, FS_EmptySet
      <4>5. Matches(selector, l) = UNION {Named(l, m) : m \in Range(selector.items)}
        BY <3>7 DEF Matches
      <4>6. Matches(selector, l) # {}
        BY <4>2, <4>4, <4>5
      <4>. QED BY <3>2, <3>3, <3>4, <4>6
    <3>. QED BY <3>4, <3>5, <3>6, <3>7 DEF ListSelectors
  <2>. QED BY <2>1, <2>2
<1>4. ASSUME selected_roots = {}
      PROVE  capture.bounds.selected_resources
               <= D!Cardinality({s \in a.seen_resources : s[1] = "Container"})
  <2>1. capture.bounds.selected_resources = 0
    BY <1>4, FS_EmptySet DEF Kept, Final, RootsMatchSelection
  <2>2. Cardinality({s \in a.seen_resources : s[1] = "Container"}) \in Nat
    BY SeenFinite, FS_CardinalityType
  <2>. QED BY <2>1, <2>2, SameCardinality
<1>. HIDE DEF Handed
<1>5. \A kind \in D!Kinds :
        \/ Handed.discovery_only /\ kind = "Container"
        \/ a.listed_ids[kind] = {}
        \/ a.listed_ids[kind] \cap a.inspected_ids[kind] # {}
  BY <1>1, <1>2, <1>3 DEF D!Kinds
<1>. QED BY <1>1, <1>4, <1>5 DEF D!ListsFollowed

\* Every URL was inside the daemon's range.
LEMMA RangeKept ==
  ASSUME Kept, NEW a, Sound(a, Len(Es))
  PROVE  D!InRange(a)
<1>1. 1 \in 1 .. Len(Es) /\ Len(Es) >= 1 /\ VersionTaken(Es[1].reply.body)
  BY Views DEF EntryTaken
<1>2. PICK b : b = Es[1].reply.body
  OBVIOUS
<1>3. a.max = b.max /\ a.min = b.min /\ a.requested_api_versions \subseteq {api}
  BY <1>1, <1>2 DEF Sound
<1>4. b.max \in Nat /\ b.min \in Nat \cup {None} /\ api = Negotiated(b)
      /\ (b.min # None => b.min <= Negotiated(b))
  BY <1>1, <1>2 DEF VersionTaken, Negotiable
<1>5. api <= b.max /\ api \in Nat /\ (b.min # None => b.min <= api /\ b.min \in Nat /\ b.min <= b.max)
  BY <1>4 DEF Negotiated, MaxKnown
<1>. QED BY <1>3, <1>4, <1>5 DEF D!InRange

\* Where no exchange is objected to and the releases agree, nothing is.
LEMMA NothingToRefuse ==
  ASSUME Kept, Clean(Len(Es)), ~(Len(Es) > MaxCollection)
  PROVE  Refusals = {}
<1>1. \A e \in Captured : \E i \in 1 .. Len(Es) : e = Es[i]
  BY Views DEF Captured, Kept, Es, Range
<1>2. ASSUME NEW e \in Captured PROVE Objections(e) = {}
  <2>1. PICK i \in 1 .. Len(Es) : e = Es[i]
    BY <1>1
  <2>. QED BY <2>1 DEF Clean
<1>3. ASSUME NEW r \in Releases
      PROVE  r # None /\ \E i \in {1, 2} : r = Es[i].reply.body.release
  <2>1. PICK e \in Captured : e.request.op \in {"DaemonVersion", "DaemonInfo"} /\ r = e.reply.body.release
    BY DEF Releases
  <2>2. PICK i \in 1 .. Len(Es) : e = Es[i]
    BY <1>1
  <2>3. EntryTaken(e, i) /\ Preliminaries \in {2, 3} /\ Len(Es) \in Nat
    BY <2>2, Views
  <2>4. e.request.op # "Inspect" /\ e.request # Plain("ListContainers")
    BY <2>1 DEF Plain
  <2>5. ~(i > Preliminaries) /\ ~(i = 3 /\ Preliminaries = 3)
    BY <2>3, <2>4 DEF EntryTaken, InspectionTaken
  <2>6. i \in {1, 2}
    BY <2>3, <2>5
  <2>. QED BY <2>1, <2>2, <2>6 DEF Releases
<1>4. \A r, s \in Releases : r = s
  <2>1. Len(Es) >= 2 /\ Len(Es) \in Nat
    BY Views
  <2>. QED BY <1>3, <2>1 DEF Clean
<1>5. ~(Len(capture.exchanges) > MaxCollection)
  BY DEF Es
<1>. QED BY <1>2, <1>4, <1>5 DEF Refusals

\* A recorded capture decodes, unless there is a reason to refuse it.
LEMMA KeptDecodes ==
  ASSUME Kept
  PROVE  CaptureDecodes
<1>1. PICK a : a = D!Gathered(Handed)
  OBVIOUS
<1>2. Len(Handed.exchanges) = Len(Es)
  BY Views DEF Hs
<1>3. CASE Len(Es) > MaxCollection
  <2>1. D!Decoded(Handed).error = "CollectionTooLarge"
    <3>. HIDE DEF Handed
    <3>. QED BY <1>2, <1>3 DEF D!Decoded
  <2>2. "CollectionTooLarge" \in Refusals
    BY <1>3 DEF Refusals, Es
  <2>. HIDE DEF Handed, Refusals
  <2>. QED BY <2>1, <2>2 DEF CaptureDecodes
<1>4. CASE ~(Len(Es) > MaxCollection) /\ Refused(a)
  <2>1. a.error # "Ok" /\ a.error \in Refusals
    BY <1>4 DEF Refused
  <2>2. D!Decoded(Handed) = [error |-> a.error]
    <3>. HIDE DEF Handed
    <3>. QED BY <1>1, <1>2, <1>4, <2>1 DEF D!Decoded
  <2>3. D!Decoded(Handed).error = a.error
    BY <2>2
  <2>. HIDE DEF Handed, Refusals
  <2>. QED BY <2>1, <2>3 DEF CaptureDecodes
<1>5. CASE ~(Len(Es) > MaxCollection) /\ Sound(a, Len(Es)) /\ Clean(Len(Es))
  <2>1. a.error = "Ok" /\ a.seen_resources = SeenTo(Len(Es))
    BY <1>5 DEF Sound
  <2>2. D!Complete(a, Handed)
    <3>1. Handed.network_name_fallbacks = network_name_fallbacks
      BY DEF Handed
    <3>2. D!SelectionAgrees(a, Handed) /\ D!RootsInspected(a, Handed) /\ D!ListsFollowed(a, Handed)
      BY <1>5, SelectionKept, RootsSeen, ListsKept
    <3>3. \A r \in network_name_fallbacks :
            \E seen \in a.seen_resources : seen[1] = "Network" /\ seen[2] = r
      BY <1>5, FallbacksSeen
    <3>. HIDE DEF Handed
    <3>. QED BY <3>1, <3>2, <3>3 DEF D!Complete
  <2>3. D!InRange(a)
    BY <1>5, RangeKept
  <2>4. D!Decoded(Handed).error = "Ok" /\ D!Decoded(Handed).resources = a.seen_resources
    <3>. HIDE DEF Handed
    <3>. QED BY <1>1, <1>2, <1>5, <2>1, <2>2, <2>3 DEF D!Decoded
  <2>5. a.seen_resources = {<<e.request.object[1], e.resource, e.request.object[2]>> :
                              e \in {f \in Captured : f.request.op = "Inspect"}}
    BY <2>1, AllSeen
  <2>6. Refusals = {}
    BY <1>5, NothingToRefuse
  <2>. HIDE DEF Handed, Refusals
  <2>. QED BY <2>4, <2>5, <2>6 DEF CaptureDecodes
<1>. QED BY <1>1, <1>3, <1>4, <1>5, GatheredSound

\* Whatever the walk captures decodes to exactly what it inspected, unless the
\* daemon said what the walk never read and the decoder cannot accept (a field
\* that does not decode, an /info that is not JSON, two releases, a denied
\* rootless option) or there are more exchanges than one document may hold: acquire
\* and decode_capture agree on selection, identity, aliases, completeness and
\* API range, and none of these refuses a capture.
THEOREM CapturesDecode == Spec => []CaptureDecodes
<1>1. LedgerInv /\ ChronicleInv => CaptureDecodes
  <2>. SUFFICES ASSUME LedgerInv, ChronicleInv, capture # None PROVE CaptureDecodes
    BY DEF CaptureDecodes
  <2>1. Kept
    BY DEF Kept, LedgerInv, ChronicleInv
  <2>. QED BY <2>1, KeptDecodes
<1>. QED BY <1>1, LedgerInvariance, ChronicleInvariance, PTL
=============================================================================
