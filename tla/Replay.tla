------------------------------- MODULE Replay -------------------------------
(***************************************************************************)
(* The walk of src/acquisition.rs and the decoder of src/decoder.rs,       *)
(* composed: whatever acquire captures is handed to decode_capture, which  *)
(* sees the exchanges and the walk's claims about them, not the daemon.    *)
(***************************************************************************)
EXTENDS Acquire

CONSTANT MaxCollection      \* MAX_COLLECTION_ITEMS

D == INSTANCE Decode WITH Absent <- None

\* The body of an exchange as the decoder reads it.  negotiated_api has decoded
\* both version fields of /version, so nothing after its release is refused.
Seen(q, b) ==
  IF b = Malformed THEN Malformed
  ELSE CASE q.op \in {"DaemonInfo", "ListContainers"} -> b
         [] q.op = "DaemonVersion" ->
              [release |-> b.release, max |-> b.max, min |-> b.min, fields |-> b.fields, rest |-> "Ok"]
         [] q.op = "Inspect" ->
              CASE q.object[1] = "Container" -> [Id |-> b.Id, Name |-> None, fields |-> b.fields]
                [] q.object[1] = "Network"   -> [Id |-> b.Id, Name |-> b.Name, fields |-> b.fields]
                [] q.object[1] = "Volume"    -> [Id |-> None, Name |-> b.Name, fields |-> b.fields]

\* What is there is not nothing, and a real answer is not read as nonsense.
ASSUME ReplayAssumption ==
  /\ MaxCollection \in Nat
  /\ None \notin Selectors \cup [ids : SUBSET NativeIds]
  /\ \A w \in Worlds : \A q \in Requests : \A r \in Answers(w, q) :
       r.status = 200 => Seen(q, r.body) # Malformed

\* What the walk attaches to its capture.
Handed ==
  [exchanges |-> [i \in DOMAIN capture.exchanges |->
     LET e == capture.exchanges[i] IN
     [op |-> e.request.op, object |-> e.request.object, resource |-> e.resource,
      api |-> IF e.api THEN api ELSE None, status |-> e.reply.status, len |-> e.len,
      body |-> Seen(e.request, e.reply.body)]],
   selector |-> selector, selected_roots |-> selected_roots,
   network_name_fallbacks |-> network_name_fallbacks,
   selected_resources |-> capture.bounds.selected_resources,
   discovery_only |-> selector.kind = "Discovery"]

\* Why the decoder may refuse an exchange the walk accepted: an /info that is
\* not JSON or denies its own rootless option, or a field, of /version, /info, a
\* listed or an inspected object, that the walk did not read and that does not
\* decode.
Objections(e) ==
  LET b == e.reply.body IN
  (IF b = Malformed THEN {"InvalidJson"}
   ELSE CASE e.request.op = "DaemonInfo" ->
               {b.fields, b.rest} \cup (IF b.option /\ b.rootless = FALSE THEN {"ConflictingFacts"} ELSE {})
          [] e.request.op = "ListContainers" -> {b[c].fields : c \in DOMAIN b}
          [] OTHER -> {b.fields}) \ {"Ok"}

\* The releases /version and /info report.
Releases == {e.reply.body.release : e \in {f \in Captured :
               f.request.op \in {"DaemonVersion", "DaemonInfo"} /\ f.reply.body # Malformed}} \ {None}

\* Why the decoder may refuse a capture.
Refusals ==
  (UNION {Objections(e) : e \in Captured})
    \cup (IF \E r, s \in Releases : r # s THEN {"ConflictingFacts"} ELSE {})
    \cup (IF Len(capture.exchanges) > MaxCollection THEN {"CollectionTooLarge"} ELSE {})

\* Every capture decodes to exactly the objects the walk inspected, whatever
\* changed while it ran, unless there is one of those reasons, and then it is
\* refused for one of them: walk and decoder agree on selection, identity,
\* aliases, completeness and API range, and none of these ever refuses a walk.
CaptureDecodes ==
  capture # None =>
    LET decoded == D!Decoded(Handed) IN
    IF Refusals = {}
    THEN /\ decoded.error = "Ok"
         /\ decoded.resources = {<<e.request.object[1], e.resource, e.request.object[2]>> :
                                   e \in {f \in Captured : f.request.op = "Inspect"}}
    ELSE decoded.error \in Refusals
=============================================================================
