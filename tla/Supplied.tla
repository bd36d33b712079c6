------------------------------ MODULE Supplied ------------------------------
(***************************************************************************)
(* Captures a caller assembles: any exchanges through a Budget, whose only *)
(* discipline is one reference per native object and an API version on     *)
(* every URL but /version.  "A completed capture can be caller-supplied    *)
(* and is not itself proof of daemon contact" (src/decoder.rs), so the     *)
(* decoder has to make sense of them alone.                                *)
(***************************************************************************)
EXTENDS Decode

CONSTANTS
  Exchanges,      \* what a caller may record, see Decode for the shape
  MaxExchanges    \* bound: exchanges of one capture

\* ApiOperation has six cases, NativeObject three.
ASSUME SuppliedAssumption ==
  \A e \in Exchanges :
    /\ e.op \in {"DaemonVersion", "DaemonInfo", "ListContainers", "ListNetworks", "ListVolumes", "Inspect"}
    /\ e.op = "Inspect" => e.object[1] \in Kinds

VARIABLES
  exchanges,      \* the completed exchanges, in order
  selected        \* what record_selection was told

vars == <<exchanges, selected>>

Init == exchanges = <<>> /\ selected \in 0 .. 1

\* record_request's ResourceConflict and MissingApiVersion.
Recordable(e) ==
  /\ e.op # "DaemonVersion" => e.api # Absent
  /\ e.op = "Inspect" =>
       \A f \in Range(exchanges) : f.op = "Inspect" => (f.object = e.object <=> f.resource = e.resource)

Supply ==
  /\ Len(exchanges) < MaxExchanges
  /\ \E e \in Exchanges : Recordable(e) /\ exchanges' = Append(exchanges, e)
  /\ UNCHANGED selected

Next == Supply

Spec == Init /\ [][Next]_vars

\* Capture::from_completed: no selector, roots or fallbacks.
CaptureOf(es) ==
  [exchanges |-> es, selector |-> Absent, selected_roots |-> {}, network_name_fallbacks |-> {},
   selected_resources |-> selected, discovery_only |-> FALSE]

\* The inventory does not depend on the order in which a caller read the
\* endpoints: exchanging two neighbours neither turns a refusal into an
\* inventory nor changes what the inventory says.
Swapped(es, i) == [es EXCEPT ![i] = es[i + 1], ![i + 1] = es[i]]
OrderIrrelevant ==
  \A i \in 1 .. Len(exchanges) - 1 :
    LET here == Decoded(CaptureOf(exchanges))
        there == Decoded(CaptureOf(Swapped(exchanges, i)))
    IN  IF here.error = "Ok" THEN there = here ELSE there.error # "Ok"
=============================================================================
