------------------------------- MODULE Budget -------------------------------
(***************************************************************************)
(* The acquisition budget of src/acquisition.rs: the public object every   *)
(* read of the daemon is charged to.  A budget counts requests, selected   *)
(* resources, expansions and response bytes, keeps the one request whose   *)
(* answer is outstanding, the exchanges that completed, and the one-to-one *)
(* binding between local references and native objects.  Turning it into a *)
(* capture consumes it.                                                    *)
(*                                                                         *)
(* A budget is used through `&mut self`, so its operations never overlap;  *)
(* what interleaves with them is the clock, and read_response is split     *)
(* where it leaves the budget for the caller's blocking reader.            *)
(***************************************************************************)
EXTENDS Integers, Sequences, FiniteSets, Functions

CONSTANTS
  Refs,          \* ResourceRef: the caller's local references
  Objects,       \* (ResourceKind, NativeId): the native objects it may inspect
  Reads,         \* DaemonVersion, DaemonInfo, ListContainers, ListNetworks, ListVolumes
  Replies,       \* what a completed response said: its status and body content
  None,          \* Option::None
  MaxRequests, MaxSelected, MaxExpansions,     \* Limits, in the code's order
  MaxResponse, MaxTotal, MaxElapsed,
  UsizeMax       \* usize::MAX

\* The requests that inspect no resource (all five, or those an instance uses),
\* and the three inspect variants (the kind is part of the object).
ReadRequest == [op : Reads, object : {None}] \cup [op : {"Inspect"}, object : Objects]

\* Limits::validate.
ValidLimits ==
  /\ MaxRequests \in 1 .. UsizeMax /\ MaxSelected \in 1 .. UsizeMax
  /\ MaxExpansions \in 1 .. UsizeMax /\ MaxTotal \in 1 .. UsizeMax
  /\ MaxResponse \in 1 .. MaxTotal /\ MaxResponse # UsizeMax
  /\ MaxElapsed \in Nat \ {0}

ASSUME BudgetAssumption ==
  /\ UsizeMax \in Nat
  /\ ValidLimits
  /\ Reads \subseteq {"DaemonVersion", "DaemonInfo", "ListContainers", "ListNetworks", "ListVolumes"}
  /\ None \notin Refs \cup Objects \cup [request : ReadRequest, resource : Refs \cup {None}, api : BOOLEAN]

VARIABLES
  clock,               \* time since `started`; later than MaxElapsed + 1 is no different
  requests, selected_resources, expansions, bytes_read,
  pending,             \* the request recorded and not yet answered, or None
  exchanges,           \* the completed exchanges, in order
  resource_ids,        \* reference -> native object, or None
  native_refs,         \* native object -> reference, or None
  failed,
  reading,             \* inside read_response, the reader is being drained
  outcome,             \* what the last completed call returned
  owned,               \* FALSE once into_capture has consumed the budget
  capture              \* the capture it made, or None

budget == <<requests, selected_resources, expansions, bytes_read, pending, exchanges,
            resource_ids, native_refs>>
vars == <<clock, budget, failed, reading, outcome, owned, capture>>

Pending == [request : ReadRequest, resource : Refs \cup {None}, api : BOOLEAN]
Exchange == [request : ReadRequest, resource : Refs \cup {None}, api : BOOLEAN,
             len : Nat, reply : Replies]
Bounds == [requests : Nat, selected_resources : Nat, expansions : Nat, bytes_read : Nat]

\* Errors that refuse a call and leave the budget usable, errors that poison it.
Refusals == {"PendingResponse", "InvalidResourceRef", "MissingApiVersion", "ResourceConflict",
             "ResponseWithoutRequest"}
Poisons == {"Requests", "SelectedResources", "Expansions", "Bytes", "Elapsed", "Input"}
Outcomes == {"New", "Ok", "Exhausted", "Incomplete", "CaptureAccounting"}
              \cup Refusals \cup Poisons
-----------------------------------------------------------------------------
\* The bytes of all the responses.
TotalLen(es) ==
  LET sum[n \in 0 .. Len(es)] == IF n = 0 THEN 0 ELSE sum[n - 1] + es[n].len
  IN  sum[Len(es)]

\* counts().
Counts == [requests |-> requests, selected_resources |-> selected_resources,
           expansions |-> expansions, bytes_read |-> bytes_read]

Init ==
  /\ clock = 0
  /\ requests = 0 /\ selected_resources = 0 /\ expansions = 0 /\ bytes_read = 0
  /\ pending = None
  /\ exchanges = <<>>
  /\ resource_ids = [r \in Refs |-> None]
  /\ native_refs = [o \in Objects |-> None]
  /\ failed = FALSE
  /\ reading = FALSE
  /\ outcome = "New"
  /\ owned = TRUE
  /\ capture = None

\* The caller still owns the budget and no call is in progress.
Callable == owned /\ ~reading

Late == clock > MaxElapsed

\* check_time: a poisoned budget answers Exhausted, a late one poisons itself.
Timely_OnlyClock == ~Late     \* mutant: a poisoned budget is let through
Timely == ~failed /\ ~Late
CheckTimeFails ==
  \/ failed /\ outcome' = "Exhausted" /\ UNCHANGED failed
  \/ ~failed /\ Late /\ outcome' = "Elapsed" /\ failed' = TRUE

Accept == outcome' = "Ok" /\ UNCHANGED failed
Refuse(error) == outcome' = error /\ UNCHANGED failed
Poison(error) == outcome' = error /\ failed' = TRUE

\* checked_add, then the test against a limit: what the counter becomes, and
\* whether the limit still holds.
Bumped(counter, n) == IF counter + n > UsizeMax THEN counter ELSE counter + n
Fits(counter, n, max) == counter + n <= UsizeMax /\ counter + n <= max

Tick ==
  /\ clock <= MaxElapsed
  /\ clock' = clock + 1
  /\ UNCHANGED <<budget, failed, reading, outcome, owned, capture>>
-----------------------------------------------------------------------------
\* The refusals record_request tests before it changes anything, in its order.
Conflicting_ByReference(q, r) == r # None /\ resource_ids[r] \notin {None, q.object}     \* mutant
Conflicting(q, r) ==
  /\ r # None
  /\ resource_ids[r] \notin {None, q.object} \/ native_refs[q.object] \notin {None, r}

RequestError_Overlap(q, r, api) ==     \* mutant: the outstanding request is forgotten
  IF (q.op = "Inspect") # (r # None) THEN "InvalidResourceRef"
  ELSE IF q.op # "DaemonVersion" /\ ~api THEN "MissingApiVersion"
  ELSE IF Conflicting(q, r) THEN "ResourceConflict"
  ELSE "Ok"

RequestError(q, r, api) ==
  IF pending # None THEN "PendingResponse"
  ELSE IF (q.op = "Inspect") # (r # None) THEN "InvalidResourceRef"
  ELSE IF q.op # "DaemonVersion" /\ ~api THEN "MissingApiVersion"
  ELSE IF Conflicting(q, r) THEN "ResourceConflict"
  ELSE "Ok"

\* An inspect charges one expansion and binds its reference and its object.
Inspect(q, r) ==
  /\ expansions' = expansions + 1
  /\ resource_ids' = [resource_ids EXCEPT ![r] = q.object]
  /\ native_refs' = [native_refs EXCEPT ![q.object] = r]

\* The request is counted; it becomes pending only within the limit.  The
\* expansion and the binding made above stay even when the count fails.
CountRequest_Refused(q, r, api) ==     \* mutant: the exceeded limit does not poison
  /\ requests' = Bumped(requests, 1)
  /\ IF Fits(requests, 1, MaxRequests)
     THEN pending' = [request |-> q, resource |-> r, api |-> api] /\ Accept
     ELSE Refuse("Requests") /\ UNCHANGED pending

CountRequest(q, r, api) ==
  /\ requests' = Bumped(requests, 1)
  /\ \/ /\ Fits(requests, 1, MaxRequests)
        /\ pending' = [request |-> q, resource |-> r, api |-> api]
        /\ Accept
     \/ /\ ~Fits(requests, 1, MaxRequests)
        /\ Poison("Requests")
        /\ UNCHANGED pending

RecordRequest(q, r, api) ==
  LET error == RequestError(q, r, api) IN
  /\ Callable
  /\ \/ ~Timely /\ CheckTimeFails /\ UNCHANGED budget
     \/ Timely /\ error # "Ok" /\ Refuse(error) /\ UNCHANGED budget
     \/ /\ Timely /\ error = "Ok" /\ r # None /\ ~Fits(expansions, 1, MaxExpansions)
        /\ Poison("Expansions")
        /\ UNCHANGED budget
     \/ /\ Timely /\ error = "Ok"
        /\ r # None => Fits(expansions, 1, MaxExpansions)
        /\ IF r # None THEN Inspect(q, r) ELSE UNCHANGED <<expansions, resource_ids, native_refs>>
        /\ CountRequest(q, r, api)
        /\ UNCHANGED <<selected_resources, bytes_read, exchanges>>
  /\ UNCHANGED <<clock, reading, owned, capture>>

RecordSelection(n) ==
  /\ Callable
  /\ \/ ~Timely /\ CheckTimeFails /\ UNCHANGED selected_resources
     \/ /\ Timely
        /\ selected_resources' = Bumped(selected_resources, n)
        /\ IF Fits(selected_resources, n, MaxSelected) THEN Accept ELSE Poison("SelectedResources")
  /\ UNCHANGED <<clock, requests, expansions, bytes_read, pending, exchanges, resource_ids,
                 native_refs, reading, owned, capture>>

RecordExpansion(n) ==
  /\ Callable
  /\ \/ ~Timely /\ CheckTimeFails /\ UNCHANGED expansions
     \/ /\ Timely
        /\ expansions' = Bumped(expansions, n)
        /\ IF Fits(expansions, n, MaxExpansions) THEN Accept ELSE Poison("Expansions")
  /\ UNCHANGED <<clock, requests, selected_resources, bytes_read, pending, exchanges, resource_ids,
                 native_refs, reading, owned, capture>>
-----------------------------------------------------------------------------
Smaller(a, b) == IF a < b THEN a ELSE b

\* The bytes a response may still have; the reader is cut one byte past it.
Allowance_OneResponse == MaxResponse     \* mutant: the total is forgotten
Allowance == Smaller(MaxResponse, MaxTotal - bytes_read)

\* read_response up to its reader.
BeginRead ==
  /\ Callable
  /\ \/ ~Timely /\ CheckTimeFails /\ UNCHANGED reading
     \/ Timely /\ pending = None /\ Refuse("ResponseWithoutRequest") /\ UNCHANGED reading
     \/ Timely /\ pending # None /\ reading' = TRUE /\ UNCHANGED <<outcome, failed>>
  /\ UNCHANGED <<clock, budget, owned, capture>>

ReaderFails_Refused(n) ==     \* mutant: a failed reader does not poison
  /\ reading
  /\ reading' = FALSE
  /\ n \in 0 .. Allowance
  /\ bytes_read' = Smaller(bytes_read + n, UsizeMax)
  /\ Refuse("Input")
  /\ UNCHANGED <<clock, requests, selected_resources, expansions, pending, exchanges, resource_ids,
                 native_refs, owned, capture>>

\* The reader fails after n bytes.
ReaderFails(n) ==
  /\ reading
  /\ reading' = FALSE
  /\ n \in 0 .. Allowance
  /\ bytes_read' = Smaller(bytes_read + n, UsizeMax)
  /\ Poison("Input")
  /\ UNCHANGED <<clock, requests, selected_resources, expansions, pending, exchanges, resource_ids,
                 native_refs, owned, capture>>

\* The reader ends, or is cut, after n bytes.  The deadline is checked again
\* before the answer is accepted.
EndRead(n, reply) ==
  /\ reading
  /\ reading' = FALSE
  /\ n \in 0 .. Allowance + 1
  /\ bytes_read' = Smaller(bytes_read + n, UsizeMax)
  /\ \/ ~Timely /\ CheckTimeFails /\ UNCHANGED <<pending, exchanges>>
     \/ Timely /\ n > Allowance /\ Poison("Bytes") /\ UNCHANGED <<pending, exchanges>>
     \/ /\ Timely /\ n <= Allowance
        /\ exchanges' = Append(exchanges, [request |-> pending.request,
                                           resource |-> pending.resource, api |-> pending.api,
                                           len |-> n, reply |-> reply])
        /\ pending' = None
        /\ Accept
  /\ UNCHANGED <<clock, requests, selected_resources, expansions, resource_ids, native_refs, owned, capture>>

\* The cross-check of Capture::from_completed.
Accounted == requests = Len(exchanges) /\ bytes_read = TotalLen(exchanges)

\* into_capture consumes the budget whatever it returns.
CaptureError ==
  IF failed THEN "Exhausted"
  ELSE IF Late THEN "Elapsed"
  ELSE IF pending # None \/ requests = 0 THEN "Incomplete"
  ELSE IF ~Accounted THEN "CaptureAccounting"
  ELSE "Ok"

IntoCapture ==
  /\ Callable
  /\ owned' = FALSE
  /\ outcome' = CaptureError
  /\ capture' = IF CaptureError = "Ok" THEN [bounds |-> Counts, exchanges |-> exchanges] ELSE capture
  /\ UNCHANGED <<clock, budget, failed, reading>>
-----------------------------------------------------------------------------
Next ==
  \/ Tick
  \/ \E q \in ReadRequest, r \in Refs \cup {None}, api \in BOOLEAN : RecordRequest(q, r, api)
  \/ \E n \in 0 .. UsizeMax : RecordSelection(n) \/ RecordExpansion(n)
  \/ BeginRead
  \/ \E n \in 0 .. Allowance + 1 : ReaderFails(n) \/ \E reply \in Replies : EndRead(n, reply)
  \/ IntoCapture

Spec == Init /\ [][Next]_vars
-----------------------------------------------------------------------------
(***************************************************************************)
(* Properties.                                                             *)
(***************************************************************************)

\* Every variable keeps its type; an over-run counter stays a usize.
TypeOK ==
  /\ clock \in 0 .. MaxElapsed + 1
  /\ requests \in 0 .. UsizeMax /\ selected_resources \in 0 .. UsizeMax
  /\ expansions \in 0 .. UsizeMax /\ bytes_read \in 0 .. UsizeMax
  /\ pending \in Pending \cup {None}
  /\ exchanges \in Seq(Exchange)
  /\ resource_ids \in [Refs -> Objects \cup {None}]
  /\ native_refs \in [Objects -> Refs \cup {None}]
  /\ failed \in BOOLEAN /\ reading \in BOOLEAN /\ owned \in BOOLEAN
  /\ outcome \in Outcomes
  /\ capture \in [bounds : Bounds, exchanges : Seq(Exchange)] \cup {None}

\* While a budget is usable every counted request is an exchange or the one
\* outstanding request, whatever order calls, refusals and reads came in
\* (record_request counts, read_response completes).
RequestsAccounted ==
  ~failed => requests = Len(exchanges) + (IF pending = None THEN 0 ELSE 1)

\* The accounting cross-check of Capture::from_completed never refuses what
\* into_capture hands it: every byte read is in a completed exchange, although
\* read_response adds it before it knows whether it accepts the answer.
AccountingNeverFails == outcome # "CaptureAccounting"

\* A usable budget is inside every limit, and so is what a capture reports.
WithinLimits(b) ==
  /\ b.requests <= MaxRequests
  /\ b.selected_resources <= MaxSelected
  /\ b.expansions <= MaxExpansions
  /\ b.bytes_read <= MaxTotal
LimitsHeld ==
  /\ ~failed => WithinLimits(Counts)
  /\ capture # None => WithinLimits(capture.bounds)
  /\ \A i \in 1 .. Len(exchanges) : exchanges[i].len <= MaxResponse

\* However the reads go, no more than the one sentinel byte past the total
\* limit and one request past the request limit is ever charged.
OverrunBounded == bytes_read <= MaxTotal + 1 /\ requests <= MaxRequests + 1

\* "Within one capture, a local reference binds one native object" and each
\* object one reference: the two maps are inverse to each other.
OneToOne ==
  \A r \in Refs, o \in Objects : resource_ids[r] = o <=> native_refs[o] = r

\* The reads recorded so far: the completed ones and the outstanding one.
Recorded == Range(exchanges) \cup ({pending} \ {None})

\* Every inspection recorded, outstanding or complete, carries the reference
\* its object is bound to, so two exchanges share one exactly when they share
\* the other; and every read but /version carries an API version.
ReadsBound ==
  \A e \in Recorded :
    /\ e.request.op = "Inspect" => e.resource # None /\ resource_ids[e.resource] = e.request.object
    /\ e.request.op # "Inspect" => e.resource = None
    /\ e.request.op # "DaemonVersion" => e.api

\* Inside read_response the request is still outstanding and the budget usable:
\* nothing but the clock moves until the reader ends, so the `expect` on the
\* pending request cannot fail.
ReadingExpectsAnswer == reading => owned /\ ~failed /\ pending # None

\* In a usable budget a binding stands for an inspection that was really
\* recorded: registration without its request only happens on the way to
\* poisoning the budget (the request counter is tested after registration).
BindingsAreRead ==
  ~failed => \A r \in Refs : resource_ids[r] # None =>
    \E e \in Recorded : e.resource = r

\* The inductive invariant: the parts hold together, none of the last five
\* without the others.
BudgetInv ==
  TypeOK /\ ReadingExpectsAnswer /\ RequestsAccounted /\ LimitsHeld /\ OverrunBounded
    /\ OneToOne /\ ReadsBound /\ BindingsAreRead

\* A poisoned budget never recovers, charges nothing more and never becomes a
\* capture.
FailureIsFinal == [][failed => failed' /\ capture' = capture /\ UNCHANGED budget]_vars

\* A binding is never replaced or dropped.
BindingsPermanent ==
  [][\A r \in Refs : resource_ids[r] # None => resource_ids'[r] = resource_ids[r]]_vars
=============================================================================
