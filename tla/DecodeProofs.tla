---------------------------- MODULE DecodeProofs ----------------------------
(***************************************************************************)
(* The decoder of src/decoder.rs, for captures and mount modes of any      *)
(* length.                                                                 *)
(*                                                                         *)
(* The inventory decode_capture makes of a caller's exchanges does not     *)
(* depend on their order.  The argument: what one exchange does to what    *)
(* the loop carries, and whether the loop takes it, is written as one      *)
(* record and one condition (After, Takes) in which every field either     *)
(* only grows by union, or is settled by the one exchange allowed to       *)
(* settle it.  Two neighbours therefore commute, and what follows them is  *)
(* read from the same state.                                               *)
(*                                                                         *)
(* What a mount mode means is read off its options, whatever their order   *)
(* and however they repeat: the scan's state is described by the options   *)
(* alone (ScannedTo), and every option more keeps that description true.   *)
(***************************************************************************)
EXTENDS Supplied, Withheld, FiniteSetTheorems, WellFoundedInduction, TLAPS

\* What may be recorded.
Supplies(e) ==
  /\ e.op \in {"DaemonVersion", "DaemonInfo", "ListContainers", "ListNetworks", "ListVolumes", "Inspect"}
  /\ e.op = "Inspect" => e.object[1] \in Kinds

(***************************************************************************)
(* One exchange.                                                           *)
(***************************************************************************)

\* What the loop carries while nothing was refused and no selector is given.
Going(a) ==
  /\ a = [error |-> "Ok", version_seen |-> a.version_seen, info_seen |-> a.info_seen,
          release |-> a.release, max |-> a.max, min |-> a.min, mode |-> a.mode,
          requested_api_versions |-> a.requested_api_versions,
          listed_ids |-> [k \in Kinds |-> a.listed_ids[k]],
          inspected_ids |-> [k \in Kinds |-> a.inspected_ids[k]],
          inspected_native_objects |-> [k \in Kinds |-> a.inspected_native_objects[k]],
          seen_resources |-> a.seen_resources, selected_from_list |-> Absent]
  /\ a.version_seen \in BOOLEAN /\ a.info_seen \in BOOLEAN

Report(e) == IF e.op \in {"DaemonVersion", "DaemonInfo"} THEN e.body.release ELSE Absent
Native(e) == e.body[NativeKey(e.object[1])]

\* The ids, objects and resources an exchange adds.
Lists(e, k) ==
  IF e.op = "ListContainers" /\ k = "Container" THEN DOMAIN e.body
  ELSE IF \/ e.op = "ListNetworks" /\ k = "Network"
          \/ e.op = "ListVolumes" /\ k = "Volume"
  THEN e.body.ids ELSE {}
Inspects(e, k) == e.op = "Inspect" /\ e.object[1] = k
Adds(e, k, x) == IF Inspects(e, k) THEN {x} ELSE {}
Sees(e) == IF e.op = "Inspect" THEN {<<e.object[1], e.resource, e.object[2]>>} ELSE {}

\* An exchange can be read: answered, small enough, with the API version of
\* its URL, and no field of its body refused.
Answered(e) ==
  /\ e.status = 200 /\ ~(e.len > MaxJson) /\ e.body # Malformed
  /\ e.api = Absent => e.op = "DaemonVersion"
FieldsDecode(e) ==
  /\ e.op \in {"DaemonVersion", "DaemonInfo"} => e.body.fields = "Ok" /\ e.body.rest = "Ok"
  /\ e.op = "ListContainers" => Undecoded(e.body) = {}
  /\ e.op \in {"ListNetworks", "ListVolumes", "Inspect"} => e.body.fields = "Ok"

\* The loop goes on after the exchange.
Takes(a, c, e) ==
  /\ Answered(e) /\ FieldsDecode(e)
  /\ e.op = "DaemonVersion" => ~a.version_seen
  /\ e.op = "DaemonInfo" => ~a.info_seen /\ ~(e.body.option /\ e.body.rootless = FALSE)
  /\ Report(e) = Absent \/ a.release \in {Absent, Report(e)}
  /\ e.op = "Inspect" =>
       /\ e.body[IdentityKey(c, e)] = e.object[2]
       /\ Native(e) # Absent /\ Native(e) \notin a.inspected_native_objects[e.object[1]]
       /\ ~ \E seen \in a.seen_resources : seen[1] = e.object[1] /\ seen[2] = e.resource

\* What it carries then.
ModeSaid(e) ==
  IF e.body.option \/ e.body.rootless = TRUE THEN "Rootless"
  ELSE IF e.body.rootless = FALSE THEN "Rootful" ELSE "Unknown"
After(a, e) ==
  [error |-> "Ok",
   version_seen |-> a.version_seen \/ e.op = "DaemonVersion",
   info_seen |-> a.info_seen \/ e.op = "DaemonInfo",
   release |-> IF Report(e) = Absent THEN a.release ELSE Report(e),
   max |-> IF e.op = "DaemonVersion" THEN e.body.max ELSE a.max,
   min |-> IF e.op = "DaemonVersion" THEN e.body.min ELSE a.min,
   mode |-> IF e.op = "DaemonInfo" THEN ModeSaid(e) ELSE a.mode,
   requested_api_versions |-> a.requested_api_versions \cup ({e.api} \ {Absent}),
   listed_ids |-> [k \in Kinds |-> a.listed_ids[k] \cup Lists(e, k)],
   inspected_ids |-> [k \in Kinds |-> a.inspected_ids[k] \cup Adds(e, k, e.object[2])],
   inspected_native_objects |-> [k \in Kinds |-> a.inspected_native_objects[k] \cup Adds(e, k, Native(e))],
   seen_resources |-> a.seen_resources \cup Sees(e),
   selected_from_list |-> Absent]

\* The loop keeps going in the same way.
LEMMA GoesOn == ASSUME NEW a, Going(a), NEW e PROVE Going(After(a, e))
<1>1. PICK b : b = After(a, e)
  OBVIOUS
<1>2. /\ b.listed_ids = [k \in Kinds |-> b.listed_ids[k]]
      /\ b.inspected_ids = [k \in Kinds |-> b.inspected_ids[k]]
      /\ b.inspected_native_objects = [k \in Kinds |-> b.inspected_native_objects[k]]
  BY <1>1 DEF After
<1>3. b.version_seen \in BOOLEAN /\ b.info_seen \in BOOLEAN
  BY <1>1 DEF After
<1>4. b = [error |-> "Ok", version_seen |-> b.version_seen, info_seen |-> b.info_seen,
           release |-> b.release, max |-> b.max, min |-> b.min, mode |-> b.mode,
           requested_api_versions |-> b.requested_api_versions,
           listed_ids |-> b.listed_ids, inspected_ids |-> b.inspected_ids,
           inspected_native_objects |-> b.inspected_native_objects,
           seen_resources |-> b.seen_resources, selected_from_list |-> Absent]
  BY <1>1 DEF After
<1>. QED BY <1>1, <1>2, <1>3, <1>4 DEF Going

\* Two records of the loop are the same if their fields are.
Same(a, b) ==
  /\ a.version_seen = b.version_seen /\ a.info_seen = b.info_seen /\ a.release = b.release
  /\ a.max = b.max /\ a.min = b.min /\ a.mode = b.mode
  /\ a.requested_api_versions = b.requested_api_versions
  /\ \A k \in Kinds : /\ a.listed_ids[k] = b.listed_ids[k]
                      /\ a.inspected_ids[k] = b.inspected_ids[k]
                      /\ a.inspected_native_objects[k] = b.inspected_native_objects[k]
  /\ a.seen_resources = b.seen_resources

\* Two states of the loop that agree in every field are the same.
LEMMA SameFields ==
  ASSUME NEW a, Going(a), NEW b, Going(b), Same(a, b) PROVE a = b
<1>1. /\ [k \in Kinds |-> a.listed_ids[k]] = [k \in Kinds |-> b.listed_ids[k]]
      /\ [k \in Kinds |-> a.inspected_ids[k]] = [k \in Kinds |-> b.inspected_ids[k]]
      /\ [k \in Kinds |-> a.inspected_native_objects[k]] = [k \in Kinds |-> b.inspected_native_objects[k]]
  BY DEF Same
<1>. QED BY <1>1 DEF Going, Same

\* What is carried by kind is carried for the three kinds.
LEMMA Kept ==
  ASSUME NEW a, Going(a)
  PROVE  /\ a.listed_ids = [k \in Kinds |-> a.listed_ids[k] \cup {}]
         /\ a.inspected_ids = [k \in Kinds |-> a.inspected_ids[k] \cup {}]
         /\ a.inspected_native_objects = [k \in Kinds |-> a.inspected_native_objects[k] \cup {}]
         /\ a.info_seen = (a.info_seen \/ FALSE) /\ a.version_seen = (a.version_seen \/ FALSE)
<1>1. \A s : s \cup {} = s
  OBVIOUS
<1>2. /\ a.listed_ids = [k \in Kinds |-> a.listed_ids[k]]
      /\ a.inspected_ids = [k \in Kinds |-> a.inspected_ids[k]]
      /\ a.inspected_native_objects = [k \in Kinds |-> a.inspected_native_objects[k]]
      /\ a.version_seen \in BOOLEAN /\ a.info_seen \in BOOLEAN
  BY DEF Going
<1>. QED BY <1>1, <1>2

\* An exchange that is answered is noted, and then read by what was asked.
Noted(a, e) == [a EXCEPT !.requested_api_versions = @ \cup ({e.api} \ {Absent})]

\* The fields of the loop's record, and those that did not change.
Keeps(b, a, changed) ==
  \A f \in {"error", "version_seen", "info_seen", "release", "max", "min", "mode", "requested_api_versions",
            "listed_ids", "inspected_ids", "inspected_native_objects", "seen_resources",
            "selected_from_list"} \ changed : b[f] = a[f]

\* An exchange that cannot be read ends the decoding.
LEMMA Unanswered ==
  ASSUME NEW a, Going(a), NEW c, NEW e, ~Answered(e)
  PROVE  Exchange(a, c, e).error # "Ok"
<1>1. a.error = "Ok" /\ \A x : Fail(a, x).error = x
  BY DEF Going, Fail
<1>. QED BY <1>1 DEF Exchange, Answered

\* Noting the version of the URL changes nothing else.
LEMMA Noting ==
  ASSUME NEW a, Going(a), NEW e
  PROVE  /\ Going(Noted(a, e)) /\ Keeps(Noted(a, e), a, {"requested_api_versions"})
         /\ Noted(a, e).requested_api_versions = a.requested_api_versions \cup ({e.api} \ {Absent})
<1>1. PICK b : b = Noted(a, e)
  OBVIOUS
<1>2. b = [error |-> b.error, version_seen |-> b.version_seen, info_seen |-> b.info_seen,
           release |-> b.release, max |-> b.max, min |-> b.min, mode |-> b.mode,
           requested_api_versions |-> b.requested_api_versions, listed_ids |-> b.listed_ids,
           inspected_ids |-> b.inspected_ids, inspected_native_objects |-> b.inspected_native_objects,
           seen_resources |-> b.seen_resources, selected_from_list |-> b.selected_from_list]
  BY <1>1 DEF Going, Noted
<1>3. Keeps(b, a, {"requested_api_versions"})
      /\ b.requested_api_versions = a.requested_api_versions \cup ({e.api} \ {Absent})
  BY <1>1 DEF Going, Noted, Keeps
<1>4. Going(b)
  BY <1>2, <1>3 DEF Going, Keeps
<1>. QED BY <1>1, <1>3, <1>4

\* The loop goes on if the record keeps its shape.
Shaped(d) ==
  d = [error |-> d.error, version_seen |-> d.version_seen, info_seen |-> d.info_seen,
       release |-> d.release, max |-> d.max, min |-> d.min, mode |-> d.mode,
       requested_api_versions |-> d.requested_api_versions, listed_ids |-> d.listed_ids,
       inspected_ids |-> d.inspected_ids, inspected_native_objects |-> d.inspected_native_objects,
       seen_resources |-> d.seen_resources, selected_from_list |-> d.selected_from_list]

\* A state of the right shape and without an error is one the loop goes on from.
LEMMA StillGoing ==
  ASSUME NEW b, Going(b), NEW d, Shaped(d), d.error = b.error,
         d.version_seen \in BOOLEAN, d.info_seen \in BOOLEAN,
         d.listed_ids = [k \in Kinds |-> d.listed_ids[k]],
         d.inspected_ids = [k \in Kinds |-> d.inspected_ids[k]],
         d.inspected_native_objects = [k \in Kinds |-> d.inspected_native_objects[k]],
         d.selected_from_list = Absent
  PROVE  Going(d)
<1>1. d.error = "Ok"
  BY DEF Going
<1>. QED BY <1>1 DEF Going, Shaped

\* A failure is one.
LEMMA Failing == ASSUME NEW a, Going(a), NEW x PROVE Fail(a, x).error = x
  BY DEF Going, Fail

\* A release is learnt unless another one is known.
LEMMA Learning ==
  ASSUME NEW b, Going(b), NEW release
  PROVE  IF release = Absent \/ b.release \in {Absent, release}
         THEN /\ Going(Learn(b, release)) /\ Keeps(Learn(b, release), b, {"release"})
              /\ Learn(b, release).release = IF release = Absent THEN b.release ELSE release
         ELSE Learn(b, release).error = "ConflictingFacts"
<1>1. CASE release = Absent
  BY <1>1 DEF Learn, Keeps
<1>2. CASE release # Absent /\ b.release \in {Absent, release}
  <2>1. PICK d : d = [b EXCEPT !.release = release]
    OBVIOUS
  <2>2. Learn(b, release) = d
    BY <1>2, <2>1 DEF Learn
  <2>3. Shaped(d)
    BY <2>1 DEF Going, Shaped
  <2>4. Keeps(d, b, {"release"}) /\ d.release = release
    BY <2>1 DEF Going, Keeps
  <2>5. Going(d)
    BY <2>3, <2>4 DEF Going, Keeps, Shaped
  <2>. QED BY <1>2, <2>2, <2>4, <2>5
<1>3. CASE release # Absent /\ b.release \notin {Absent, release}
  BY <1>3, Failing DEF Learn
<1>. QED BY <1>1, <1>2, <1>3

\* Nothing met later changes nothing, and anything else is the error from there on.
LEMMA MetLater ==
  ASSUME NEW b, Going(b), NEW x
  PROVE  IF x = "Ok" THEN Afterwards(b, x) = b ELSE Afterwards(b, x).error = x
<1>1. b.error = "Ok" /\ Fail(b, x).error = x
  BY Failing DEF Going
<1>. QED BY <1>1 DEF Afterwards

\* What the daemon says of itself.
LEMMA VersionReads ==
  ASSUME NEW a, Going(a), NEW c, NEW e, Answered(e), e.op = "DaemonVersion"
  PROVE  IF Takes(a, c, e) THEN Exchange(a, c, e) = After(a, e) ELSE Exchange(a, c, e).error # "Ok"
<1>1. PICK b : b = Noted(a, e)
  OBVIOUS
<1>2. Exchange(a, c, e) = Version(b, e.body)
  BY <1>1 DEF Exchange, Answered, Going, Noted
<1>3. Going(b) /\ Keeps(b, a, {"requested_api_versions"})
      /\ b.requested_api_versions = a.requested_api_versions \cup ({e.api} \ {Absent})
  BY <1>1, Noting
<1>6. b.version_seen = a.version_seen
  BY <1>3 DEF Keeps
<1>4. CASE a.version_seen
  BY <1>2, <1>3, <1>4, <1>6, Failing DEF Version, Takes
<1>7. CASE ~a.version_seen /\ e.body.fields # "Ok"
  <2>1. Fail(b, e.body.fields).error # "Ok"
    BY <1>3, <1>7, Failing
  <2>2. ~Takes(a, c, e)
    BY <1>7 DEF Takes, FieldsDecode
  <2>. QED BY <1>2, <1>6, <1>7, <2>1, <2>2 DEF Version
<1>5. CASE ~a.version_seen /\ e.body.fields = "Ok"
  <2>1. PICK d : d = [b EXCEPT !.version_seen = TRUE, !.max = e.body.max, !.min = e.body.min]
    OBVIOUS
  <2>2. Going(d) /\ Keeps(d, a, {"requested_api_versions", "version_seen", "max", "min"})
        /\ d.requested_api_versions = a.requested_api_versions \cup ({e.api} \ {Absent})
        /\ d.version_seen = TRUE /\ d.max = e.body.max /\ d.min = e.body.min
    <3>1. Shaped(d)
      BY <1>3, <2>1 DEF Going, Shaped
    <3>2. Keeps(d, b, {"version_seen", "max", "min"}) /\ d.version_seen = TRUE /\ d.max = e.body.max /\ d.min = e.body.min
      BY <1>3, <2>1 DEF Going, Keeps
    <3>3. /\ d.error = b.error /\ d.info_seen = b.info_seen /\ d.listed_ids = b.listed_ids
          /\ d.inspected_ids = b.inspected_ids /\ d.inspected_native_objects = b.inspected_native_objects
          /\ d.selected_from_list = b.selected_from_list
      BY <3>2 DEF Keeps
    <3>5. /\ b.listed_ids = [k \in Kinds |-> b.listed_ids[k]]
          /\ b.inspected_ids = [k \in Kinds |-> b.inspected_ids[k]]
          /\ b.inspected_native_objects = [k \in Kinds |-> b.inspected_native_objects[k]]
          /\ b.selected_from_list = Absent /\ b.info_seen \in BOOLEAN
      BY <1>3 DEF Going
    <3>6. d.version_seen \in BOOLEAN /\ d.info_seen \in BOOLEAN
      BY <3>2, <3>3, <3>5
    <3>7. /\ d.listed_ids = [k \in Kinds |-> d.listed_ids[k]]
          /\ d.inspected_ids = [k \in Kinds |-> d.inspected_ids[k]]
          /\ d.inspected_native_objects = [k \in Kinds |-> d.inspected_native_objects[k]]
          /\ d.selected_from_list = Absent /\ d.error = b.error
      BY <3>3, <3>5
    <3>4. Going(d)
      BY <1>3, <3>1, <3>6, <3>7, StillGoing
    <3>. QED BY <1>3, <3>2, <3>4 DEF Keeps
  <2>3. Version(b, e.body) = Afterwards(Learn(d, e.body.release), e.body.rest)
    <3>1. d = VersionSeen(b, e.body)
      BY <2>1 DEF VersionSeen
    <3>. QED BY <1>5, <1>6, <3>1 DEF Version
  <2>4. Report(e) = e.body.release /\ d.release = a.release
    BY <2>2 DEF Report, Keeps
  <2>5. CASE Takes(a, c, e)
    <3>1. PICK f : f = Learn(d, e.body.release)
      OBVIOUS
    <3>2. Going(f) /\ Keeps(f, d, {"release"}) /\ f.release = IF Report(e) = Absent THEN a.release ELSE Report(e)
      BY <2>2, <2>4, <2>5, <3>1, Learning DEF Takes
    <3>4. Afterwards(f, e.body.rest) = f
      <4>1. e.body.rest = "Ok"
        BY <2>5 DEF Takes, FieldsDecode
      <4>. QED BY <3>2, <4>1, MetLater
    <3>3. Same(f, After(a, e))
      <4>1. /\ \A k : Lists(e, k) = {} /\ \A x : Adds(e, k, x) = {}
            /\ Sees(e) = {}
        BY DEF Lists, Adds, Inspects, Sees
      <4>2. /\ f.version_seen = TRUE /\ f.max = e.body.max /\ f.min = e.body.min
            /\ f.requested_api_versions = a.requested_api_versions \cup ({e.api} \ {Absent})
            /\ f.info_seen = a.info_seen /\ f.mode = a.mode /\ f.listed_ids = a.listed_ids
            /\ f.inspected_ids = a.inspected_ids /\ f.inspected_native_objects = a.inspected_native_objects
            /\ f.seen_resources = a.seen_resources
        BY <2>2, <3>2 DEF Keeps
      <4>. QED BY <3>2, <4>1, <4>2 DEF Same, After, Going
    <3>. QED BY <1>2, <2>3, <2>5, <3>1, <3>2, <3>3, <3>4, GoesOn, SameFields
  <2>6. CASE ~Takes(a, c, e)
    <3>1. CASE ~(Report(e) = Absent \/ a.release \in {Absent, Report(e)})
      <4>1. Learn(d, e.body.release).error = "ConflictingFacts"
        BY <2>2, <2>4, <3>1, Learning
      <4>2. Afterwards(Learn(d, e.body.release), e.body.rest) = Learn(d, e.body.release)
        BY <4>1 DEF Afterwards
      <4>. QED BY <1>2, <2>3, <2>6, <4>1, <4>2
    <3>2. CASE Report(e) = Absent \/ a.release \in {Absent, Report(e)}
      <4>1. e.body.rest # "Ok"
        BY <1>5, <2>6, <3>2 DEF Takes, FieldsDecode
      <4>2. Going(Learn(d, e.body.release))
        BY <2>2, <2>4, <3>2, Learning
      <4>3. Afterwards(Learn(d, e.body.release), e.body.rest).error = e.body.rest
        BY <4>1, <4>2, MetLater
      <4>. QED BY <1>2, <2>3, <2>6, <4>1, <4>3
    <3>. QED BY <3>1, <3>2
  <2>. QED BY <2>5, <2>6
<1>. QED BY <1>3, <1>4, <1>5, <1>7 DEF Going

\* The loop goes on if what it keeps by kind is kept.
LEMMA GoingStays ==
  ASSUME NEW b, Going(b), NEW d, Shaped(d), d.version_seen \in BOOLEAN, d.info_seen \in BOOLEAN,
         Keeps(d, b, {"version_seen", "info_seen", "release", "max", "min", "mode",
                      "requested_api_versions", "seen_resources"})
  PROVE  Going(d)
<1>1. /\ d.error = b.error /\ d.listed_ids = b.listed_ids /\ d.inspected_ids = b.inspected_ids
      /\ d.inspected_native_objects = b.inspected_native_objects
      /\ d.selected_from_list = b.selected_from_list
  BY DEF Keeps
<1>2. /\ b.listed_ids = [k \in Kinds |-> b.listed_ids[k]]
      /\ b.inspected_ids = [k \in Kinds |-> b.inspected_ids[k]]
      /\ b.inspected_native_objects = [k \in Kinds |-> b.inspected_native_objects[k]]
      /\ b.selected_from_list = Absent
  BY DEF Going
<1>3. /\ d.listed_ids = [k \in Kinds |-> d.listed_ids[k]]
      /\ d.inspected_ids = [k \in Kinds |-> d.inspected_ids[k]]
      /\ d.inspected_native_objects = [k \in Kinds |-> d.inspected_native_objects[k]]
      /\ d.selected_from_list = Absent /\ d.error = b.error
  BY <1>1, <1>2
<1>. QED BY <1>3, StillGoing

\* What reading /info does.
LEMMA InfoReads ==
  ASSUME NEW a, Going(a), NEW c, NEW e, Answered(e), e.op = "DaemonInfo"
  PROVE  IF Takes(a, c, e) THEN Exchange(a, c, e) = After(a, e) ELSE Exchange(a, c, e).error # "Ok"
<1>1. PICK b : b = Noted(a, e)
  OBVIOUS
<1>2. Exchange(a, c, e) = Info(b, e.body)
  BY <1>1 DEF Exchange, Answered, Going, Noted
<1>3. Going(b) /\ Keeps(b, a, {"requested_api_versions"})
      /\ b.requested_api_versions = a.requested_api_versions \cup ({e.api} \ {Absent})
  BY <1>1, Noting
<1>4. b.info_seen = a.info_seen
  BY <1>3 DEF Keeps
<1>5. CASE a.info_seen
  BY <1>2, <1>3, <1>4, <1>5, Failing DEF Info, Takes
<1>7. CASE ~a.info_seen /\ e.body.fields # "Ok"
  <2>1. Fail(b, e.body.fields).error # "Ok"
    BY <1>3, <1>7, Failing
  <2>2. ~Takes(a, c, e)
    BY <1>7 DEF Takes, FieldsDecode
  <2>. QED BY <1>2, <1>4, <1>7, <2>1, <2>2 DEF Info
<1>6. CASE ~a.info_seen /\ e.body.fields = "Ok"
  <2>1. PICK d : d = [b EXCEPT !.info_seen = TRUE]
    OBVIOUS
  <2>2. Going(d) /\ Keeps(d, a, {"requested_api_versions", "info_seen"})
        /\ d.requested_api_versions = a.requested_api_versions \cup ({e.api} \ {Absent})
        /\ d.info_seen = TRUE
    <3>1. Shaped(d)
      BY <1>3, <2>1 DEF Going, Shaped
    <3>2. Keeps(d, b, {"info_seen"}) /\ d.info_seen = TRUE
      BY <1>3, <2>1 DEF Going, Keeps
    <3>3. d.version_seen \in BOOLEAN /\ d.info_seen \in BOOLEAN
      <4>1. d.version_seen = b.version_seen
        BY <3>2 DEF Keeps
      <4>. QED BY <1>3, <3>2, <4>1 DEF Going
    <3>4. Going(d)
      BY <1>3, <3>1, <3>2, <3>3, GoingStays DEF Keeps
    <3>. QED BY <1>3, <3>2, <3>4 DEF Keeps
  <2>3. PICK f : f = Learn(d, e.body.release)
    OBVIOUS
  <2>4. /\ Afterwards(f, e.body.rest).error = "Ok" => Info(b, e.body) = DaemonMode(Afterwards(f, e.body.rest), e.body)
        /\ Afterwards(f, e.body.rest).error # "Ok" => Info(b, e.body) = Afterwards(f, e.body.rest)
    <3>1. d = InfoSeen(b)
      BY <2>1 DEF InfoSeen
    <3>. QED BY <1>4, <1>6, <2>3, <3>1 DEF Info
  <2>5. Report(e) = e.body.release /\ d.release = a.release
    BY <2>2 DEF Report, Keeps
  <2>6. CASE ~(Report(e) = Absent \/ a.release \in {Absent, Report(e)})
    <3>1. f.error = "ConflictingFacts"
      BY <2>2, <2>3, <2>5, <2>6, Learning
    <3>2. Afterwards(f, e.body.rest) = f
      BY <3>1 DEF Afterwards
    <3>. QED BY <1>2, <2>4, <2>6, <3>1, <3>2 DEF Takes
  <2>7. CASE Report(e) = Absent \/ a.release \in {Absent, Report(e)}
    <3>1. Going(f) /\ Keeps(f, d, {"release"}) /\ f.release = IF Report(e) = Absent THEN a.release ELSE Report(e)
      BY <2>2, <2>3, <2>5, <2>7, Learning
    <3>5. CASE e.body.rest # "Ok"
      <4>1. Afterwards(f, e.body.rest).error = e.body.rest
        BY <3>1, <3>5, MetLater
      <4>2. ~Takes(a, c, e)
        BY <3>5 DEF Takes, FieldsDecode
      <4>. QED BY <1>2, <2>4, <3>5, <4>1, <4>2
    <3>2. ASSUME e.body.rest = "Ok"
          PROVE  f.error = "Ok" /\ Info(b, e.body) = DaemonMode(f, e.body)
      <4>1. Afterwards(f, e.body.rest) = f /\ f.error = "Ok"
        BY <3>1, <3>2, MetLater DEF Going
      <4>. QED BY <2>4, <4>1
    <3>3. CASE e.body.rest = "Ok" /\ e.body.option /\ e.body.rootless = FALSE
      <4>1. DaemonMode(f, e.body).error = "ConflictingFacts"
        BY <3>1, <3>3, Failing DEF DaemonMode
      <4>. QED BY <1>2, <3>2, <3>3, <4>1 DEF Takes
    <3>4. CASE e.body.rest = "Ok" /\ ~(e.body.option /\ e.body.rootless = FALSE)
      <4>1. PICK g : g = [f EXCEPT !.mode = ModeSaid(e)]
        OBVIOUS
      <4>2. DaemonMode(f, e.body) = g
        BY <3>4, <4>1 DEF DaemonMode, ModeSaid
      <4>3. Shaped(g) /\ Keeps(g, f, {"mode"}) /\ g.mode = ModeSaid(e)
        BY <3>1, <4>1 DEF Going, Shaped, Keeps
      <4>4. g.version_seen \in BOOLEAN /\ g.info_seen \in BOOLEAN
        <5>1. g.version_seen = f.version_seen /\ g.info_seen = f.info_seen
          BY <4>3 DEF Keeps
        <5>. QED BY <3>1, <5>1 DEF Going
      <4>5. Going(g)
        BY <3>1, <4>3, <4>4, GoingStays DEF Keeps
      <4>6. /\ g.info_seen = TRUE /\ g.max = a.max /\ g.min = a.min
            /\ g.requested_api_versions = a.requested_api_versions \cup ({e.api} \ {Absent})
            /\ g.version_seen = a.version_seen /\ g.listed_ids = a.listed_ids /\ g.release = f.release
            /\ g.inspected_ids = a.inspected_ids /\ g.inspected_native_objects = a.inspected_native_objects
            /\ g.seen_resources = a.seen_resources
        BY <2>2, <3>1, <4>3 DEF Keeps
      <4>7. /\ \A k : Lists(e, k) = {} /\ \A x : Adds(e, k, x) = {}
            /\ Sees(e) = {}
        BY DEF Lists, Adds, Inspects, Sees
      <4>8. Same(g, After(a, e))
        BY <3>1, <4>3, <4>6, <4>7 DEF Same, After, Going
      <4>9. Takes(a, c, e)
        BY <1>6, <2>7, <3>4 DEF Takes, FieldsDecode
      <4>. QED BY <1>2, <3>2, <3>4, <4>2, <4>5, <4>8, <4>9, GoesOn, SameFields
    <3>. QED BY <3>3, <3>4, <3>5
  <2>. QED BY <2>6, <2>7
<1>. QED BY <1>3, <1>5, <1>6, <1>7 DEF Going

\* What a list adds.
LEMMA Listing ==
  ASSUME NEW b, Going(b), NEW kind \in Kinds, NEW ids
  PROVE  \E d : /\ d = Listed(b, kind, ids) /\ Going(d) /\ Keeps(d, b, {"listed_ids"})
                /\ \A k \in Kinds : d.listed_ids[k] =
                     IF k = kind THEN b.listed_ids[k] \cup ids ELSE b.listed_ids[k]
<1>0. PICK d : d = Listed(b, kind, ids)
  OBVIOUS
<1>1. PICK g : g = [b.listed_ids EXCEPT ![kind] = @ \cup ids]
  OBVIOUS
<1>2. b.listed_ids = [k \in Kinds |-> b.listed_ids[k]]
  BY DEF Going
<1>3. /\ g = [k \in Kinds |-> g[k]]
      /\ \A k \in Kinds : g[k] = IF k = kind THEN b.listed_ids[k] \cup ids ELSE b.listed_ids[k]
  BY <1>1, <1>2
<1>4. d = [b EXCEPT !.listed_ids = g]
  BY <1>0, <1>1 DEF Listed
<1>5. Shaped(d) /\ Keeps(d, b, {"listed_ids"}) /\ d.listed_ids = g
  BY <1>4 DEF Going, Shaped, Keeps
<1>6. /\ d.error = b.error /\ d.inspected_ids = b.inspected_ids
      /\ d.inspected_native_objects = b.inspected_native_objects
      /\ d.selected_from_list = b.selected_from_list
      /\ d.version_seen = b.version_seen /\ d.info_seen = b.info_seen
  BY <1>5 DEF Keeps
<1>7. /\ b.inspected_ids = [k \in Kinds |-> b.inspected_ids[k]]
      /\ b.inspected_native_objects = [k \in Kinds |-> b.inspected_native_objects[k]]
      /\ b.selected_from_list = Absent /\ b.version_seen \in BOOLEAN /\ b.info_seen \in BOOLEAN
  BY DEF Going
<1>8. /\ d.listed_ids = [k \in Kinds |-> d.listed_ids[k]]
      /\ d.inspected_ids = [k \in Kinds |-> d.inspected_ids[k]]
      /\ d.inspected_native_objects = [k \in Kinds |-> d.inspected_native_objects[k]]
      /\ d.selected_from_list = Absent /\ d.version_seen \in BOOLEAN /\ d.info_seen \in BOOLEAN
  BY <1>3, <1>5, <1>6, <1>7
<1>9. Going(d)
  BY <1>5, <1>6, <1>8, StillGoing
<1>. QED BY <1>0, <1>3, <1>5, <1>9

\* A list of containers is one more list where no selector picks from it.
LEMMA ContainersListed ==
  ASSUME NEW b, Going(b), NEW body, Undecoded(body) = {}
  PROVE  ContainerList(b, Absent, body) = Listed(b, "Container", DOMAIN body)
<1>1. ~Picks(Absent) /\ b.selected_from_list = Absent
  BY DEF Picks, Going
<1>2. PICK d : d = [b EXCEPT !.selected_from_list = Absent]
  OBVIOUS
<1>3. Shaped(d) /\ Keeps(d, b, {})
  BY <1>1, <1>2 DEF Going, Shaped, Keeps
<1>4. /\ d.version_seen = b.version_seen /\ d.info_seen = b.info_seen
      /\ b.version_seen \in BOOLEAN /\ b.info_seen \in BOOLEAN
  BY <1>3 DEF Keeps, Going
<1>5. Going(d)
  BY <1>3, <1>4, GoingStays DEF Keeps
<1>6. Same(d, b)
  BY <1>3 DEF Keeps, Same
<1>. QED BY <1>1, <1>2, <1>5, <1>6, SameFields DEF ContainerList

\* A list with an entry that does not decode is refused.
LEMMA ListRefused ==
  ASSUME NEW a, Going(a), NEW c, c.selector = Absent, NEW e, Answered(e), ~FieldsDecode(e),
         e.op \in {"ListContainers", "ListNetworks", "ListVolumes"}
  PROVE  Exchange(a, c, e).error # "Ok"
<1>1. PICK b : b = Noted(a, e)
  OBVIOUS
<1>2. Going(b) /\ \A x : Fail(b, x).error = x
  BY <1>1, Noting, Failing
<1>3. CASE e.op = "ListContainers"
  <2>1. Exchange(a, c, e) = ContainerList(b, Absent, e.body)
    BY <1>1, <1>3 DEF Exchange, Answered, Going, Noted
  <2>2. Undecoded(e.body) # {}
    BY <1>3 DEF FieldsDecode
  <2>3. PICK id : id = CHOOSE i \in Undecoded(e.body) : TRUE
    OBVIOUS
  <2>4. e.body[id].fields # "Ok"
    BY <2>2, <2>3 DEF Undecoded
  <2>5. b.selected_from_list = Absent /\ ~Picks(Absent)
    BY <1>2 DEF Going, Picks
  <2>. QED BY <1>2, <2>1, <2>2, <2>3, <2>4, <2>5 DEF ContainerList
<1>4. CASE e.op = "ListNetworks"
  <2>1. Exchange(a, c, e) = ObjectList(b, "Network", e.body)
    BY <1>1, <1>4 DEF Exchange, Answered, Going, Noted
  <2>. QED BY <1>2, <1>4, <2>1 DEF FieldsDecode, ObjectList
<1>5. CASE e.op = "ListVolumes"
  <2>1. Exchange(a, c, e) = ObjectList(b, "Volume", e.body)
    BY <1>1, <1>5 DEF Exchange, Answered, Going, Noted
  <2>. QED BY <1>2, <1>5, <2>1 DEF FieldsDecode, ObjectList
<1>. QED BY <1>3, <1>4, <1>5

\* The ids of a list.
LEMMA ListReads ==
  ASSUME NEW a, Going(a), NEW c, c.selector = Absent, NEW e, Answered(e), FieldsDecode(e),
         e.op \in {"ListContainers", "ListNetworks", "ListVolumes"}
  PROVE  Takes(a, c, e) /\ Exchange(a, c, e) = After(a, e)
<1>1. PICK b : b = Noted(a, e)
  OBVIOUS
<1>2. Going(b) /\ Keeps(b, a, {"requested_api_versions"})
      /\ b.requested_api_versions = a.requested_api_versions \cup ({e.api} \ {Absent})
  BY <1>1, Noting
<1>3. PICK kind, ids : /\ kind = CASE e.op = "ListContainers" -> "Container"
                                   [] e.op = "ListNetworks" -> "Network"
                                   [] e.op = "ListVolumes" -> "Volume"
                       /\ ids = IF e.op = "ListContainers" THEN DOMAIN e.body ELSE e.body.ids
  OBVIOUS
<1>4. kind \in Kinds
  BY <1>3 DEF Kinds
<1>5. Exchange(a, c, e) = Listed(b, kind, ids)
  <2>1. CASE e.op = "ListContainers"
    <3>1. Exchange(a, c, e) = ContainerList(b, Absent, e.body)
      BY <1>1, <2>1 DEF Exchange, Answered, Going, Noted
    <3>2. Undecoded(e.body) = {}
      BY <2>1 DEF FieldsDecode
    <3>. QED BY <1>2, <1>3, <2>1, <3>1, <3>2, ContainersListed
  <2>2. CASE e.op = "ListNetworks"
    BY <1>1, <1>3, <2>2 DEF Exchange, Answered, Going, Noted, FieldsDecode, ObjectList
  <2>3. CASE e.op = "ListVolumes"
    BY <1>1, <1>3, <2>3 DEF Exchange, Answered, Going, Noted, FieldsDecode, ObjectList
  <2>. QED BY <2>1, <2>2, <2>3
<1>6. PICK d : /\ d = Listed(b, kind, ids) /\ Going(d) /\ Keeps(d, b, {"listed_ids"})
               /\ \A k \in Kinds : d.listed_ids[k] =
                    IF k = kind THEN b.listed_ids[k] \cup ids ELSE b.listed_ids[k]
  <2>1. Going(b)
    BY <1>2
  <2>2. \A l \in Kinds : \A x :
          \E d : /\ d = Listed(b, l, x) /\ Going(d) /\ Keeps(d, b, {"listed_ids"})
                /\ \A k \in Kinds : d.listed_ids[k] =
                     IF k = l THEN b.listed_ids[k] \cup x ELSE b.listed_ids[k]
    BY <2>1, Listing
  <2>. QED BY <1>4, <2>2
<1>8. /\ d.info_seen = a.info_seen /\ d.max = a.max /\ d.min = a.min /\ d.mode = a.mode
      /\ d.requested_api_versions = a.requested_api_versions \cup ({e.api} \ {Absent})
      /\ d.version_seen = a.version_seen /\ b.listed_ids = a.listed_ids /\ d.release = a.release
      /\ d.inspected_ids = a.inspected_ids /\ d.inspected_native_objects = a.inspected_native_objects
      /\ d.seen_resources = a.seen_resources
  BY <1>2, <1>6 DEF Keeps
<1>9. /\ \A k : \A x : Adds(e, k, x) = {}
      /\ Sees(e) = {} /\ Report(e) = Absent
  BY DEF Adds, Inspects, Sees, Report
<1>10. \A k \in Kinds : d.listed_ids[k] = a.listed_ids[k] \cup Lists(e, k)
  <2>1. \A k \in Kinds : Lists(e, k) = IF k = kind THEN ids ELSE {}
    BY <1>3 DEF Kinds, Lists
  <2>. QED BY <1>6, <1>8, <2>1
<1>11. Same(d, After(a, e))
  BY <1>6, <1>8, <1>9, <1>10 DEF Same, After, Going
<1>12. Takes(a, c, e)
  BY <1>9 DEF Takes
<1>. QED BY <1>5, <1>6, <1>11, <1>12, GoesOn, SameFields

\* An object is looked at once, and by one reference.
LEMMA InspectionReads ==
  ASSUME NEW a, Going(a), NEW c, NEW e, Answered(e), Supplies(e), e.op = "Inspect"
  PROVE  IF Takes(a, c, e) THEN Exchange(a, c, e) = After(a, e) ELSE Exchange(a, c, e).error # "Ok"
<1>1. PICK b : b = Noted(a, e)
  OBVIOUS
<1>2. PICK kind : kind = e.object[1] /\ kind \in Kinds
  BY DEF Supplies
<1>3. Exchange(a, c, e) = Inspection(b, c, e)
  BY <1>1 DEF Exchange, Answered, Going, Noted
<1>4. Going(b) /\ Keeps(b, a, {"requested_api_versions"})
      /\ b.requested_api_versions = a.requested_api_versions \cup ({e.api} \ {Absent})
  BY <1>1, Noting
<1>5. b.inspected_native_objects = a.inspected_native_objects /\ b.seen_resources = a.seen_resources
      /\ b.inspected_ids = a.inspected_ids
  BY <1>4 DEF Keeps
<1>6. Report(e) = Absent
  BY DEF Report
<1>7. CASE ~Takes(a, c, e)
  <2>1. \A x : Fail(b, x).error = x
    BY <1>4, Failing
  <2>2. \/ e.body[IdentityKey(c, e)] # e.object[2] \/ e.body.fields # "Ok" \/ Native(e) = Absent
        \/ Native(e) \in b.inspected_native_objects[kind]
        \/ \E seen \in b.seen_resources : seen[1] = kind /\ seen[2] = e.resource
    BY <1>2, <1>5, <1>6, <1>7 DEF Takes, FieldsDecode
  <2>. QED BY <1>2, <1>3, <1>7, <2>1, <2>2 DEF Inspection, Native
<1>8. CASE Takes(a, c, e)
  <2>1. PICK d : d = [b EXCEPT !.inspected_native_objects[kind] = @ \cup {Native(e)},
                               !.seen_resources = @ \cup {<<kind, e.resource, e.object[2]>>},
                               !.inspected_ids[kind] = @ \cup {e.object[2]}]
    OBVIOUS
  <2>2. Exchange(a, c, e) = d
    BY <1>2, <1>3, <1>5, <1>8, <2>1 DEF Inspection, Takes, Native, FieldsDecode
  <2>3. PICK natives, ids : natives = b.inspected_native_objects /\ ids = b.inspected_ids
    OBVIOUS
  <2>4. natives = [k \in Kinds |-> natives[k]] /\ ids = [k \in Kinds |-> ids[k]]
    BY <1>4, <2>3 DEF Going
  <2>5. PICK g : g = [natives EXCEPT ![kind] = @ \cup {Native(e)}]
    OBVIOUS
  <2>6. PICK h : h = [ids EXCEPT ![kind] = @ \cup {e.object[2]}]
    OBVIOUS
  <2>18. /\ g = [k \in Kinds |-> g[k]]
         /\ \A k \in Kinds : g[k] = natives[k] \cup (IF k = kind THEN {Native(e)} ELSE {})
    BY <1>2, <2>4, <2>5
  <2>19. /\ h = [k \in Kinds |-> h[k]]
         /\ \A k \in Kinds : h[k] = ids[k] \cup (IF k = kind THEN {e.object[2]} ELSE {})
    BY <1>2, <2>4, <2>6
  <2>7. d = [b EXCEPT !.inspected_native_objects = g,
                      !.seen_resources = @ \cup {<<kind, e.resource, e.object[2]>>},
                      !.inspected_ids = h]
    BY <1>4, <2>1, <2>3, <2>5, <2>6 DEF Going
  <2>8. /\ Shaped(d) /\ Keeps(d, b, {"inspected_native_objects", "seen_resources", "inspected_ids"})
        /\ d.inspected_native_objects = g /\ d.inspected_ids = h
        /\ d.seen_resources = b.seen_resources \cup {<<kind, e.resource, e.object[2]>>}
    BY <1>4, <2>7 DEF Going, Shaped, Keeps
  <2>9. /\ d.error = b.error /\ d.listed_ids = b.listed_ids
        /\ d.selected_from_list = b.selected_from_list
        /\ d.version_seen = b.version_seen /\ d.info_seen = b.info_seen
    BY <2>8 DEF Keeps
  <2>10. /\ b.listed_ids = [k \in Kinds |-> b.listed_ids[k]]
         /\ b.selected_from_list = Absent /\ b.version_seen \in BOOLEAN /\ b.info_seen \in BOOLEAN
    BY <1>4 DEF Going
  <2>11. /\ d.listed_ids = [k \in Kinds |-> d.listed_ids[k]]
         /\ d.inspected_ids = [k \in Kinds |-> d.inspected_ids[k]]
         /\ d.inspected_native_objects = [k \in Kinds |-> d.inspected_native_objects[k]]
         /\ d.selected_from_list = Absent /\ d.version_seen \in BOOLEAN /\ d.info_seen \in BOOLEAN
    BY <2>8, <2>9, <2>10, <2>18, <2>19
  <2>12. Going(d)
    BY <1>4, <2>8, <2>9, <2>11, StillGoing
  <2>13. /\ d.info_seen = a.info_seen /\ d.max = a.max /\ d.min = a.min /\ d.mode = a.mode
         /\ d.requested_api_versions = a.requested_api_versions \cup ({e.api} \ {Absent})
         /\ d.version_seen = a.version_seen /\ d.listed_ids = a.listed_ids /\ d.release = a.release
    BY <1>4, <2>8 DEF Keeps
  <2>14. /\ \A k : Lists(e, k) = {} /\ \A x : Adds(e, k, x) = IF k = kind THEN {x} ELSE {}
         /\ Sees(e) = {<<kind, e.resource, e.object[2]>>}
    BY <1>2 DEF Adds, Inspects, Sees, Lists
  <2>15. \A k \in Kinds : /\ d.inspected_native_objects[k] = a.inspected_native_objects[k] \cup Adds(e, k, Native(e))
                           /\ d.inspected_ids[k] = a.inspected_ids[k] \cup Adds(e, k, e.object[2])
    BY <1>5, <2>3, <2>8, <2>14, <2>18, <2>19
  <2>16. d.seen_resources = a.seen_resources \cup Sees(e)
    BY <1>5, <2>8, <2>14
  <2>17. Same(d, After(a, e))
    BY <1>6, <2>13, <2>14, <2>15, <2>16 DEF Same, After, Going
  <2>. QED BY <1>8, <2>2, <2>12, <2>17, GoesOn, SameFields
<1>. QED BY <1>7, <1>8

\* One exchange, whatever it asked for.
LEMMA Reading ==
  ASSUME NEW a, Going(a), NEW c, c.selector = Absent, NEW e, Supplies(e)
  PROVE  IF Takes(a, c, e) THEN Exchange(a, c, e) = After(a, e) ELSE Exchange(a, c, e).error # "Ok"
<1>1. CASE ~Answered(e)
  BY <1>1, Unanswered DEF Takes
<1>2. CASE Answered(e) /\ e.op \in {"ListContainers", "ListNetworks", "ListVolumes"} /\ ~FieldsDecode(e)
  BY <1>2, ListRefused DEF Takes
<1>3. CASE Answered(e) /\ e.op \in {"ListContainers", "ListNetworks", "ListVolumes"} /\ FieldsDecode(e)
  BY <1>3, ListReads
<1>4. CASE Answered(e) /\ e.op \in {"DaemonVersion", "DaemonInfo", "Inspect"}
  BY <1>4, VersionReads, InfoReads, InspectionReads
<1>. QED BY <1>1, <1>2, <1>3, <1>4 DEF Supplies

(***************************************************************************)
(* Two exchanges.                                                          *)
(***************************************************************************)

\* If an exchange can follow another, either can come first.
LEMMA EitherFirst ==
  ASSUME NEW a, Going(a), NEW c, NEW d, Supplies(d), NEW e, Supplies(e),
         Takes(a, c, d), Takes(After(a, d), c, e)
  PROVE  Takes(a, c, e) /\ Takes(After(a, e), c, d)
<1>1. PICK x, y : x = After(a, d) /\ y = After(a, e)
  OBVIOUS
<1>2. /\ x.version_seen = (a.version_seen \/ d.op = "DaemonVersion")
      /\ x.info_seen = (a.info_seen \/ d.op = "DaemonInfo")
      /\ y.version_seen = (a.version_seen \/ e.op = "DaemonVersion")
      /\ y.info_seen = (a.info_seen \/ e.op = "DaemonInfo")
  BY <1>1 DEF After
<1>3. /\ x.release = IF Report(d) = Absent THEN a.release ELSE Report(d)
      /\ y.release = IF Report(e) = Absent THEN a.release ELSE Report(e)
  BY <1>1 DEF After
<1>4. /\ \A k \in Kinds : x.inspected_native_objects[k] = a.inspected_native_objects[k] \cup Adds(d, k, Native(d))
      /\ \A k \in Kinds : y.inspected_native_objects[k] = a.inspected_native_objects[k] \cup Adds(e, k, Native(e))
      /\ x.seen_resources = a.seen_resources \cup Sees(d)
      /\ y.seen_resources = a.seen_resources \cup Sees(e)
  BY <1>1 DEF After
<1>5. Takes(x, c, e)
  BY <1>1
<1>6. (d.op = "DaemonVersion" => e.op # "DaemonVersion") /\ (d.op = "DaemonInfo" => e.op # "DaemonInfo")
  BY <1>2, <1>5 DEF Takes, Going
<1>7. Report(e) = Absent \/ a.release \in {Absent, Report(e)}
  BY <1>3, <1>5 DEF Takes
<1>8. Report(d) = Absent \/ y.release \in {Absent, Report(d)}
  BY <1>3, <1>5 DEF Takes
<1>9. ASSUME e.op = "Inspect"
      PROVE  /\ Native(e) \notin a.inspected_native_objects[e.object[1]]
             /\ ~ \E seen \in a.seen_resources : seen[1] = e.object[1] /\ seen[2] = e.resource
  BY <1>4, <1>5, <1>9 DEF Takes, Supplies
<1>10. Takes(a, c, e)
  BY <1>2, <1>5, <1>7, <1>9 DEF Takes, Going
<1>11. ASSUME d.op = "Inspect"
       PROVE  /\ Native(d) \notin y.inspected_native_objects[d.object[1]]
              /\ ~ \E seen \in y.seen_resources : seen[1] = d.object[1] /\ seen[2] = d.resource
  <2>1. /\ Native(d) \notin a.inspected_native_objects[d.object[1]]
        /\ ~ \E seen \in a.seen_resources : seen[1] = d.object[1] /\ seen[2] = d.resource
    BY <1>11 DEF Takes
  <2>2. d.object[1] \in Kinds
    BY <1>11 DEF Supplies
  <2>3. CASE e.op # "Inspect"
    BY <1>4, <2>1, <2>2, <2>3 DEF Adds, Inspects, Sees
  <2>4. CASE e.op = "Inspect"
    <3>1. e.object[1] \in Kinds
      BY <2>4 DEF Supplies
    <3>2. e.object[1] = d.object[1] => Native(e) # Native(d)
      BY <1>4, <1>5, <1>11, <2>4, <3>1 DEF Takes, Adds, Inspects
    <3>3. ~(e.object[1] = d.object[1] /\ e.resource = d.resource)
      <4>1. <<d.object[1], d.resource, d.object[2]>> \in x.seen_resources
        BY <1>4, <1>11 DEF Sees
      <4>2. ~ \E seen \in x.seen_resources : seen[1] = e.object[1] /\ seen[2] = e.resource
        BY <1>5, <2>4 DEF Takes
      <4>. QED BY <4>1, <4>2
    <3>4. y.seen_resources = a.seen_resources \cup {<<e.object[1], e.resource, e.object[2]>>}
      BY <1>4, <2>4 DEF Sees
    <3>5. y.inspected_native_objects[d.object[1]] =
          a.inspected_native_objects[d.object[1]] \cup Adds(e, d.object[1], Native(e))
      BY <1>4, <2>2
    <3>. QED BY <2>1, <3>2, <3>3, <3>4, <3>5 DEF Adds, Inspects
  <2>. QED BY <2>3, <2>4
<1>12. d.op = "DaemonVersion" => ~y.version_seen
  BY <1>2, <1>6 DEF Takes, Going
<1>13. d.op = "DaemonInfo" => ~y.info_seen
  BY <1>2, <1>6 DEF Takes, Going
<1>14. Takes(y, c, d)
  BY <1>8, <1>11, <1>12, <1>13 DEF Takes
<1>. QED BY <1>1, <1>10, <1>14

\* What two exchanges leave behind is the same in either order.
LEMMA Together ==
  ASSUME NEW a, Going(a), NEW c, NEW d, NEW e, Takes(a, c, d), Takes(After(a, d), c, e)
  PROVE  After(After(a, d), e) = After(After(a, e), d)
<1>1. PICK x, y : x = After(a, d) /\ y = After(a, e)
  OBVIOUS
<1>2. PICK v, w : v = After(x, e) /\ w = After(y, d)
  OBVIOUS
<1>3. Going(x) /\ Going(y) /\ Going(v) /\ Going(w)
  BY <1>1, <1>2, GoesOn
<1>4. Takes(x, c, e)
  BY <1>1
<1>5. (d.op = "DaemonVersion" => e.op # "DaemonVersion") /\ (d.op = "DaemonInfo" => e.op # "DaemonInfo")
  BY <1>1, <1>4 DEF Takes, After
<1>6. v.version_seen = w.version_seen /\ v.info_seen = w.info_seen
  BY <1>1, <1>2 DEF After
<1>7. v.release = w.release
  BY <1>1, <1>2, <1>4 DEF After, Takes
<1>8. v.max = w.max /\ v.min = w.min /\ v.mode = w.mode
  BY <1>1, <1>2, <1>5 DEF After
<1>9. v.requested_api_versions = w.requested_api_versions /\ v.seen_resources = w.seen_resources
  BY <1>1, <1>2 DEF After
<1>10. \A k \in Kinds : /\ v.listed_ids[k] = w.listed_ids[k] /\ v.inspected_ids[k] = w.inspected_ids[k]
                         /\ v.inspected_native_objects[k] = w.inspected_native_objects[k]
  BY <1>1, <1>2 DEF After
<1>11. Same(v, w)
  BY <1>6, <1>7, <1>8, <1>9, <1>10 DEF Same
<1>. QED BY <1>1, <1>2, <1>3, <1>11, SameFields

\* Two exchanges are read to the same end in either order.
LEMMA Commute ==
  ASSUME NEW a, NEW c, c.selector = Absent, NEW d, Supplies(d), NEW e, Supplies(e),
         Going(a) \/ a.error # "Ok"
  PROVE  \/ Exchange(Exchange(a, c, d), c, e) = Exchange(Exchange(a, c, e), c, d)
         \/ /\ Exchange(Exchange(a, c, d), c, e).error # "Ok"
            /\ Exchange(Exchange(a, c, e), c, d).error # "Ok"
<1>1. \A b, f : b.error # "Ok" => Exchange(b, c, f) = b
  BY DEF Exchange
<1>2. CASE a.error # "Ok"
  BY <1>1, <1>2
<1>3. CASE Going(a)
  <2>1. Going(After(a, d)) /\ Going(After(a, e))
    BY <1>3, GoesOn
  <2>2. CASE Takes(a, c, d) /\ Takes(After(a, d), c, e)
    <3>1. Takes(a, c, e) /\ Takes(After(a, e), c, d)
      BY <1>3, <2>2, EitherFirst
    <3>2. /\ Exchange(a, c, d) = After(a, d) /\ Exchange(After(a, d), c, e) = After(After(a, d), e)
          /\ Exchange(a, c, e) = After(a, e) /\ Exchange(After(a, e), c, d) = After(After(a, e), d)
      BY <1>3, <2>1, <2>2, <3>1, Reading
    <3>. QED BY <1>3, <2>2, <3>2, Together
  <2>3. CASE ~(Takes(a, c, d) /\ Takes(After(a, d), c, e))
    <3>1. ~(Takes(a, c, e) /\ Takes(After(a, e), c, d))
      BY <1>3, <2>3, EitherFirst
    <3>2. Exchange(Exchange(a, c, d), c, e).error # "Ok"
      BY <1>1, <1>3, <2>1, <2>3, Reading
    <3>3. Exchange(Exchange(a, c, e), c, d).error # "Ok"
      BY <1>1, <1>3, <2>1, <3>1, Reading
    <3>. QED BY <3>2, <3>3
  <2>. QED BY <2>2, <2>3
<1>. QED BY <1>2, <1>3

(***************************************************************************)
(* All the exchanges, by induction over their number.                      *)
(***************************************************************************)

\* A set of naturals has a least element.
LEMMA LeastElement ==
  ASSUME NEW T \in SUBSET Nat, T # {}
  PROVE  \E x \in T : \A y \in T : x <= y
<1>1. PICK n \in T : TRUE
  OBVIOUS
<1>2. IsFiniteSet(0 .. n)
  BY <1>1, FS_Interval
<1> DEFINE F == {0 .. m : m \in {k \in T : k <= n}}
<1>3. F \subseteq SUBSET (0 .. n) /\ F # {}
  BY <1>1
<1>4. PICK s \in F : \A t \in F : ~ (<<t, s>> \in StrictSubsetOrdering(0 .. n))
  <2>1. IsWellFoundedOn(StrictSubsetOrdering(0 .. n), SUBSET (0 .. n))
    BY <1>2, FS_StrictSubsetOrderingWellFounded, FS_FiniteSubsetsOfFinite
  <2>. QED BY <1>3, <2>1, WFMin
<1>5. PICK x \in T : x <= n /\ s = 0 .. x
  BY <1>4
<1>6. ASSUME NEW y \in T, y < x PROVE FALSE
  <2>1. 0 .. y \in F /\ 0 .. y \subseteq 0 .. x /\ 0 .. y # 0 .. x
    BY <1>5, <1>6
  <2>2. <<0 .. y, 0 .. x>> \in StrictSubsetOrdering(0 .. n)
    BY <1>3, <1>5, <2>1 DEF StrictSubsetOrdering
  <2>. QED BY <1>4, <1>5, <2>1, <2>2
<1>. QED BY <1>5, <1>6

\* A set that has zero and every successor of what it has, has every natural.
LEMMA Induction ==
  \A T : 0 \in T /\ (\A n \in Nat : n \in T => n + 1 \in T) => \A n \in Nat : n \in T
<1>. SUFFICES ASSUME NEW T, 0 \in T, \A n \in Nat : n \in T => n + 1 \in T, Nat \ T # {} PROVE FALSE
  OBVIOUS
<1>1. PICK x \in Nat \ T : \A y \in Nat \ T : x <= y
  BY LeastElement
<1>2. x - 1 \in Nat /\ x - 1 \notin Nat \ T
  BY <1>1
<1>. QED BY <1>1, <1>2

\* The states of the loop over the exchanges.
Loop(f, c, m) ==
  f = [n \in 0 .. m |-> IF n = 0 THEN Fresh ELSE Exchange(f[n - 1], c, c.exchanges[n])]

\* There are such states, however many exchanges.
LEMMA LoopRuns ==
  ASSUME NEW c, NEW m \in Nat
  PROVE  \E f : Loop(f, c, m)
<1>. DEFINE T == {n \in Nat : \E f : Loop(f, c, n)}
<1>1. 0 \in T
  <2>. DEFINE f == [n \in 0 .. 0 |-> Fresh]
  <2>1. Loop(f, c, 0)
    BY DEF Loop
  <2>. QED BY <2>1
<1>2. ASSUME NEW k \in Nat, k \in T PROVE k + 1 \in T
  <2>1. PICK f : Loop(f, c, k)
    BY <1>2
  <2>. DEFINE g == [n \in 0 .. k + 1 |-> IF n = k + 1 THEN Exchange(f[k], c, c.exchanges[n]) ELSE f[n]]
  <2>2. ASSUME NEW n \in 0 .. k + 1
        PROVE  g[n] = IF n = 0 THEN Fresh ELSE Exchange(g[n - 1], c, c.exchanges[n])
    <3>1. CASE n = k + 1
      <4>1. k \in 0 .. k + 1 /\ n # 0 /\ n - 1 = k /\ k # k + 1
        BY <3>1
      <4>2. g[k] = f[k] /\ g[n] = Exchange(f[k], c, c.exchanges[n])
        BY <3>1, <4>1
      <4>. QED BY <4>1, <4>2
    <3>2. CASE n # k + 1
      <4>1. n \in 0 .. k /\ (n # 0 => n - 1 \in 0 .. k /\ n - 1 # k + 1 /\ n - 1 \in 0 .. k + 1)
        BY <3>2
      <4>2. f[n] = IF n = 0 THEN Fresh ELSE Exchange(f[n - 1], c, c.exchanges[n])
        BY <2>1, <4>1 DEF Loop
      <4>3. g[n] = f[n] /\ (n # 0 => g[n - 1] = f[n - 1])
        BY <3>2, <4>1
      <4>. QED BY <4>2, <4>3
    <3>. QED BY <3>1, <3>2
  <2>3. Loop(g, c, k + 1)
    BY <2>2 DEF Loop
  <2>. HIDE DEF g
  <2>. QED BY <2>3
<1>. HIDE DEF T
<1>3. m \in T
  BY <1>1, <1>2, Induction
<1>. QED BY <1>3 DEF T

\* What is gathered is the last of them.
LEMMA Gathering ==
  ASSUME NEW c, NEW m \in Nat, m = Len(c.exchanges)
  PROVE  \E f : /\ f[m] = Gathered(c) /\ f[0] = Fresh
                /\ \A n \in 1 .. m : f[n] = Exchange(f[n - 1], c, c.exchanges[n])
<1>1. PICK f : f = CHOOSE g : Loop(g, c, Len(c.exchanges))
  OBVIOUS
<1>2. Gathered(c) = f[Len(c.exchanges)]
  BY <1>1 DEF Gathered, Loop
<1>3. Loop(f, c, m)
  BY <1>1, LoopRuns
<1>4. f = [n \in 0 .. m |-> IF n = 0 THEN Fresh ELSE Exchange(f[n - 1], c, c.exchanges[n])]
  BY <1>3 DEF Loop
<1>5. f[0] = Fresh
  BY <1>4
<1>6. ASSUME NEW n \in 1 .. m PROVE f[n] = Exchange(f[n - 1], c, c.exchanges[n])
  <2>1. n \in 0 .. m /\ n # 0
    OBVIOUS
  <2>. QED BY <1>4, <2>1
<1>. QED BY <1>2, <1>5, <1>6

\* Of a capture, one exchange is read with the selector and the fallbacks.
LEMMA ReadAlike ==
  ASSUME NEW a, NEW c, NEW d, c.selector = d.selector,
         c.network_name_fallbacks = d.network_name_fallbacks, NEW e
  PROVE  Exchange(a, c, e) = Exchange(a, d, e)
<1>1. IdentityKey(c, e) = IdentityKey(d, e)
  BY DEF IdentityKey
<1>2. \A b : Inspection(b, c, e) = Inspection(b, d, e)
  BY <1>1 DEF Inspection
<1>. QED BY <1>2 DEF Exchange

\* The loop starts going, and goes on or fails.
LEMMA StartsGoing == Going(Fresh)
<1>1. PICK a : a = Fresh
  OBVIOUS
<1>2. a.listed_ids = NothingYet /\ a.inspected_ids = NothingYet /\ a.inspected_native_objects = NothingYet
      /\ a.version_seen = FALSE /\ a.info_seen = FALSE /\ a.error = "Ok" /\ a.selected_from_list = Absent
  BY <1>1 DEF Fresh
<1>3. NothingYet = [k \in Kinds |-> NothingYet[k]]
  BY DEF NothingYet
<1>4. Shaped(a)
  BY <1>1 DEF Fresh, Shaped
<1>. QED BY <1>1, <1>2, <1>3, <1>4 DEF Going, Shaped

\* The loop goes on to the last exchange, or an exchange ended it.
LEMMA GoesOrFails ==
  ASSUME NEW c, c.selector = Absent, NEW m \in Nat, NEW f, f[0] = Fresh,
         \A n \in 1 .. m : f[n] = Exchange(f[n - 1], c, c.exchanges[n]) /\ Supplies(c.exchanges[n])
  PROVE  \A n \in 0 .. m : Going(f[n]) \/ f[n].error # "Ok"
<1>. DEFINE T == {n \in Nat : n <= m => Going(f[n]) \/ f[n].error # "Ok"}
<1>1. 0 \in T
  BY StartsGoing
<1>2. ASSUME NEW n \in Nat, n \in T PROVE n + 1 \in T
  <2>. SUFFICES ASSUME n + 1 <= m PROVE Going(f[n + 1]) \/ f[n + 1].error # "Ok"
    OBVIOUS
  <2>1. PICK e : e = c.exchanges[n + 1]
    OBVIOUS
  <2>2. n + 1 \in 1 .. m /\ (n + 1) - 1 = n
    OBVIOUS
  <2>3. f[n + 1] = Exchange(f[n], c, e) /\ Supplies(e)
    BY <2>1, <2>2
  <2>4. CASE f[n].error # "Ok"
    BY <2>3, <2>4 DEF Exchange
  <2>5. CASE Going(f[n])
    BY <2>3, <2>5, Reading, GoesOn
  <2>. QED BY <1>2, <2>4, <2>5
<1>. HIDE DEF T
<1>3. \A n \in Nat : n \in T
  BY <1>1, <1>2, Induction
<1>. QED BY <1>3 DEF T

(***************************************************************************)
(* A capture and the same with two neighbours exchanged.                   *)
(***************************************************************************)

\* Exchanging two neighbours moves nothing else.
LEMMA Swapping ==
  ASSUME NEW es \in Seq(Exchanges), NEW i \in 1 .. Len(es) - 1
  PROVE  \E ds : /\ ds = Swapped(es, i) /\ ds \in Seq(Exchanges) /\ Len(ds) = Len(es)
                 /\ ds[i] = es[i + 1] /\ ds[i + 1] = es[i]
                 /\ \A n \in 1 .. Len(es) : n # i /\ n # i + 1 => ds[n] = es[n]
<1>1. PICK m \in Nat : m = Len(es)
  OBVIOUS
<1>2. i \in 1 .. m /\ i + 1 \in 1 .. m /\ i # i + 1 /\ DOMAIN es = 1 .. m /\ \A n \in 1 .. m : es[n] \in Exchanges
  BY <1>1
<1>3. PICK cs : cs = [es EXCEPT ![i] = es[i + 1]]
  OBVIOUS
<1>4. PICK ds : ds = [cs EXCEPT ![i + 1] = es[i]]
  OBVIOUS
<1>5. DOMAIN cs = 1 .. m /\ cs[i] = es[i + 1] /\ \A n \in 1 .. m : n # i => cs[n] = es[n]
  BY <1>2, <1>3
<1>6. /\ DOMAIN ds = 1 .. m /\ ds[i] = es[i + 1] /\ ds[i + 1] = es[i]
      /\ \A n \in 1 .. m : n # i /\ n # i + 1 => ds[n] = es[n]
  BY <1>2, <1>4, <1>5
<1>7. ds = [n \in 1 .. m |-> ds[n]]
  BY <1>4, <1>5
<1>8. \A n \in 1 .. m : ds[n] \in Exchanges
  BY <1>2, <1>6
<1>9. ds \in Seq(Exchanges) /\ Len(ds) = m
  BY <1>7, <1>8
<1>10. ds = Swapped(es, i)
  BY <1>3, <1>4 DEF Swapped
<1>. QED BY <1>1, <1>6, <1>9, <1>10

\* The loop ends in the same state, or fails in both.
LEMMA SwappedGather ==
  ASSUME NEW es \in Seq(Exchanges), NEW i \in 1 .. Len(es) - 1
  PROVE  \E g, h : /\ g = Gathered(CaptureOf(es)) /\ h = Gathered(CaptureOf(Swapped(es, i)))
                   /\ g = h \/ (g.error # "Ok" /\ h.error # "Ok")
<1>1. PICK ds : /\ ds = Swapped(es, i) /\ ds \in Seq(Exchanges) /\ Len(ds) = Len(es)
                /\ ds[i] = es[i + 1] /\ ds[i + 1] = es[i]
                /\ \A n \in 1 .. Len(es) : n # i /\ n # i + 1 => ds[n] = es[n]
  BY Swapping
<1>2. PICK m \in Nat : m = Len(es)
  OBVIOUS
<1>3. \A n \in 1 .. m : Supplies(es[n]) /\ Supplies(ds[n])
  <2>1. \A e \in Exchanges : Supplies(e)
    BY SuppliedAssumption DEF SuppliedAssumption, Supplies
  <2>. QED BY <1>1, <1>2, <2>1
<1>4. PICK c, d : c = CaptureOf(es) /\ d = CaptureOf(ds)
  OBVIOUS
<1>5. /\ c.exchanges = es /\ c.selector = Absent /\ c.network_name_fallbacks = {}
      /\ d.exchanges = ds /\ d.selector = Absent /\ d.network_name_fallbacks = {}
  BY <1>4 DEF CaptureOf
<1>6. PICK f : f[m] = Gathered(c) /\ f[0] = Fresh /\ \A n \in 1 .. m : f[n] = Exchange(f[n - 1], c, es[n])
  <2>1. m = Len(c.exchanges)
    BY <1>2, <1>5
  <2>2. \E f : /\ f[m] = Gathered(c) /\ f[0] = Fresh
               /\ \A n \in 1 .. m : f[n] = Exchange(f[n - 1], c, c.exchanges[n])
    BY <2>1, Gathering
  <2>. QED BY <1>5, <2>2
<1>7. PICK g : g[m] = Gathered(d) /\ g[0] = Fresh /\ \A n \in 1 .. m : g[n] = Exchange(g[n - 1], d, ds[n])
  <2>1. m = Len(d.exchanges)
    BY <1>1, <1>2, <1>5
  <2>2. \E g : /\ g[m] = Gathered(d) /\ g[0] = Fresh
               /\ \A n \in 1 .. m : g[n] = Exchange(g[n - 1], d, d.exchanges[n])
    BY <2>1, Gathering
  <2>. QED BY <1>5, <2>2
<1>8. \A n \in 1 .. m : g[n] = Exchange(g[n - 1], c, ds[n])
  <2>1. c.selector = d.selector /\ c.network_name_fallbacks = d.network_name_fallbacks
    BY <1>5
  <2>2. \A a, e : Exchange(a, c, e) = Exchange(a, d, e)
    BY <2>1, ReadAlike
  <2>. QED BY <1>7, <2>2
<1>9. \A n \in 0 .. m : Going(f[n]) \/ f[n].error # "Ok"
  <2>1. \A n \in 1 .. m : f[n] = Exchange(f[n - 1], c, c.exchanges[n]) /\ Supplies(c.exchanges[n])
    BY <1>3, <1>5, <1>6
  <2>2. c.selector = Absent /\ f[0] = Fresh
    BY <1>5, <1>6
  <2>. QED BY <2>1, <2>2, GoesOrFails
<1>. DEFINE T == {n \in Nat : n <= i - 1 => f[n] = g[n]}
            U == {n \in Nat : n <= m - (i + 1) =>
                    \/ f[i + 1 + n] = g[i + 1 + n]
                    \/ f[i + 1 + n].error # "Ok" /\ g[i + 1 + n].error # "Ok"}
<1>10. i - 1 \in T
  <2>1. 0 \in T
    BY <1>6, <1>7
  <2>2. ASSUME NEW n \in Nat, n \in T PROVE n + 1 \in T
    <3>. SUFFICES ASSUME n + 1 <= i - 1 PROVE f[n + 1] = g[n + 1]
      OBVIOUS
    <3>1. n + 1 \in 1 .. m /\ (n + 1) - 1 = n /\ n + 1 # i /\ n + 1 # i + 1 /\ n <= i - 1
      BY <1>2
    <3>2. f[n] = g[n] /\ ds[n + 1] = es[n + 1]
      BY <1>1, <1>2, <2>2, <3>1
    <3>. QED BY <1>6, <1>8, <3>1, <3>2
  <2>. HIDE DEF T
  <2>3. i - 1 \in Nat
    OBVIOUS
  <2>. QED BY <2>1, <2>2, <2>3, Induction
<1>11. 0 \in U
  <2>1. i - 1 \in 0 .. m /\ i \in 1 .. m /\ i + 1 \in 1 .. m /\ (i + 1) - 1 = i
    BY <1>2
  <2>2. f[i - 1] = g[i - 1]
    BY <1>10, <2>1
  <2>3. f[i + 1] = Exchange(Exchange(f[i - 1], c, es[i]), c, es[i + 1])
    BY <1>6, <2>1
  <2>4. g[i + 1] = Exchange(Exchange(f[i - 1], c, es[i + 1]), c, es[i])
    BY <1>1, <1>8, <2>1, <2>2
  <2>5. Going(f[i - 1]) \/ f[i - 1].error # "Ok"
    BY <1>9, <2>1
  <2>6. Supplies(es[i]) /\ Supplies(es[i + 1])
    BY <1>3, <2>1
  <2>7. f[i + 1] = g[i + 1] \/ (f[i + 1].error # "Ok" /\ g[i + 1].error # "Ok")
    <3>1. PICK a, p, q : a = f[i - 1] /\ p = es[i] /\ q = es[i + 1]
      OBVIOUS
    <3>2. c.selector = Absent /\ Supplies(p) /\ Supplies(q) /\ (Going(a) \/ a.error # "Ok")
      BY <1>5, <2>5, <2>6, <3>1
    <3>3. \/ Exchange(Exchange(a, c, p), c, q) = Exchange(Exchange(a, c, q), c, p)
          \/ /\ Exchange(Exchange(a, c, p), c, q).error # "Ok"
             /\ Exchange(Exchange(a, c, q), c, p).error # "Ok"
      BY <3>2, Commute
    <3>. QED BY <2>3, <2>4, <3>1, <3>3
  <2>8. i + 1 + 0 = i + 1
    OBVIOUS
  <2>. QED BY <2>7, <2>8
<1>12. ASSUME NEW n \in Nat, n \in U PROVE n + 1 \in U
  <2>. SUFFICES ASSUME n + 1 <= m - (i + 1)
                PROVE  \/ f[i + 1 + (n + 1)] = g[i + 1 + (n + 1)]
                       \/ f[i + 1 + (n + 1)].error # "Ok" /\ g[i + 1 + (n + 1)].error # "Ok"
    OBVIOUS
  <2>1. PICK k : k = i + 1 + (n + 1)
    OBVIOUS
  <2>2. k \in 1 .. m /\ k - 1 = i + 1 + n /\ k # i /\ k # i + 1 /\ n <= m - (i + 1)
    BY <1>2, <2>1
  <2>3. f[k] = Exchange(f[k - 1], c, es[k]) /\ g[k] = Exchange(g[k - 1], c, es[k])
    BY <1>1, <1>2, <1>6, <1>8, <2>2
  <2>4. f[k - 1] = g[k - 1] \/ (f[k - 1].error # "Ok" /\ g[k - 1].error # "Ok")
    BY <1>12, <2>2
  <2>5. \A b, e : b.error # "Ok" => Exchange(b, c, e) = b
    BY DEF Exchange
  <2>. QED BY <2>1, <2>3, <2>4, <2>5
<1>13. m - (i + 1) \in U
  <2>1. m - (i + 1) \in Nat
    BY <1>2
  <2>. HIDE DEF U
  <2>. QED BY <1>11, <1>12, <2>1, Induction
<1>14. f[m] = g[m] \/ (f[m].error # "Ok" /\ g[m].error # "Ok")
  <2>1. i + 1 + (m - (i + 1)) = m /\ m - (i + 1) <= m - (i + 1)
    BY <1>2
  <2>. QED BY <1>13, <2>1
<1>. QED BY <1>1, <1>4, <1>6, <1>7, <1>14

\* What follows the loop is about what it gathered, not about the exchanges.
LEMMA SwappedDecode ==
  ASSUME NEW es \in Seq(Exchanges), NEW i \in 1 .. Len(es) - 1
  PROVE  LET here == Decoded(CaptureOf(es))
             there == Decoded(CaptureOf(Swapped(es, i)))
         IN  IF here.error = "Ok" THEN there = here ELSE there.error # "Ok"
<1>1. PICK c, d : c = CaptureOf(es) /\ d = CaptureOf(Swapped(es, i))
  OBVIOUS
<1>2. PICK g, h : g = Gathered(c) /\ h = Gathered(d) /\ (g = h \/ (g.error # "Ok" /\ h.error # "Ok"))
  BY <1>1, SwappedGather
<1>5. Len(c.exchanges) = Len(d.exchanges)
  BY <1>1 DEF CaptureOf, Swapped
<1>6. CASE Len(c.exchanges) > MaxCollection
  <2>1. Decoded(c).error = "CollectionTooLarge" /\ Decoded(d).error = "CollectionTooLarge"
    BY <1>5, <1>6 DEF Decoded
  <2>. QED BY <1>1, <2>1
<1>3. CASE ~(Len(c.exchanges) > MaxCollection) /\ g.error # "Ok" /\ h.error # "Ok"
  <2>1. Decoded(c) = [error |-> g.error] /\ Decoded(d) = [error |-> h.error]
    BY <1>2, <1>3, <1>5 DEF Decoded
  <2>2. Decoded(c).error # "Ok" /\ Decoded(d).error # "Ok"
    BY <1>3, <2>1
  <2>. QED BY <1>1, <2>2
<1>4. CASE g = h
  <2>1. /\ c.selector = d.selector /\ c.selected_roots = d.selected_roots
        /\ c.network_name_fallbacks = d.network_name_fallbacks
        /\ c.selected_resources = d.selected_resources /\ c.discovery_only = d.discovery_only
    BY <1>1 DEF CaptureOf
  <2>2. RootIds(g, c) = RootIds(g, d)
    BY <2>1 DEF RootIds
  <2>3. SelectionAgrees(g, c) <=> SelectionAgrees(g, d)
    BY <2>1, <2>2 DEF SelectionAgrees
  <2>4. RootsInspected(g, c) <=> RootsInspected(g, d)
    BY <2>1 DEF RootsInspected
  <2>5. ListsFollowed(g, c) <=> ListsFollowed(g, d)
    BY <2>1 DEF ListsFollowed
  <2>6. Complete(g, c) <=> Complete(g, d)
    BY <2>1, <2>3, <2>4, <2>5 DEF Complete
  <2>7. Decoded(c) = Decoded(d)
    BY <1>2, <1>4, <1>5, <2>6 DEF Decoded
  <2>. QED BY <1>1, <2>7
<1>. QED BY <1>2, <1>3, <1>4, <1>6

\* The exchanges are a sequence of what a caller may record.
Collected == exchanges \in Seq(Exchanges)

\* What a caller records through a budget stays such a sequence.
THEOREM SuppliedInvariant == Spec => []Collected
<1>1. Init => Collected
  BY DEF Init, Collected
<1>2. Collected /\ [Next]_vars => Collected'
  <2>. SUFFICES ASSUME exchanges \in Seq(Exchanges), [Next]_vars PROVE exchanges' \in Seq(Exchanges)
    BY DEF Collected
  <2>1. CASE Supply
    <3>1. PICK e \in Exchanges : exchanges' = Append(exchanges, e)
      BY <2>1 DEF Supply
    <3>. QED BY <3>1
  <2>2. CASE UNCHANGED vars
    BY <2>2 DEF vars
  <2>. QED BY <2>1, <2>2 DEF Next
<1>. QED BY <1>1, <1>2, PTL DEF Spec

(***************************************************************************)
(* decode_capture reads a caller's exchanges to the same inventory in any  *)
(* order of neighbours: exchanging two of them, any two at any place in    *)
(* any capture, neither changes the inventory nor makes a refusal of it.   *)
(***************************************************************************)
THEOREM OrderDoesNotMatter == Spec => []OrderIrrelevant
<1>1. Collected => OrderIrrelevant
  BY SwappedDecode DEF OrderIrrelevant, Collected
<1>. QED BY <1>1, SuppliedInvariant, PTL

(***************************************************************************)
(* Mount modes.  The scan's state after n options is described by the      *)
(* options alone (ScannedTo): refused when there are too many, an empty    *)
(* one, or two of one class, and otherwise holding the one option of each  *)
(* class it met.                                                           *)
(***************************************************************************)

Classes == {"access", "relabel", "propagation", "consistency", "copy"}

\* The options of a class among the first n.
Of(tokens, n, class) == {i \in 1 .. n : ClassOf(tokens[i]) = class}

\* Why the first n options are refused.
Contradictory(tokens, n) ==
  \/ n > MaxModeTokens
  \/ \E i \in 1 .. n : tokens[i] = ""
  \/ \E i, j \in 1 .. n : i # j /\ ClassOf(tokens[i]) = ClassOf(tokens[j]) /\ ClassOf(tokens[i]) \in Classes

\* What the scan remembers of the first n options.
ScannedTo(acc, tokens, n) ==
  /\ DOMAIN acc = DOMAIN Unscanned
  /\ acc.bad <=> Contradictory(tokens, n)
  /\ ~acc.bad =>
       /\ acc.count = n /\ acc.unknown = None
       /\ acc.unsupported <=> \E i \in 1 .. n : ClassOf(tokens[i]) \notin {"access", "relabel"}
       /\ \A class \in Classes :
            /\ Of(tokens, n, class) = {} => acc[class] = None
            /\ \A i \in Of(tokens, n, class) : acc[class] = tokens[i]

\* Before the first option nothing is remembered and nothing refused.
LEMMA Start == ASSUME NEW tokens PROVE ScannedTo(Unscanned, tokens, 0)
<1>1. /\ Unscanned.bad = FALSE /\ Unscanned.count = 0 /\ Unscanned.unknown = None
      /\ Unscanned.unsupported = FALSE /\ \A class \in Classes : Unscanned[class] = None
  BY DEF Unscanned, Classes
<1>2. ~Contradictory(tokens, 0)
  BY ModeAssumption DEF Contradictory, ModeAssumption
<1>. QED BY <1>1, <1>2 DEF ScannedTo, Of

\* Every option has a class.
LEMMA ClassesAreAll == \A token : ClassOf(token) \in Classes \cup {"unknown"}
  BY DEF ClassOf, Classes

\* One more option.
LEMMA Step ==
  ASSUME NEW acc, NEW tokens, NEW n \in Nat, ScannedTo(acc, tokens, n)
  PROVE  ScannedTo(Scan(acc, tokens[n + 1]), tokens, n + 1)
<1>1. PICK t, k : t = tokens[n + 1] /\ k = ClassOf(t)
  OBVIOUS
<1>2. \A i \in 1 .. n + 1 : i \in 1 .. n \/ i = n + 1
  OBVIOUS
<1>3. n + 1 \in 1 .. n + 1 /\ \A i \in 1 .. n : i \in 1 .. n + 1 /\ i # n + 1
  OBVIOUS
<1>4. Contradictory(tokens, n) => Contradictory(tokens, n + 1)
  <2>1. n > MaxModeTokens => n + 1 > MaxModeTokens
    BY ModeAssumption DEF ModeAssumption
  <2>2. (\E i \in 1 .. n : tokens[i] = "") => \E i \in 1 .. n + 1 : tokens[i] = ""
    BY <1>3
  <2>3. ASSUME NEW i \in 1 .. n, NEW j \in 1 .. n, i # j,
               ClassOf(tokens[i]) = ClassOf(tokens[j]), ClassOf(tokens[i]) \in Classes
        PROVE  \E a, b \in 1 .. n + 1 : a # b /\ ClassOf(tokens[a]) = ClassOf(tokens[b]) /\ ClassOf(tokens[a]) \in Classes
    BY <1>3, <2>3
  <2>. QED BY <2>1, <2>2, <2>3 DEF Contradictory
<1>5. CASE acc.bad
  <2>1. Scan(acc, t) = acc
    BY <1>5 DEF Scan
  <2>. QED BY <1>1, <1>4, <1>5, <2>1 DEF ScannedTo
<1>6. CASE ~acc.bad
  <2>1. /\ acc.count = n /\ acc.unknown = None /\ ~Contradictory(tokens, n)
        /\ acc.unsupported <=> \E i \in 1 .. n : ClassOf(tokens[i]) \notin {"access", "relabel"}
        /\ \A class \in Classes : /\ Of(tokens, n, class) = {} => acc[class] = None
                                 /\ \A i \in Of(tokens, n, class) : acc[class] = tokens[i]
    BY <1>6 DEF ScannedTo
  <2>2. k \in Classes \cup {"unknown"} /\ (k = "unknown" => k \notin Classes)
    BY <1>1, ClassesAreAll DEF Classes
  <2>3. acc[k] # None <=> k \in Classes /\ \E i \in 1 .. n : ClassOf(tokens[i]) = k
    <3>1. CASE k = "unknown"
      BY <2>1, <2>2, <3>1
    <3>2. CASE k \in Classes
      <4>1. \A i \in Of(tokens, n, k) : acc[k] = tokens[i] /\ tokens[i] # None
        <5>1. ASSUME NEW i \in Of(tokens, n, k) PROVE tokens[i] # None
          <6>1. ClassOf(tokens[i]) # "unknown"
            BY <3>2, <5>1, <2>2 DEF Of
          <6>. QED BY <6>1, ModeAssumption DEF ModeAssumption
        <5>. QED BY <2>1, <3>2, <5>1
      <4>. QED BY <2>1, <3>2, <4>1 DEF Of
    <3>. QED BY <2>2, <3>1, <3>2
  <2>4. Contradictory(tokens, n + 1) <=> n >= MaxModeTokens \/ t = "" \/ acc[k] # None
    <3>1. n + 1 > MaxModeTokens <=> n >= MaxModeTokens
      BY ModeAssumption DEF ModeAssumption
    <3>2. (\E i \in 1 .. n + 1 : tokens[i] = "") <=> t = "" \/ \E i \in 1 .. n : tokens[i] = ""
      BY <1>1, <1>2, <1>3
    <3>3. ASSUME NEW i \in 1 .. n + 1, NEW j \in 1 .. n + 1, i # j,
                 ClassOf(tokens[i]) = ClassOf(tokens[j]), ClassOf(tokens[i]) \in Classes
          PROVE  acc[k] # None
      <4>1. ~(i \in 1 .. n /\ j \in 1 .. n)
        BY <2>1, <3>3 DEF Contradictory
      <4>2. CASE i = n + 1
        BY <1>1, <1>2, <2>3, <3>3, <4>2
      <4>3. CASE j = n + 1
        BY <1>1, <1>2, <2>3, <3>3, <4>3
      <4>. QED BY <1>2, <4>1, <4>2, <4>3
    <3>4. ASSUME acc[k] # None
          PROVE  \E i, j \in 1 .. n + 1 : i # j /\ ClassOf(tokens[i]) = ClassOf(tokens[j]) /\ ClassOf(tokens[i]) \in Classes
      <4>1. PICK i \in 1 .. n : ClassOf(tokens[i]) = k
        BY <2>3, <3>4
      <4>. QED BY <1>1, <1>3, <2>3, <3>4, <4>1
    <3>. QED BY <2>1, <3>1, <3>2, <3>3, <3>4 DEF Contradictory
  <2>5. CASE n >= MaxModeTokens \/ t = "" \/ acc[k] # None
    <3>1. Scan(acc, t) = [acc EXCEPT !.bad = TRUE]
      BY <1>1, <1>6, <2>1, <2>5 DEF Scan
    <3>2. PICK d : d = [acc EXCEPT !.bad = TRUE]
      OBVIOUS
    <3>3. DOMAIN d = DOMAIN Unscanned /\ d.bad = TRUE
      BY <3>2 DEF ScannedTo, Unscanned
    <3>. QED BY <1>1, <2>4, <2>5, <3>1, <3>2, <3>3 DEF ScannedTo
  <2>6. CASE ~(n >= MaxModeTokens \/ t = "" \/ acc[k] # None)
    <3>1. PICK d : d = [acc EXCEPT !.count = @ + 1,
                                   ![k] = IF k = "unknown" THEN None ELSE t,
                                   !.unsupported = @ \/ k \notin {"access", "relabel"}]
      OBVIOUS
    <3>2. Scan(acc, t) = d
      BY <1>1, <1>6, <2>1, <2>6, <3>1 DEF Scan
    <3>3. /\ DOMAIN d = DOMAIN Unscanned /\ d.bad = acc.bad /\ d.count = n + 1
          /\ d.unknown = None
          /\ d.unsupported = (acc.unsupported \/ k \notin {"access", "relabel"})
          /\ \A class \in Classes : d[class] = IF class = k THEN t ELSE acc[class]
      BY <2>1, <2>2, <3>1 DEF ScannedTo, Unscanned, Classes
    <3>4. d.unsupported <=> \E i \in 1 .. n + 1 : ClassOf(tokens[i]) \notin {"access", "relabel"}
      BY <1>1, <1>2, <1>3, <2>1, <3>3
    <3>5. ASSUME NEW class \in Classes
          PROVE  /\ Of(tokens, n + 1, class) = {} => d[class] = None
                 /\ \A i \in Of(tokens, n + 1, class) : d[class] = tokens[i]
      <4>1. CASE class = k
        <5>1. Of(tokens, n, k) = {} /\ d[class] = t
          BY <2>3, <2>6, <3>3, <3>5, <4>1 DEF Of
        <5>2. Of(tokens, n + 1, class) = {n + 1}
          BY <1>1, <1>2, <1>3, <4>1, <5>1 DEF Of
        <5>. QED BY <1>1, <5>1, <5>2
      <4>2. CASE class # k
        <5>1. Of(tokens, n + 1, class) = Of(tokens, n, class)
          BY <1>1, <1>2, <1>3, <4>2 DEF Of
        <5>. QED BY <2>1, <3>3, <4>2, <5>1
      <4>. QED BY <4>1, <4>2
    <3>6. ~d.bad /\ ~Contradictory(tokens, n + 1)
      BY <1>6, <2>4, <2>6, <3>3
    <3>. QED BY <1>1, <3>2, <3>3, <3>4, <3>5, <3>6 DEF ScannedTo
  <2>. QED BY <2>5, <2>6
<1>. QED BY <1>5, <1>6

\* A scan of m options, step by step.
Scanning(f, tokens, m) ==
  f = [n \in 0 .. m |-> IF n = 0 THEN Unscanned ELSE Scan(f[n - 1], tokens[n])]

\* There is a scan of any length.
LEMMA ScanRuns ==
  ASSUME NEW tokens, NEW m \in Nat
  PROVE  \E f : Scanning(f, tokens, m)
<1>. DEFINE T == {n \in Nat : \E f : Scanning(f, tokens, n)}
<1>1. 0 \in T
  <2>. DEFINE f == [n \in 0 .. 0 |-> Unscanned]
  <2>1. Scanning(f, tokens, 0)
    BY DEF Scanning
  <2>. QED BY <2>1
<1>2. ASSUME NEW k \in Nat, k \in T PROVE k + 1 \in T
  <2>1. PICK f : Scanning(f, tokens, k)
    BY <1>2
  <2>. DEFINE g == [n \in 0 .. k + 1 |-> IF n = k + 1 THEN Scan(f[k], tokens[n]) ELSE f[n]]
  <2>2. ASSUME NEW n \in 0 .. k + 1
        PROVE  g[n] = IF n = 0 THEN Unscanned ELSE Scan(g[n - 1], tokens[n])
    <3>1. CASE n = k + 1
      <4>1. k \in 0 .. k + 1 /\ n # 0 /\ n - 1 = k /\ k # k + 1
        BY <3>1
      <4>2. g[k] = f[k] /\ g[n] = Scan(f[k], tokens[n])
        BY <3>1, <4>1
      <4>. QED BY <4>1, <4>2
    <3>2. CASE n # k + 1
      <4>1. n \in 0 .. k /\ (n # 0 => n - 1 \in 0 .. k /\ n - 1 # k + 1 /\ n - 1 \in 0 .. k + 1)
        BY <3>2
      <4>2. f[n] = IF n = 0 THEN Unscanned ELSE Scan(f[n - 1], tokens[n])
        BY <2>1, <4>1 DEF Scanning
      <4>3. g[n] = f[n] /\ (n # 0 => g[n - 1] = f[n - 1])
        BY <3>2, <4>1
      <4>. QED BY <4>1, <4>2, <4>3
    <3>. QED BY <3>1, <3>2
  <2>3. Scanning(g, tokens, k + 1)
    <3>. HIDE DEF g
    <3>1. g = [n \in 0 .. k + 1 |-> g[n]]
      BY DEF g
    <3>. QED BY <2>2, <3>1 DEF Scanning
  <2>. QED BY <2>3
<1>. HIDE DEF T
<1>3. m \in T
  BY <1>1, <1>2, Induction
<1>. QED BY <1>3 DEF T

\* The scan of a mode remembers what its options say.
LEMMA ScannedAll ==
  ASSUME NEW tokens, Len(tokens) \in Nat
  PROVE  ScannedTo(Scanned(tokens), tokens, Len(tokens))
<1>. DEFINE m == Len(tokens)
            f == CHOOSE h : Scanning(h, tokens, m)
<1>1. Scanned(tokens) = f[m]
  BY DEF Scanned, Scanning
<1>2. Scanning(f, tokens, m)
  BY ScanRuns
<1>3. m \in Nat
  OBVIOUS
<1>. HIDE DEF f, m
<1>. DEFINE T == {n \in Nat : n <= m => ScannedTo(f[n], tokens, n)}
<1>4. 0 \in T
  <2>1. f[0] = Unscanned
    BY <1>2, <1>3 DEF Scanning
  <2>. QED BY <2>1, Start
<1>5. ASSUME NEW n \in Nat, n \in T PROVE n + 1 \in T
  <2>. SUFFICES ASSUME n + 1 <= m PROVE ScannedTo(f[n + 1], tokens, n + 1)
    OBVIOUS
  <2>1. ScannedTo(f[n], tokens, n)
    BY <1>3, <1>5
  <2>2. n + 1 \in 0 .. m /\ n + 1 # 0 /\ (n + 1) - 1 = n
    BY <1>3
  <2>3. f[n + 1] = Scan(f[n], tokens[n + 1])
    BY <1>2, <2>2 DEF Scanning
  <2>. QED BY <2>1, <2>3, Step
<1>. HIDE DEF T
<1>6. m \in T
  BY <1>3, <1>4, <1>5, Induction
<1>. QED BY <1>1, <1>6 DEF T, m

\* A class met more than once is met at two positions, and the other way round.
LEMMA Twice ==
  ASSUME NEW n \in Nat, NEW P \in SUBSET (1 .. n)
  PROVE  Cardinality(P) > 1 <=> \E i, j \in P : i # j
<1>1. IsFiniteSet(P)
  <2>1. IsFiniteSet(1 .. n)
    BY FS_Interval
  <2>. QED BY <2>1, FS_Subset
<1>2. Cardinality(P) \in Nat
  BY <1>1, FS_CardinalityType
<1>3. ASSUME ~ \E i, j \in P : i # j PROVE ~(Cardinality(P) > 1)
  <2>1. CASE P = {}
    BY <2>1, FS_EmptySet
  <2>2. CASE P # {}
    <3>1. PICK i \in P : TRUE
      BY <2>2
    <3>2. P = {i}
      BY <1>3
    <3>. QED BY <3>2, FS_Singleton
  <2>. QED BY <2>1, <2>2
<1>4. ASSUME NEW i \in P, NEW j \in P, i # j PROVE Cardinality(P) > 1
  <2>1. Cardinality(P) # 0
    BY <1>1, FS_EmptySet
  <2>2. Cardinality(P) # 1
    BY <1>1, <1>4, FS_Singleton
  <2>. QED BY <1>2, <2>1, <2>2
<1>. QED BY <1>3, <1>4

\* The options of a mode stay a sequence of options.
ModeInv == mode \in Seq(Tokens)

\* A mode grows by one option at a time.
LEMMA ModeInvariance == WithheldSpec => []ModeInv
<1>1. WithheldInit => ModeInv
  BY DEF WithheldInit, ModeInv
<1>2. ModeInv /\ [WithheldNext]_withheldVars => ModeInv'
  <2>. SUFFICES ASSUME ModeInv, [WithheldNext]_withheldVars PROVE ModeInv'
    OBVIOUS
  <2>1. CASE AddToken
    BY <2>1 DEF AddToken, ModeInv
  <2>2. CASE UNCHANGED mode
    BY <2>2 DEF ModeInv
  <2>. QED BY <2>1, <2>2 DEF WithheldNext, Withhold, withheldVars
<1>. QED BY <1>1, <1>2, PTL DEF WithheldSpec

\* A mode is refused for its length, an empty option, or two options of a class.
LEMMA RefusedForContradiction ==
  ASSUME ModeInv
  PROVE  Contradictory(mode, Len(mode)) <=>
           \/ Len(mode) > MaxModeTokens \/ "" \in ToSet(mode)
           \/ \E class \in Classes : Times(class) > 1
<1>1. DOMAIN mode = 1 .. Len(mode) /\ Len(mode) \in Nat
  BY DEF ModeInv
<1>2. "" \in ToSet(mode) <=> \E i \in 1 .. Len(mode) : mode[i] = ""
  BY <1>1 DEF ToSet
<1>3. ASSUME NEW class \in Classes
      PROVE  Times(class) > 1 <=> \E i, j \in 1 .. Len(mode) :
                i # j /\ ClassOf(mode[i]) = class /\ ClassOf(mode[j]) = class
  <2>. DEFINE P == {i \in DOMAIN mode : ClassOf(mode[i]) = class}
  <2>1. P \in SUBSET (1 .. Len(mode))
    BY <1>1
  <2>2. Cardinality(P) > 1 <=> \E i, j \in P : i # j
    <3>. HIDE DEF P
    <3>. QED BY <1>1, <2>1, Twice
  <2>. QED BY <1>1, <2>2 DEF Times
<1>. QED BY <1>2, <1>3 DEF Contradictory

\* "An unknown token cannot conceal a contradictory or duplicated known mode":
\* for any options and any number of them, what a mount mode means is read off
\* the set of its options, and it is refused exactly when they contradict.
THEOREM ModesMeanTheirOptions == WithheldSpec => []ModeByTokens
<1>1. ASSUME ModeInv PROVE ModeByTokens
  <2>. DEFINE n == Len(mode)
              result == ModeOf(mode, "Mount")
              plain == \A token \in ToSet(mode) : token \in {"ro", "rw", "z", "Z"}
  <2>1. DOMAIN mode = 1 .. n /\ n \in Nat
    BY <1>1 DEF ModeInv
  <2>2. PICK scan : scan = Scanned(mode)
    OBVIOUS
  <2>3. ScannedTo(scan, mode, n)
    BY <2>1, <2>2, ScannedAll
  <2>4. result = IF scan.bad THEN Error("InvalidValue", "Mount")
                 ELSE IF scan.unsupported THEN Ok([unsupported |-> TRUE])
                 ELSE Ok([access |-> scan.access, relabel |-> scan.relabel])
    BY <2>2 DEF ModeOf
  <2>5. Failed(result) <=> Contradictory(mode, n)
    <3>1. Failed(result) <=> scan.bad
      <4>. HIDE DEF result
      <4>1. CASE scan.bad
        BY <2>4, <4>1 DEF Failed, Is, Error
      <4>2. CASE ~scan.bad
        <5>1. \E x : result = [ok |-> x]
          BY <2>4, <4>2 DEF Ok
        <5>. QED BY <4>2, <5>1 DEF Failed, Is
      <4>. QED BY <4>1, <4>2
    <3>2. scan.bad <=> Contradictory(mode, n)
      BY <2>3 DEF ScannedTo
    <3>. QED BY <3>1, <3>2
  <2>6. \A token : token \in {"ro", "rw", "z", "Z"} <=> ClassOf(token) \in {"access", "relabel"}
    BY DEF ClassOf
  <2>. HIDE DEF result
  <2>7. ASSUME ~Failed(result)
        PROVE  IF plain THEN ToSet(mode) = {result.ok.access, result.ok.relabel} \ {None}
               ELSE result.ok = [unsupported |-> TRUE]
    <3>1. /\ ~scan.bad
          /\ scan.unsupported <=> \E i \in 1 .. n : ClassOf(mode[i]) \notin {"access", "relabel"}
          /\ \A class \in Classes : /\ Of(mode, n, class) = {} => scan[class] = None
                                    /\ \A i \in Of(mode, n, class) : scan[class] = mode[i]
      BY <2>3, <2>5, <2>7 DEF ScannedTo
    <3>2. plain <=> ~scan.unsupported
      BY <2>1, <2>6, <3>1 DEF ToSet
    <3>3. CASE ~plain
      BY <2>4, <3>1, <3>2, <3>3 DEF Ok
    <3>4. CASE plain
      <4>1. result.ok.access = scan.access /\ result.ok.relabel = scan.relabel
        BY <2>4, <3>1, <3>2, <3>4 DEF Ok
      <4>2. ASSUME NEW x \in ToSet(mode) PROVE x \in {scan.access, scan.relabel} /\ x # None
        <5>1. PICK i \in 1 .. n : x = mode[i]
          BY <2>1, <4>2 DEF ToSet
        <5>2. ClassOf(x) \in {"access", "relabel"}
          BY <2>6, <3>4, <4>2
        <5>3. x # None
          BY <5>2, ModeAssumption DEF ModeAssumption
        <5>4. ClassOf(x) \in Classes /\ i \in Of(mode, n, ClassOf(x))
          BY <5>1, <5>2 DEF Of, Classes
        <5>5. scan[ClassOf(x)] = x
          BY <3>1, <5>1, <5>4
        <5>. QED BY <5>2, <5>3, <5>5
      <4>3. ASSUME NEW class \in {"access", "relabel"}, scan[class] # None
            PROVE  scan[class] \in ToSet(mode)
        <5>1. class \in Classes
          BY DEF Classes
        <5>2. PICK i \in Of(mode, n, class) : TRUE
          BY <3>1, <4>3, <5>1
        <5>3. scan[class] = mode[i] /\ i \in DOMAIN mode
          BY <2>1, <3>1, <5>1, <5>2 DEF Of
        <5>. QED BY <5>3 DEF ToSet
      <4>4. scan.access # None => scan.access \in ToSet(mode)
        BY <4>3
      <4>5. scan.relabel # None => scan.relabel \in ToSet(mode)
        BY <4>3
      <4>. QED BY <3>4, <4>1, <4>2, <4>4, <4>5
    <3>. QED BY <3>3, <3>4
  <2>8. Failed(result) <=> \/ Len(mode) > MaxModeTokens \/ "" \in ToSet(mode)
                           \/ \E class \in Classes : Times(class) > 1
    BY <1>1, <2>5, RefusedForContradiction
  <2>. QED BY <2>7, <2>8 DEF ModeByTokens, Classes, result
<1>. QED BY <1>1, ModeInvariance, PTL
=============================================================================
