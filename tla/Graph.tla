------------------------------- MODULE Graph --------------------------------
(***************************************************************************)
(* OperationGraph::new of src/target_modules/graph.rs: the nodes a caller  *)
(* supplies for an intent are checked for structure, counted off in        *)
(* dependency order (Kahn's traversal, which is how a cycle is found),     *)
(* then checked for what the daemon can do.  DockerPlanner supplies the    *)
(* nodes itself; any other Planner may supply what it likes.               *)
(*                                                                         *)
(* A hash map iterates in no particular order: the nodes that are ready at *)
(* once are stacked in any order.                                          *)
(***************************************************************************)
EXTENDS Requirements

CONSTANTS
  Inputs,   \* [resources, nodes, supports, api, mode]: the arguments of `new`
  None

PlanningErrors ==
  {"InvalidDependency", "DependencyMismatch", "Cycle", "UnsupportedApi", "MissingCapability",
   "UnsupportedNetworkIpam", "RestrictedPort"}

ASSUME InputsAssumption ==
  /\ None \notin PlanningErrors
  /\ \A i \in Inputs :
       /\ i.resources \in Seq(Range(i.resources)) /\ i.nodes \in Seq(Range(i.nodes))
       /\ IsInjective([k \in DOMAIN i.resources |-> i.resources[k].ref])
       /\ None \notin {s.ref : s \in Range(i.resources)}
       /\ \A n \in Range(i.nodes) : n.depends_on \in Seq(Range(n.depends_on))
       /\ \A s \in Range(i.resources) :
            /\ s.kind \in {"Container", "Network", "Volume"} /\ s.external \in BOOLEAN
            /\ s.kind = "Container" =>
                 s.networks \in Seq(Range(s.networks)) /\ s.mounts \in Seq(Range(s.mounts))

(***************************************************************************)
(* A node is [resource, kind, action, depends_on].  TargetIntent has made  *)
(* the references of the resources unique.                                 *)
(***************************************************************************)
VARIABLES
  input,
  state,       \* "validate", "traverse", "built" or "failed"
  remaining,   \* node -> its dependencies not visited yet
  ready,       \* the stack of nodes with none remaining
  visited,     \* the nodes visited, in order; the code keeps their number
  error        \* the PlanningError, or None

vars == <<input, state, remaining, ready, visited, error>>

Resources == Range(input.resources)
Nodes == Range(input.nodes)
References == {n.resource : n \in Nodes}

\* The dependencies of a node: a set, however often one is listed.
Dependencies(r) == UNION {Range(n.depends_on) : n \in {m \in Nodes : m.resource = r}}
Dependents(r) == {d \in References : r \in Dependencies(d)}

Action(s) == IF s.external THEN "RequireExisting" ELSE "Create"

\* What a container's attachments and named-volume mounts must depend on.
Required(s) == {[ref |-> n, kind |-> "Network"] : n \in Range(Networks(s))}
                 \cup {[ref |-> v, kind |-> "Volume"] : v \in UNION {Range(o) : o \in Range(Volumes(s))}}
-----------------------------------------------------------------------------
\* The structural checks, in the code's order.
WellFormed ==
  /\ Len(input.nodes) = Len(input.resources)
  /\ Cardinality(References) = Len(input.nodes)
  /\ \A n \in Nodes : \E s \in Resources :
       s.ref = n.resource /\ s.kind = n.kind /\ Action(s) = n.action
  /\ \A n \in Nodes : Range(n.depends_on) \subseteq References \ {n.resource}

Satisfied(s) ==
  \A q \in Required(s) :
    /\ \E t \in Resources : t.ref = q.ref /\ t.kind = q.kind
    /\ q.ref \in Dependencies(s.ref)

StructureError ==
  IF ~WellFormed THEN "InvalidDependency"
  ELSE IF \E s \in Resources : ~Satisfied(s) THEN "DependencyMismatch"
  ELSE None

\* The first resource the daemon cannot serve.
Complaint(s) == ResourceError(s, input.supports, input.mode)
Refused == {i \in DOMAIN input.resources : Complaint(input.resources[i]) # ""}
FirstRefusal ==
  IF Refused = {} THEN None
  ELSE Complaint(input.resources[Min(Refused)])

AdmissionError_Unvisited ==     \* mutant: the traversal's outcome is ignored
  IF input.api < 41 THEN "UnsupportedApi" ELSE FirstRefusal
AdmissionError ==
  IF Len(visited) # Len(input.nodes) THEN "Cycle"
  ELSE IF input.api < 41 THEN "UnsupportedApi"
  ELSE FirstRefusal
-----------------------------------------------------------------------------
Init ==
  /\ input \in Inputs
  /\ state = "validate"
  /\ remaining = [r \in {} |-> 0]
  /\ ready = <<>>
  /\ visited = <<>>
  /\ error = None

Fail(e) == state' = "failed" /\ error' = e

\* Validate the structure and count every node's dependencies.
DependencyCount_Listed(r) ==     \* mutant: a dependency counts as often as it is listed
  Len((CHOOSE n \in Nodes : n.resource = r).depends_on)
DependencyCount(r) == Cardinality(Dependencies(r))

Validate ==
  /\ state = "validate"
  /\ IF StructureError # None
     THEN Fail(StructureError) /\ UNCHANGED <<remaining, ready>>
     ELSE /\ remaining' = [r \in References |-> DependencyCount(r)]
          /\ ready' \in SetToSeqs({r \in References : remaining'[r] = 0})
          /\ state' = "traverse" /\ UNCHANGED error
  /\ UNCHANGED <<input, visited>>

\* The dependents of r that have none left are stacked in node order.
Released(r) == {d \in Dependents(r) : remaining'[d] = 0}
InNodeOrder(order) ==
  \A i, j \in DOMAIN order : i < j =>
    \E a, b \in DOMAIN input.nodes :
      a < b /\ input.nodes[a].resource = order[i] /\ input.nodes[b].resource = order[j]

\* Pop a ready node and visit it: what depended on it has one dependency less.
Visit ==
  /\ state = "traverse" /\ ready # <<>>
  /\ visited' = Append(visited, Last(ready))
  /\ remaining' = [d \in DOMAIN remaining |->
                     IF d \in Dependents(Last(ready)) THEN remaining[d] - 1 ELSE remaining[d]]
  /\ \E order \in SetToSeqs(Released(Last(ready))) :
       InNodeOrder(order) /\ ready' = Front(ready) \o order
  /\ UNCHANGED <<input, state, error>>

\* Nothing is ready any more.
Admit ==
  /\ state = "traverse" /\ ready = <<>>
  /\ IF AdmissionError # None THEN Fail(AdmissionError) ELSE state' = "built" /\ UNCHANGED error
  /\ UNCHANGED <<input, remaining, ready, visited>>

Next == Validate \/ Visit \/ Admit

Spec == Init /\ [][Next]_vars
-----------------------------------------------------------------------------
(***************************************************************************)
(* The steps of a graph: one per node, and one connection for each         *)
(* attachment of a container after its first, which waits for both ends.   *)
(***************************************************************************)
Connections(s) == {<<s.ref, i - 1>> : i \in 2 .. Len(Networks(s))}
Steps == {<<s.ref, 0>> : s \in Resources} \cup UNION {Connections(s) : s \in Resources}

Resource(r) == CHOOSE s \in Resources : s.ref = r
StepDependencies(step) ==
  IF step[2] = 0 THEN {<<d, 0>> : d \in Dependencies(step[1])}
  ELSE {<<step[1], 0>>, <<Networks(Resource(step[1]))[step[2] + 1], 0>>}

\* DockerPlanner: every resource depends on exactly what it names, once each,
\* in the order it names them: attachments first, then volume mounts.
Named_NoMounts(s) == [i \in DOMAIN Networks(s) |-> <<Networks(s)[i]>>]     \* mutant: a volume mount is no dependency
Named(s) == [i \in DOMAIN Networks(s) |-> <<Networks(s)[i]>>] \o Volumes(s)
DependsOn(named) ==
  LET taken[n \in 0 .. Len(named)] ==
        IF n = 0 THEN <<>>
        ELSE IF Range(named[n]) \subseteq Range(taken[n - 1]) THEN taken[n - 1]
        ELSE taken[n - 1] \o named[n]
  IN taken[Len(named)]
PlannerNode(s) ==
  [resource |-> s.ref, kind |-> s.kind, action |-> Action(s), depends_on |-> DependsOn(Named(s))]
PlannerNodes(resources) == [i \in DOMAIN resources |-> PlannerNode(resources[i])]
-----------------------------------------------------------------------------
(***************************************************************************)
(* Properties.                                                             *)
(***************************************************************************)

\* The traversal's counters are exact: what remains of a node is what it
\* depends on and was not visited, so `*count -= 1` never wraps, and a node is
\* ready or visited exactly when nothing remains.
CountersExact ==
  state \in {"traverse", "built"} =>
    /\ DOMAIN remaining = References
    /\ \A r \in References :
         /\ remaining[r] = Cardinality(Dependencies(r) \ Range(visited))
         /\ remaining[r] = 0 <=> r \in Range(ready \o visited)
    /\ IsInjective(ready \o visited)

\* A cycle: some nodes none of which can come first.
Cyclic == \E S \in SUBSET References : S # {} /\ \A r \in S : Dependencies(r) \cap S # {}

\* A graph of sound structure is refused as a cycle exactly when it has one,
\* even when a dependency is listed twice or the cycle hangs behind other nodes.
CycleIsReal ==
  /\ error = "Cycle" => Cyclic
  /\ Cyclic => state # "built"

\* The nodes DockerPlanner derives from an intent whose references resolve are
\* never refused for their structure or as a cycle.
Resolves == \A s \in Resources : \A q \in Required(s) :
              \E t \in Resources : t.ref = q.ref /\ t.kind = q.kind
PlannerNeverRefused ==
  Resolves /\ input.nodes = PlannerNodes(input.resources) =>
    error \notin {"InvalidDependency", "DependencyMismatch", "Cycle"}
=============================================================================
