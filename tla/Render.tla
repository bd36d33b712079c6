------------------------------- MODULE Render -------------------------------
(***************************************************************************)
(* DockerApiRenderer of src/target_modules/render.rs, over the graphs that *)
(* OperationGraph::new builds: until every node is emitted it takes the    *)
(* first one, in node order, whose dependencies all are; writes its request*)
(* or its prerequisites, then one request for each connection of a         *)
(* container.  The text of a request is layout and left out, and so are    *)
(* the lookups that fail only for a graph `new` cannot build.              *)
(***************************************************************************)
EXTENDS Graph

ASSUME OutcomeAssumption == None \notin {"Ok", "InvalidGraph"}

VARIABLES
  emitted,        \* the resources emitted
  current,        \* the node being emitted, or None
  requests,       \* the request stream: the steps it carries out
  prerequisites,  \* prerequisite_order: [kind, resource]
  rendered        \* "Ok", "InvalidGraph", or None

output == <<emitted, current, requests, prerequisites, rendered>>
allVars == <<vars, output>>

RenderInit ==
  /\ Init
  /\ emitted = {} /\ current = None
  /\ requests = <<>> /\ prerequisites = <<>>
  /\ rendered = None

\* The first node that may be emitted, or None.
Emittable == {i \in DOMAIN input.nodes :
                /\ input.nodes[i].resource \notin emitted
                /\ Range(input.nodes[i].depends_on) \subseteq emitted}
NextNode_InOrder ==     \* mutant: node order alone
  LET left == {i \in DOMAIN input.nodes : input.nodes[i].resource \notin emitted} IN
  IF left = {} THEN None ELSE input.nodes[CHOOSE i \in left : \A j \in left : i <= j].resource
NextNode ==
  IF Emittable = {} THEN None
  ELSE input.nodes[CHOOSE i \in Emittable : \A j \in Emittable : i <= j].resource

Rendering == state = "built" /\ rendered = None

\* Emit a node's own request, or what the consumer must check instead: an
\* external network or volume, and the source of every relabelled bind.
Prerequisites(s) ==
  IF s.external THEN <<[kind |-> s.kind, resource |-> s.ref]>>
  ELSE [i \in 1 .. Cardinality(Relabelled(s)) |-> [kind |-> "BindSource", resource |-> s.ref]]

Emit ==
  /\ Rendering /\ current = None
  /\ emitted # References
  /\ IF NextNode = None
     THEN rendered' = "InvalidGraph" /\ UNCHANGED <<current, requests, prerequisites>>
     ELSE /\ current' = NextNode
          /\ requests' = IF Resource(NextNode).external THEN requests
                         ELSE Append(requests, <<NextNode, 0>>)
          /\ prerequisites' = prerequisites \o Prerequisites(Resource(NextNode))
          /\ UNCHANGED rendered
  /\ UNCHANGED <<vars, emitted>>

\* The connections of the current container still to be written, in order.
Unconnected == Connections(Resource(current)) \ Range(requests)

Connect ==
  /\ Rendering /\ current # None
  /\ \E step \in Unconnected :
       /\ \A other \in Unconnected : step[2] <= other[2]
       /\ requests' = Append(requests, step)
  /\ UNCHANGED <<vars, emitted, current, prerequisites, rendered>>

Emitted_Early ==     \* mutant: its connections are forgotten
  /\ Rendering /\ current # None
  /\ emitted' = emitted \cup {current}
  /\ current' = None
  /\ UNCHANGED <<vars, requests, prerequisites, rendered>>
Emitted ==
  /\ Rendering /\ current # None
  /\ Unconnected = {}
  /\ emitted' = emitted \cup {current}
  /\ current' = None
  /\ UNCHANGED <<vars, requests, prerequisites, rendered>>

Finish ==
  /\ Rendering /\ current = None
  /\ emitted = References
  /\ rendered' = "Ok"
  /\ UNCHANGED <<vars, emitted, current, requests, prerequisites>>

Build == Next /\ UNCHANGED output
RenderNext == Build \/ Emit \/ Connect \/ Emitted \/ Finish

RenderSpec == RenderInit /\ [][RenderNext]_allVars
-----------------------------------------------------------------------------
(***************************************************************************)
(* Properties.                                                             *)
(***************************************************************************)

\* The renderer's own check is redundant: whatever order the nodes were given
\* in, a graph that was built always has a next node to emit.
NeverStuck == rendered # "InvalidGraph"

\* A rendered artifact is complete: every node is a request or a prerequisite
\* and never both, every attachment after the first is one connection, nothing
\* is written twice.
EverythingRendered ==
  rendered = "Ok" =>
    /\ Range(requests) = Steps \ {<<s.ref, 0>> : s \in {t \in Resources : t.external}}
    /\ Cardinality(Range(requests)) = Len(requests)
    /\ \A s \in Resources :
         Cardinality({i \in DOMAIN prerequisites : prerequisites[i].resource = s.ref})
           = IF s.external THEN 1 ELSE Cardinality(Relabelled(s))

\* Refinement: whoever sends the requests in order, with the prerequisites in
\* place, never runs a step before what it depends on.
Plan == [step \in Steps |-> StepDependencies(step)]
Taken == Range(requests)
           \cup {<<p.resource, 0>> : p \in {q \in Range(prerequisites) : q.kind # "BindSource"}}
Order == INSTANCE StepOrder WITH plan <- Plan, done <- Taken
DependencyOrdered == Order!Spec
=============================================================================
