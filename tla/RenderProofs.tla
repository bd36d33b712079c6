---------------------------- MODULE RenderProofs ----------------------------
(***************************************************************************)
(* OperationGraph::new and DockerApiRenderer, for every intent, every list *)
(* of nodes and every daemon: the traversal counts exactly and finds a     *)
(* cycle when there is one, and the renderer carries out every step of a   *)
(* graph that was built, none before the steps it depends on.              *)
(***************************************************************************)
EXTENDS Render, FiniteSetTheorems, WellFoundedInduction, TLAPS

(***************************************************************************)
(* Induction over the naturals, from the well-foundedness of finite sets.  *)
(***************************************************************************)

\* A set of naturals has a least element.
LEMMA LeastElement ==
  ASSUME NEW T \in SUBSET Nat, T # {}
  PROVE  \E x \in T : \A y \in T : x <= y
<1>1. PICK n \in T : TRUE
  OBVIOUS
<1>2. IsFiniteSet(0 .. n)
  BY <1>1, FS_Interval
<1> DEFINE F == {0 .. m : m \in {k \in T : k <= n}}
<1>3. F \subseteq SUBSET (0 .. n) /\ F # {}
  BY <1>1
<1>4. PICK s \in F : \A t \in F : ~ (<<t, s>> \in StrictSubsetOrdering(0 .. n))
  <2>1. IsWellFoundedOn(StrictSubsetOrdering(0 .. n), SUBSET (0 .. n))
    BY <1>2, FS_StrictSubsetOrderingWellFounded, FS_FiniteSubsetsOfFinite
  <2>. QED BY <1>3, <2>1, WFMin
<1>5. PICK x \in T : x <= n /\ s = 0 .. x
  BY <1>4
<1>6. ASSUME NEW y \in T, y < x PROVE FALSE
  <2>1. 0 .. y \in F /\ 0 .. y \subseteq 0 .. x /\ 0 .. y # 0 .. x
    BY <1>5, <1>6
  <2>2. <<0 .. y, 0 .. x>> \in StrictSubsetOrdering(0 .. n)
    BY <1>3, <1>5, <2>1 DEF StrictSubsetOrdering
  <2>. QED BY <1>4, <1>5, <2>1, <2>2
<1>. QED BY <1>5, <1>6

\* A set that has zero and every successor of what it has, has every natural.
LEMMA Induction ==
  ASSUME NEW T, 0 \in T, \A n \in Nat : n \in T => n + 1 \in T
  PROVE  \A n \in Nat : n \in T
<1>1. SUFFICES ASSUME Nat \ T # {} PROVE FALSE
  OBVIOUS
<1>2. PICK x \in Nat \ T : \A y \in Nat \ T : x <= y
  BY <1>1, LeastElement
<1>3. x - 1 \in Nat /\ x - 1 \notin Nat \ T
  BY <1>2
<1>. QED BY <1>2, <1>3

(***************************************************************************)
(* Sequences without repetition.                                           *)
(***************************************************************************)

\* A sequence built from two holds what both hold, and repeats nothing when
\* neither does and they share nothing.
LEMMA Concatenated ==
  ASSUME NEW S, NEW s \in Seq(S), NEW t \in Seq(S)
  PROVE  /\ s \o t \in Seq(S) /\ Range(s \o t) = Range(s) \cup Range(t)
         /\ IsInjective(s \o t) <=>
              IsInjective(s) /\ IsInjective(t) /\ Range(s) \cap Range(t) = {}
<1>1. /\ DOMAIN s = 1 .. Len(s) /\ DOMAIN t = 1 .. Len(t)
      /\ s \o t \in Seq(S) /\ DOMAIN (s \o t) = 1 .. Len(s) + Len(t)
      /\ Len(s) \in Nat /\ Len(t) \in Nat
  OBVIOUS
<1>2. \A i \in DOMAIN s : i \in DOMAIN (s \o t) /\ (s \o t)[i] = s[i]
  OBVIOUS
<1>3. \A i \in DOMAIN t : Len(s) + i \in DOMAIN (s \o t) /\ (s \o t)[Len(s) + i] = t[i]
  OBVIOUS
<1>4. \A i \in DOMAIN (s \o t) : \/ i \in DOMAIN s
                                 \/ i - Len(s) \in DOMAIN t /\ (s \o t)[i] = t[i - Len(s)]
  OBVIOUS
<1>5. Range(s \o t) = Range(s) \cup Range(t)
  <2>1. ASSUME NEW x \in Range(s \o t) PROVE x \in Range(s) \cup Range(t)
    <3>1. PICK i \in DOMAIN (s \o t) : x = (s \o t)[i]
      BY <2>1 DEF Range
    <3>. QED BY <1>2, <1>4, <3>1 DEF Range
  <2>2. Range(s) \subseteq Range(s \o t)
    BY <1>2 DEF Range
  <2>3. Range(t) \subseteq Range(s \o t)
    BY <1>3 DEF Range
  <2>. QED BY <2>1, <2>2, <2>3
<1>6. ASSUME IsInjective(s \o t)
      PROVE  IsInjective(s) /\ IsInjective(t) /\ Range(s) \cap Range(t) = {}
  <2>1. IsInjective(s)
    BY <1>2, <1>6 DEF IsInjective
  <2>2. IsInjective(t)
    <3>1. SUFFICES ASSUME NEW a \in DOMAIN t, NEW b \in DOMAIN t, t[a] = t[b] PROVE a = b
      BY DEF IsInjective
    <3>2. Len(s) + a = Len(s) + b
      BY <1>3, <1>6, <3>1 DEF IsInjective
    <3>. QED BY <1>1, <3>1, <3>2
  <2>3. ASSUME NEW a \in DOMAIN s, NEW b \in DOMAIN t PROVE s[a] # t[b]
    <3>1. a # Len(s) + b
      BY <1>1
    <3>. QED BY <1>2, <1>3, <1>6, <3>1 DEF IsInjective
  <2>. QED BY <2>1, <2>2, <2>3 DEF Range
<1>7. ASSUME IsInjective(s), IsInjective(t), Range(s) \cap Range(t) = {}
      PROVE  IsInjective(s \o t)
  <2>1. SUFFICES ASSUME NEW a \in DOMAIN (s \o t), NEW b \in DOMAIN (s \o t), (s \o t)[a] = (s \o t)[b]
                 PROVE  a = b
    BY DEF IsInjective
  <2>2. CASE a \in DOMAIN s /\ b \in DOMAIN s
    BY <1>2, <1>7, <2>1, <2>2 DEF IsInjective
  <2>3. \A i \in DOMAIN s : \A j \in DOMAIN t : s[i] # t[j]
    BY <1>7 DEF Range
  <2>4. CASE (a \in DOMAIN s) # (b \in DOMAIN s)
    BY <1>2, <1>4, <2>1, <2>3, <2>4
  <2>5. CASE a \notin DOMAIN s /\ b \notin DOMAIN s
    <3>1. a - Len(s) = b - Len(s)
      BY <1>4, <1>7, <2>1, <2>5 DEF IsInjective
    <3>. QED BY <1>1, <3>1
  <2>. QED BY <2>2, <2>4, <2>5
<1>. QED BY <1>1, <1>5, <1>6, <1>7

\* Popping the last element of a sequence that repeats nothing.
LEMMA Popped ==
  ASSUME NEW S, NEW s \in Seq(S), s # <<>>, IsInjective(s)
  PROVE  /\ Front(s) \in Seq(S) /\ Last(s) \in S /\ IsInjective(Front(s))
         /\ Last(s) \in Range(s) /\ Range(Front(s)) = Range(s) \ {Last(s)}
<1>1. /\ Len(s) \in Nat \ {0} /\ DOMAIN s = 1 .. Len(s)
      /\ Front(s) \in Seq(S) /\ DOMAIN Front(s) = 1 .. Len(s) - 1
      /\ \A i \in 1 .. Len(s) - 1 : Front(s)[i] = s[i]
  BY DEF Front
<1>2. Last(s) = s[Len(s)] /\ Len(s) \in DOMAIN s
  BY <1>1 DEF Last
<1>3. IsInjective(Front(s)) /\ Last(s) \in Range(s)
  BY <1>1, <1>2 DEF IsInjective, Range
<1>4. Range(Front(s)) = Range(s) \ {Last(s)}
  <2>1. \A i \in 1 .. Len(s) - 1 : s[i] # s[Len(s)]
    BY <1>1, <1>2 DEF IsInjective
  <2>2. \A i \in DOMAIN s : i \in 1 .. Len(s) - 1 \/ i = Len(s)
    BY <1>1
  <2>. QED BY <1>1, <1>2, <2>1, <2>2 DEF Range
<1>. QED BY <1>1, <1>2, <1>3, <1>4

\* What Append adds to a sequence that repeats nothing.
LEMMA Appended ==
  ASSUME NEW S, NEW s \in Seq(S), NEW x \in S
  PROVE  /\ Append(s, x) \in Seq(S) /\ Range(Append(s, x)) = Range(s) \cup {x}
         /\ IsInjective(s) /\ x \notin Range(s) => IsInjective(Append(s, x))
         /\ Len(Append(s, x)) = Len(s) + 1
<1>1. <<x>> \in Seq(S) /\ Append(s, x) = s \o <<x>> /\ Len(Append(s, x)) = Len(s) + 1
  OBVIOUS
<1>2. Range(<<x>>) = {x} /\ IsInjective(<<x>>)
  BY DEF Range, IsInjective
<1>3. /\ Range(s \o <<x>>) = Range(s) \cup Range(<<x>>)
      /\ IsInjective(s \o <<x>>) <=>
           IsInjective(s) /\ IsInjective(<<x>>) /\ Range(s) \cap Range(<<x>>) = {}
  BY <1>1, Concatenated
<1>. QED BY <1>1, <1>2, <1>3

\* A set in some order: each element once.
LEMMA Ordered ==
  ASSUME NEW S, IsFiniteSet(S), NEW order \in SetToSeqs(S)
  PROVE  order \in Seq(S) /\ Range(order) = S /\ IsInjective(order)
<1>1. /\ Cardinality(S) \in Nat /\ order \in [1 .. Cardinality(S) -> S]
      /\ IsInjective(order)
  BY FS_CardinalityType DEF SetToSeqs, IsInjective
<1>2. order \in Injection(1 .. Cardinality(S), S)
  BY <1>1 DEF Injection
<1>3. Cardinality(1 .. Cardinality(S)) = Cardinality(S)
  BY <1>1, FS_Interval
<1>4. order \in Surjection(1 .. Cardinality(S), S)
  BY <1>2, <1>3, FS_Injection
<1>5. Range(order) = S
  <2>1. \A x \in S : \E i \in 1 .. Cardinality(S) : order[i] = x
    BY <1>4 DEF Surjection
  <2>2. Range(order) \subseteq S /\ S \subseteq Range(order)
    <3>1. DOMAIN order = 1 .. Cardinality(S)
      BY <1>1
    <3>. QED BY <1>1, <2>1, <3>1 DEF Range
  <2>. QED BY <2>2
<1>. QED BY <1>1, <1>5

\* The elements of a sequence are finitely many, and as many as it is long when
\* it repeats nothing.
LEMMA Elements ==
  ASSUME NEW S, NEW s \in Seq(S)
  PROVE  /\ IsFiniteSet(Range(s)) /\ Cardinality(Range(s)) <= Len(s) /\ Range(s) \subseteq S
         /\ IsInjective(s) <=> Cardinality(Range(s)) = Len(s)
<1>1. /\ Len(s) \in Nat /\ DOMAIN s = 1 .. Len(s) /\ s \in [1 .. Len(s) -> Range(s)]
  BY DEF Range
<1>2. IsFiniteSet(1 .. Len(s)) /\ Cardinality(1 .. Len(s)) = Len(s)
  BY <1>1, FS_Interval
<1>3. s \in Surjection(1 .. Len(s), Range(s))
  BY <1>1 DEF Surjection, Range
<1>4. s \in Injection(1 .. Len(s), Range(s)) <=> IsInjective(s)
  BY <1>1 DEF Injection
<1>5. Range(s) \subseteq S
  BY <1>1 DEF Range
<1>. QED BY <1>2, <1>3, <1>4, <1>5, FS_Surjection

(***************************************************************************)
(* A graph of sound structure.                                             *)
(***************************************************************************)
Sound == input \in Inputs /\ StructureError = None

\* What InputsAssumption says of the arguments.
LEMMA Arguments ==
  ASSUME input \in Inputs
  PROVE  /\ input.resources \in Seq(Resources) /\ input.nodes \in Seq(Nodes)
         /\ IsInjective([k \in DOMAIN input.resources |-> input.resources[k].ref])
         /\ \A n \in Nodes : n.depends_on \in Seq(Range(n.depends_on))
         /\ \A s \in Resources :
              /\ s.kind \in {"Container", "Network", "Volume"} /\ s.external \in BOOLEAN
              /\ s.ref # None
              /\ s.kind = "Container" =>
                   s.networks \in Seq(Range(s.networks)) /\ s.mounts \in Seq(Range(s.mounts))
  BY InputsAssumption DEF InputsAssumption, Resources, Nodes

\* Two resources never share a reference.
LEMMA OneResource ==
  ASSUME input \in Inputs, NEW s \in Resources
  PROVE  /\ \A t \in Resources : t.ref = s.ref => t = s
         /\ Resource(s.ref) = s
<1>1. PICK i \in DOMAIN input.resources : s = input.resources[i]
  BY DEF Resources, Range
<1>2. ASSUME NEW t \in Resources, t.ref = s.ref PROVE t = s
  <2>1. PICK j \in DOMAIN input.resources : t = input.resources[j]
    BY DEF Resources, Range
  <2> DEFINE refs == [k \in DOMAIN input.resources |-> input.resources[k].ref]
  <2>2. IsInjective(refs) /\ refs[i] = refs[j]
    BY <1>1, <1>2, <2>1, Arguments
  <2>3. i = j
    BY <2>2 DEF IsInjective
  <2>. QED BY <1>1, <2>1, <2>3
<1>. QED BY <1>2 DEF Resource

\* There are finitely many nodes, and each has the dependencies of a set.
LEMMA FewReferences ==
  ASSUME input \in Inputs
  PROVE  /\ Len(input.nodes) \in Nat /\ IsFiniteSet(References)
         /\ \A r : IsFiniteSet(Dependencies(r) \cap References)
<1>1. input.nodes \in Seq(Nodes) /\ Len(input.nodes) \in Nat
      /\ DOMAIN input.nodes = 1 .. Len(input.nodes)
  BY Arguments
<1> DEFINE f == [i \in 1 .. Len(input.nodes) |-> input.nodes[i].resource]
<1>2. f \in [1 .. Len(input.nodes) -> References]
  BY <1>1 DEF References
<1>3. \A r \in References : \E i \in 1 .. Len(input.nodes) : f[i] = r
  BY <1>1 DEF References, Nodes, Range
<1>4. f \in Surjection(1 .. Len(input.nodes), References)
  BY <1>2, <1>3 DEF Surjection
<1>5. IsFiniteSet(1 .. Len(input.nodes))
  BY <1>1, FS_Interval
<1>6. IsFiniteSet(References)
  BY <1>4, <1>5, FS_Surjection
<1>. QED BY <1>1, <1>6, FS_Intersection

\* There are as many references as resources.
LEMMA Numbered ==
  ASSUME input \in Inputs
  PROVE  /\ IsFiniteSet({s.ref : s \in Resources})
         /\ Cardinality({s.ref : s \in Resources}) = Len(input.resources)
<1> DEFINE refs == {s.ref : s \in Resources}
           f == [k \in DOMAIN input.resources |-> input.resources[k].ref]
<1>1. input.resources \in Seq(Resources) /\ IsInjective(f)
      /\ DOMAIN input.resources = 1 .. Len(input.resources) /\ Len(input.resources) \in Nat
  BY Arguments
<1>2. Range(f) = refs
  BY DEF Resources, Range
<1>3. f \in Seq(refs) /\ Len(f) = Len(input.resources)
  <2>1. \A k \in DOMAIN input.resources : input.resources[k] \in Resources
    BY DEF Resources, Range
  <2>. QED BY <1>1, <2>1
<1>. QED BY <1>1, <1>2, <1>3, Elements

\* Structural soundness, said of references: the nodes are the resources, a
\* node never depends on itself nor on what is not there, and an attachment or
\* a volume mount is a dependency.
LEMMA Structure ==
  ASSUME Sound
  PROVE  /\ WellFormed /\ \A s \in Resources : Satisfied(s)
         /\ Cardinality(References) = Len(input.nodes)
         /\ \A r \in References : Dependencies(r) \subseteq References \ {r}
         /\ \A r \in References : IsFiniteSet(Dependencies(r))
         /\ References = {s.ref : s \in Resources}
         /\ None \notin References
<1>1. WellFormed /\ \A s \in Resources : Satisfied(s)
  BY InputsAssumption DEF Sound, StructureError, InputsAssumption, PlanningErrors
<1>2. Cardinality(References) = Len(input.nodes) /\ Len(input.nodes) = Len(input.resources)
  BY <1>1 DEF WellFormed
<1>3. \A r \in References : Dependencies(r) \subseteq References \ {r}
  BY <1>1 DEF WellFormed, Dependencies
<1>4. \A r \in References : IsFiniteSet(Dependencies(r))
  <2>1. \A r \in References : Dependencies(r) \cap References = Dependencies(r)
    BY <1>3
  <2>. QED BY <2>1, FewReferences DEF Sound
<1> DEFINE refs == {s.ref : s \in Resources}
<1>5. References \subseteq refs
  BY <1>1 DEF WellFormed, References
<1>6. IsFiniteSet(refs) /\ Cardinality(refs) = Len(input.resources)
  BY Numbered DEF Sound
<1>7. References = refs
  <2>1. refs \in {refs} /\ References \in SUBSET refs /\ Cardinality(refs) = Cardinality(References)
    BY <1>2, <1>5, <1>6
  <2>. QED BY <1>6, <2>1, FS_Subset
<1>8. None \notin References
  BY <1>7, Arguments DEF Sound
<1>. QED BY <1>1, <1>2, <1>3, <1>4, <1>7, <1>8
(***************************************************************************)
(* The traversal.                                                          *)
(***************************************************************************)

\* Nodes none of which can come first are never visited: what makes a graph
\* whose nodes were all visited acyclic.
NoCycleVisited ==
  \A S \in SUBSET References :
    (\A r \in S : Dependencies(r) \cap S # {}) => S \cap Range(visited) = {}

Traversal ==
  /\ Sound /\ error = None
  /\ visited \in Seq(References) /\ ready \in Seq(References)
  /\ remaining \in [References -> Nat]
  /\ \A r \in References :
       /\ remaining[r] = Cardinality(Dependencies(r) \ Range(visited))
       /\ remaining[r] = 0 <=> r \in Range(ready) \cup Range(visited)
  /\ IsInjective(ready) /\ IsInjective(visited) /\ Range(ready) \cap Range(visited) = {}
  /\ NoCycleVisited

GraphInv ==
  /\ input \in Inputs
  /\ state \in {"validate", "traverse", "built", "failed"}
  /\ state = "validate" => visited = <<>> /\ ready = <<>> /\ error = None
  /\ state \in {"traverse", "built"} => Traversal
  /\ state = "built" => ready = <<>> /\ Len(visited) = Len(input.nodes)
  /\ error \in {"InvalidDependency", "DependencyMismatch"} => StructureError # None
  /\ error = "Cycle" => Sound /\ Cyclic

\* The counters as the property states them.
LEMMA Counted == Traversal => /\ CountersExact /\ IsInjective(ready \o visited)
                              /\ Range(ready \o visited) = Range(ready) \cup Range(visited)
<1>. SUFFICES ASSUME Traversal
              PROVE  /\ CountersExact /\ IsInjective(ready \o visited)
                     /\ Range(ready \o visited) = Range(ready) \cup Range(visited)
  OBVIOUS
<1>1. /\ Range(ready \o visited) = Range(ready) \cup Range(visited)
      /\ IsInjective(ready \o visited)
  BY Concatenated DEF Traversal
<1>. QED BY <1>1 DEF Traversal, CountersExact

\* What a graph is asked about only its input decides.
LEMMA SameInput ==
  input' = input =>
    /\ StructureError' = StructureError /\ References' = References /\ Resources' = Resources
    /\ \A r : Dependencies(r)' = Dependencies(r)
  BY DEF StructureError, WellFormed, Satisfied, Dependencies, Nodes, Resources, References

\* Everything validated: the nodes without dependencies are ready.
LEMMA ValidateInv == GraphInv /\ Validate => GraphInv'
<1>. SUFFICES ASSUME GraphInv, Validate PROVE GraphInv'
  OBVIOUS
<1>1. /\ input' = input /\ visited' = visited /\ visited = <<>> /\ ready = <<>> /\ error = None
      /\ state = "validate" /\ input \in Inputs
  BY DEF GraphInv, Validate
<1>2. StructureError' = StructureError /\ References' = References
  BY <1>1, SameInput
<1>3. CASE StructureError # None
  <2>1. state' = "failed" /\ error' = StructureError /\ StructureError # "Cycle"
    BY <1>3 DEF Validate, Fail, StructureError
  <2>. QED BY <1>1, <1>2, <1>3, <2>1 DEF GraphInv
<1>4. CASE StructureError = None
  <2>1. /\ remaining' = [r \in References |-> Cardinality(Dependencies(r))]
        /\ ready' \in SetToSeqs({r \in References : remaining'[r] = 0})
        /\ state' = "traverse" /\ error' = None
    BY <1>1, <1>4 DEF Validate, DependencyCount
  <2>2. Sound /\ Sound'
    BY <1>1, <1>2, <1>4 DEF Sound
  <2>3. \A r \in References : IsFiniteSet(Dependencies(r)) /\ Cardinality(Dependencies(r)) \in Nat
    BY <2>2, Structure, FS_CardinalityType
  <2> DEFINE first == {r \in References : remaining'[r] = 0}
  <2>4. IsFiniteSet(first) /\ first \subseteq References
    BY <1>1, FewReferences, FS_Subset
  <2>5. ready' \in Seq(first) /\ Range(ready') = first /\ IsInjective(ready')
    BY <2>1, <2>4, Ordered
  <2>6. /\ visited' \in Seq(References) /\ Range(visited') = {} /\ IsInjective(visited')
        /\ ready' \in Seq(References)
    BY <1>1, <2>4, <2>5 DEF Range, IsInjective
  <2>7. /\ remaining' \in [References -> Nat]
        /\ \A r \in References : remaining'[r] = Cardinality(Dependencies(r) \ Range(visited'))
    BY <2>1, <2>3, <2>6
  <2>8. \A r : Dependencies(r)' = Dependencies(r)
    BY <1>1, SameInput
  <2>9. Traversal'
    BY <1>1, <1>2, <2>1, <2>2, <2>5, <2>6, <2>7, <2>8 DEF Traversal, NoCycleVisited
  <2>. QED BY <1>1, <2>1, <2>9, InputsAssumption DEF GraphInv, InputsAssumption, PlanningErrors
<1>. QED BY <1>3, <1>4

\* A visited node is one whose dependencies were all visited.
LEMMA VisitInv == GraphInv /\ Visit => GraphInv'
<1>. SUFFICES ASSUME GraphInv, Visit PROVE GraphInv'
  OBVIOUS
<1> DEFINE r == Last(ready)
           before == Range(ready) \cup Range(visited)
<1>1. /\ input' = input /\ state' = state /\ error' = error /\ state = "traverse" /\ Traversal
      /\ ready # <<>> /\ visited' = Append(visited, r)
      /\ remaining' = [d \in DOMAIN remaining |->
                         IF d \in Dependents(r) THEN remaining[d] - 1 ELSE remaining[d]]
      /\ \E order \in SetToSeqs(Released(r)) : ready' = Front(ready) \o order
  BY DEF GraphInv, Visit
<1>2. /\ Sound' /\ References' = References /\ \A d : Dependencies(d)' = Dependencies(d)
      /\ input \in Inputs
  BY <1>1, SameInput DEF Traversal, Sound
<1>3. /\ Front(ready) \in Seq(References) /\ r \in References /\ IsInjective(Front(ready))
      /\ r \in Range(ready) /\ Range(Front(ready)) = Range(ready) \ {r}
  BY <1>1, Popped DEF Traversal
<1>4. r \notin Range(visited) /\ remaining[r] = 0
  BY <1>3, <1>1 DEF Traversal
<1>5. \A d \in References : IsFiniteSet(Dependencies(d) \ Range(visited))
  BY <1>1, Structure, FS_Difference DEF Traversal
<1>6. Dependencies(r) \subseteq Range(visited)
  <2>1. Cardinality(Dependencies(r) \ Range(visited)) = 0
    BY <1>1, <1>3, <1>4 DEF Traversal
  <2>. QED BY <1>3, <1>5, <2>1, FS_EmptySet
<1>7. /\ visited' \in Seq(References) /\ Range(visited') = Range(visited) \cup {r}
      /\ IsInjective(visited')
  BY <1>1, <1>3, <1>4, Appended DEF Traversal
<1>8. \A d \in References :
        /\ remaining'[d] = Cardinality(Dependencies(d) \ Range(visited'))
        /\ remaining'[d] \in Nat
        /\ d \in Dependents(r) => remaining[d] # 0
        /\ d \notin Dependents(r) => remaining'[d] = remaining[d]
  <2>. SUFFICES ASSUME NEW d \in References
                PROVE  /\ remaining'[d] = Cardinality(Dependencies(d) \ Range(visited'))
                       /\ remaining'[d] \in Nat
                       /\ d \in Dependents(r) => remaining[d] # 0
                       /\ d \notin Dependents(r) => remaining'[d] = remaining[d]
    OBVIOUS
  <2> DEFINE left == Dependencies(d) \ Range(visited)
  <2>1. IsFiniteSet(left) /\ remaining[d] = Cardinality(left) /\ Cardinality(left) \in Nat
    BY <1>1, <1>5, FS_CardinalityType DEF Traversal
  <2>2. Dependencies(d) \ Range(visited') = left \ {r}
    BY <1>7
  <2>3. IsFiniteSet(left \ {r}) /\ Cardinality(left \ {r}) \in Nat
        /\ Cardinality(left \ {r}) = IF r \in left THEN Cardinality(left) - 1 ELSE Cardinality(left)
    BY <2>1, FS_RemoveElement, FS_CardinalityType
  <2>4. d \in Dependents(r) <=> r \in left
    BY <1>4 DEF Dependents
  <2>5. d \in DOMAIN remaining
    BY <1>1 DEF Traversal
  <2>6. CASE r \in left
    <3>1. remaining'[d] = Cardinality(left) - 1
      BY <1>1, <2>1, <2>4, <2>5, <2>6
    <3>2. Cardinality(left) # 0
      BY <2>1, <2>6, FS_EmptySet
    <3>. QED BY <2>1, <2>2, <2>3, <2>4, <2>6, <3>1, <3>2
  <2>7. CASE r \notin left
    BY <1>1, <2>1, <2>2, <2>3, <2>4, <2>5, <2>7
  <2>. QED BY <2>6, <2>7
<1>9. /\ Released(r) \subseteq References /\ IsFiniteSet(Released(r))
      /\ Released(r) \cap before = {}
      /\ \A d \in References : remaining'[d] = 0 <=> d \in before \cup Released(r)
  <2>. \A d : d \in Released(r) <=> d \in Dependents(r) /\ remaining'[d] = 0
    BY DEF Released
  <2>1. Released(r) \subseteq References
    BY DEF Dependents
  <2>2. IsFiniteSet(Released(r))
    BY <1>2, <2>1, FewReferences, FS_Subset
  <2>3. \A d \in Released(r) : d \notin before
    BY <1>1, <1>8, <2>1 DEF Traversal
  <2>4. \A d \in References : remaining[d] = 0 <=> d \in before
    BY <1>1 DEF Traversal
  <2>5. ASSUME NEW d \in References PROVE remaining'[d] = 0 <=> d \in before \cup Released(r)
    <3>1. CASE d \in Dependents(r)
      BY <1>8, <2>4, <3>1
    <3>2. CASE d \notin Dependents(r)
      BY <1>8, <2>4, <3>2
    <3>. QED BY <3>1, <3>2
  <2>. QED BY <2>1, <2>2, <2>3, <2>5
<1>10. /\ ready' \in Seq(References) /\ IsInjective(ready')
       /\ Range(ready') = (Range(ready) \ {r}) \cup Released(r)
  <2>1. PICK order \in SetToSeqs(Released(r)) : ready' = Front(ready) \o order
    BY <1>1
  <2>2. order \in Seq(Released(r)) /\ Range(order) = Released(r) /\ IsInjective(order)
    BY <1>9, Ordered
  <2>3. order \in Seq(References)
    BY <1>9, <2>2
  <2>4. Range(Front(ready)) \cap Range(order) = {}
    BY <1>3, <1>9, <2>2
  <2>. QED BY <1>3, <2>1, <2>2, <2>3, <2>4, Concatenated
<1>11. NoCycleVisited'
  <2>. SUFFICES ASSUME NEW S \in SUBSET References, \A d \in S : Dependencies(d) \cap S # {}
                PROVE  S \cap Range(visited') = {}
    BY <1>2 DEF NoCycleVisited
  <2>1. S \cap Range(visited) = {}
    BY <1>1 DEF Traversal, NoCycleVisited
  <2>. QED BY <1>6, <1>7, <2>1
<1>12. remaining' \in [References -> Nat]
  <2>1. DOMAIN remaining = References
    BY <1>1 DEF Traversal
  <2>. QED BY <1>1, <1>8, <2>1
<1>13. Range(ready') \cap Range(visited') = {}
       /\ Range(ready') \cup Range(visited') = before \cup Released(r)
  BY <1>1, <1>3, <1>4, <1>7, <1>9, <1>10 DEF Traversal
<1>14. Traversal'
  BY <1>1, <1>2, <1>7, <1>8, <1>9, <1>10, <1>11, <1>12, <1>13 DEF Traversal
<1>. QED BY <1>1, <1>2, <1>14, InputsAssumption DEF GraphInv, Traversal, InputsAssumption, PlanningErrors

\* Nodes left over when nothing is ready depend on each other; and what
\* follows the traversal never calls a refusal of the daemon a cycle.
LEMMA AdmitInv == GraphInv /\ Admit => GraphInv'
<1>. SUFFICES ASSUME GraphInv, Admit PROVE GraphInv'
  OBVIOUS
<1>1. /\ UNCHANGED <<input, remaining, ready, visited>> /\ state = "traverse" /\ ready = <<>>
      /\ Traversal /\ Sound /\ error = None /\ input \in Inputs
      /\ IF AdmissionError # None THEN state' = "failed" /\ error' = AdmissionError
         ELSE state' = "built" /\ error' = error
  BY DEF GraphInv, Admit, Fail, Traversal, Sound
<1>2. Sound' /\ References' = References /\ \A d : Dependencies(d)' = Dependencies(d)
  BY <1>1, SameInput DEF Sound
<1>3. None \notin PlanningErrors
  BY InputsAssumption DEF InputsAssumption
<1>4. AdmissionError \notin {"InvalidDependency", "DependencyMismatch"}
  <2>1. \A s : Complaint(s) \in {"MissingCapability", "UnsupportedNetworkIpam", "RestrictedPort", ""}
    BY DEF Complaint, ResourceError
  <2>. QED BY <1>3, <2>1 DEF AdmissionError, FirstRefusal, PlanningErrors
<1>5. AdmissionError = "Cycle" <=> Len(visited) # Len(input.nodes)
  <2>1. \A s : Complaint(s) \in {"MissingCapability", "UnsupportedNetworkIpam", "RestrictedPort", ""}
    BY DEF Complaint, ResourceError
  <2>. QED BY <1>3, <2>1 DEF AdmissionError, FirstRefusal, PlanningErrors
<1>6. Len(visited) # Len(input.nodes) => Cyclic
  <2>. SUFFICES ASSUME Len(visited) # Len(input.nodes) PROVE Cyclic
    OBVIOUS
  <2> DEFINE left == References \ Range(visited)
  <2>1. left # {}
    <3>1. Cardinality(Range(visited)) = Len(visited) /\ Range(visited) \subseteq References
      BY <1>1, Elements DEF Traversal
    <3>2. Cardinality(References) = Len(input.nodes)
      BY <1>1, Structure
    <3>3. ASSUME left = {} PROVE FALSE
      <4>1. References = Range(visited)
        BY <3>1, <3>3
      <4>. QED BY <3>1, <3>2, <4>1
    <3>. QED BY <3>3
  <2>2. ASSUME NEW r \in left PROVE Dependencies(r) \cap left # {}
    <3>1. Range(ready) = {}
      BY <1>1 DEF Range
    <3>2. remaining[r] # 0 /\ remaining[r] = Cardinality(Dependencies(r) \ Range(visited))
      BY <1>1, <3>1 DEF Traversal
    <3>3. Dependencies(r) \ Range(visited) # {}
      BY <3>2, FS_EmptySet
    <3>4. Dependencies(r) \subseteq References
      BY <1>1, Structure
    <3>. QED BY <3>3, <3>4
  <2>. QED BY <2>1, <2>2 DEF Cyclic
<1>7. Cyclic' = Cyclic
  BY <1>2 DEF Cyclic
<1>8. CASE AdmissionError # None
  BY <1>1, <1>2, <1>4, <1>5, <1>6, <1>7, <1>8, <1>3 DEF GraphInv, PlanningErrors, Sound
<1>9. CASE AdmissionError = None
  <2>1. Traversal'
    BY <1>1, <1>2, <1>9 DEF Traversal, NoCycleVisited
  <2>2. Len(visited) = Len(input.nodes)
    BY <1>3, <1>5, <1>9 DEF PlanningErrors
  <2>. QED BY <1>1, <1>3, <1>9, <2>1, <2>2 DEF GraphInv, PlanningErrors, Sound
<1>. QED BY <1>8, <1>9

\* GraphInv is inductive.
LEMMA GraphInit == Init => GraphInv
  BY InputsAssumption DEF Init, GraphInv, InputsAssumption, PlanningErrors

\* Every step of the planner keeps its part of the invariant.
LEMMA GraphStep == GraphInv /\ [Next]_vars => GraphInv'
<1>. SUFFICES ASSUME GraphInv, [Next]_vars PROVE GraphInv'
  OBVIOUS
<1>1. CASE Next
  BY <1>1, ValidateInv, VisitInv, AdmitInv DEF Next
<1>2. CASE UNCHANGED vars
  <2>1. /\ StructureError' = StructureError /\ References' = References
        /\ \A d : Dependencies(d)' = Dependencies(d)
        /\ UNCHANGED <<input, state, remaining, ready, visited, error>>
    BY <1>2, SameInput DEF vars
  <2>2. Cyclic' = Cyclic /\ NoCycleVisited' = NoCycleVisited
    BY <2>1 DEF Cyclic, NoCycleVisited
  <2>3. Traversal' = Traversal /\ Sound' = Sound
    BY <2>1, <2>2 DEF Traversal, Sound
  <2>. QED BY <2>1, <2>2, <2>3 DEF GraphInv
<1>. QED BY <1>1, <1>2

\* When every node was visited none is on a cycle.
LEMMA BuiltAcyclic == GraphInv /\ state = "built" => ~Cyclic
<1>. SUFFICES ASSUME GraphInv, state = "built" PROVE ~Cyclic
  OBVIOUS
<1>1. /\ Traversal /\ Len(visited) = Len(input.nodes) /\ Sound
  BY DEF GraphInv, Traversal
<1>2. Cardinality(Range(visited)) = Len(visited) /\ Range(visited) \subseteq References
  BY <1>1, Elements DEF Traversal
<1>3. Cardinality(References) = Len(input.nodes) /\ IsFiniteSet(References)
  BY <1>1, Structure, FewReferences DEF Sound
<1>4. Range(visited) = References
  BY <1>1, <1>2, <1>3, FS_Subset
<1>. QED BY <1>1, <1>4 DEF Cyclic, Traversal, NoCycleVisited

\* GraphInv implies what Graph states of its counters and of cycles.
LEMMA GraphSafe == GraphInv => CountersExact /\ CycleIsReal
<1>. SUFFICES ASSUME GraphInv PROVE CountersExact /\ CycleIsReal
  OBVIOUS
<1>1. CountersExact
  BY Counted DEF GraphInv, CountersExact
<1>2. CycleIsReal
  BY BuiltAcyclic DEF GraphInv, CycleIsReal
<1>. QED BY <1>1, <1>2

(***************************************************************************)
(* DockerPlanner's nodes.                                                  *)
(***************************************************************************)

\* The dependencies derived from a list of names are the names, whatever was
\* listed twice.
LEMMA DependsOnNames ==
  ASSUME NEW S, NEW named \in Seq(Seq(S))
  PROVE  /\ DependsOn(named) \in Seq(S)
         /\ \A x : x \in Range(DependsOn(named)) <=> \E i \in DOMAIN named : x \in Range(named[i])
<1> DEFINE Body(f, n) == IF n = 0 THEN <<>>
                         ELSE IF Range(named[n]) \subseteq Range(f[n - 1]) THEN f[n - 1]
                         ELSE f[n - 1] \o named[n]
           Fills(f, m) == f = [n \in 0 .. m |-> Body(f, n)]
           taken == CHOOSE f : Fills(f, Len(named))
<1>1. Len(named) \in Nat /\ DOMAIN named = 1 .. Len(named)
      /\ \A i \in 1 .. Len(named) : named[i] \in Seq(S)
  OBVIOUS
<1>2. \E f : Fills(f, Len(named))
  <2> DEFINE T == {m \in Nat : \E f : Fills(f, m)}
  <2>1. 0 \in T
    <3> DEFINE f == [n \in 0 .. 0 |-> <<>>]
    <3>1. f = [n \in 0 .. 0 |-> Body(f, n)]
      OBVIOUS
    <3>. QED BY <3>1
  <2>2. ASSUME NEW m \in Nat, m \in T PROVE m + 1 \in T
    <3>1. PICK f : Fills(f, m)
      BY <2>2
    <3> DEFINE g == [n \in 0 .. m + 1 |-> IF n = m + 1 THEN Body(f, n) ELSE f[n]]
    <3>2. ASSUME NEW n \in 0 .. m + 1 PROVE g[n] = Body(g, n)
      <4>1. n # 0 => n - 1 \in 0 .. m /\ g[n - 1] = f[n - 1]
        BY <3>2
      <4>2. n # m + 1 => n \in 0 .. m /\ f[n] = Body(f, n)
        <5>. SUFFICES ASSUME n # m + 1 PROVE n \in 0 .. m /\ f[n] = Body(f, n)
          OBVIOUS
        <5>1. n \in 0 .. m
          BY <3>2
        <5>. QED BY <3>1, <5>1
      <4>3. Body(g, n) = Body(f, n)
        BY <4>1
      <4>. QED BY <4>2, <4>3
    <3> HIDE DEF Body
    <3>3. Fills(g, m + 1)
      BY <3>2
    <3> HIDE DEF g, Fills
    <3>. QED BY <3>3
  <2> HIDE DEF T
  <2>3. Len(named) \in T
    BY <1>1, <2>1, <2>2, Induction
  <2>. QED BY <2>3 DEF T
<1>3. taken = [n \in 0 .. Len(named) |-> Body(taken, n)]
  BY <1>2
<1>4. DependsOn(named) = taken[Len(named)]
  BY DEF DependsOn
<1> HIDE DEF taken
<1> DEFINE Good(n) == /\ taken[n] \in Seq(S)
                      /\ \A x : x \in Range(taken[n]) <=> \E i \in 1 .. n : x \in Range(named[i])
           T == {n \in Nat : n <= Len(named) => Good(n)}
<1>5. 0 \in T
  <2>1. taken[0] = <<>>
    BY <1>1, <1>3
  <2>2. Range(taken[0]) = {} /\ taken[0] \in Seq(S)
    BY <2>1 DEF Range
  <2>3. Good(0)
    BY <2>2
  <2>. QED BY <2>3
<1>6. ASSUME NEW n \in Nat, n \in T PROVE n + 1 \in T
  <2>. SUFFICES ASSUME n + 1 <= Len(named) PROVE Good(n + 1)
    OBVIOUS
  <2>1. n \in 0 .. Len(named) /\ n + 1 \in 0 .. Len(named) /\ n + 1 # 0 /\ (n + 1) - 1 = n
        /\ named[n + 1] \in Seq(S)
    BY <1>1
  <2>2. Good(n)
    BY <1>1, <1>6
  <2>3. taken[n + 1] = IF Range(named[n + 1]) \subseteq Range(taken[n]) THEN taken[n]
                       ELSE taken[n] \o named[n + 1]
    <3>1. taken[n + 1] = Body(taken, n + 1)
      BY <1>3, <2>1
    <3>. QED BY <2>1, <3>1
  <2>4. taken[n + 1] \in Seq(S) /\ Range(taken[n + 1]) = Range(taken[n]) \cup Range(named[n + 1])
    <3>1. CASE Range(named[n + 1]) \subseteq Range(taken[n])
      BY <2>2, <2>3, <3>1
    <3>2. CASE ~(Range(named[n + 1]) \subseteq Range(taken[n]))
      BY <2>1, <2>2, <2>3, <3>2, Concatenated
    <3>. QED BY <3>1, <3>2
  <2>5. \A i : i \in 1 .. n + 1 <=> i \in 1 .. n \/ i = n + 1
    OBVIOUS
  <2>. QED BY <2>2, <2>4, <2>5
<1> HIDE DEF T
<1>7. Len(named) \in T
  BY <1>1, <1>5, <1>6, Induction
<1>. QED BY <1>1, <1>4, <1>7 DEF T

\* What a resource's attachments and volume mounts name, in one list of lists.
LEMMA NamedRequired ==
  ASSUME input \in Inputs, NEW s \in Resources
  PROVE  \A x : x \in Range(DependsOn(Named(s))) <=> \E q \in Required(s) : q.ref = x
<1>1. CASE s.kind # "Container"
  <2>1. Networks(s) = <<>> /\ Volumes(s) = <<>>
    BY <1>1 DEF Networks, Volumes
  <2>2. Required(s) = {}
    BY <2>1 DEF Required, Range
  <2> DEFINE none == [i \in DOMAIN Networks(s) |-> <<Networks(s)[i]>>]
  <2>3. none = <<>>
    BY <2>1
  <2>4. Named(s) = <<>>
    BY <2>1, <2>3 DEF Named
  <2>5. DOMAIN Named(s) = {} /\ Named(s) \in Seq(Seq({}))
    BY <2>4
  <2>6. \A x : x \in Range(DependsOn(Named(s))) <=> \E i \in DOMAIN Named(s) : x \in Range(Named(s)[i])
    BY <2>5, DependsOnNames
  <2>. QED BY <2>2, <2>5, <2>6
<1>2. CASE s.kind = "Container"
  <2> DEFINE N == Networks(s)
             V == Volumes(s)
             names == {q.ref : q \in Required(s)}
             A == [i \in DOMAIN N |-> <<N[i]>>]
  <2>1. /\ s.networks \in Seq(Range(s.networks)) /\ s.mounts \in Seq(Range(s.mounts))
        /\ N = [i \in DOMAIN s.networks |-> s.networks[i].network]
        /\ V = [i \in DOMAIN s.mounts |->
                  IF s.mounts[i].type = "volume" THEN <<s.mounts[i].source>> ELSE <<>>]
    BY <1>2, Arguments DEF Networks, Volumes
  <2>2. /\ DOMAIN N = 1 .. Len(s.networks) /\ Len(s.networks) \in Nat
        /\ DOMAIN V = 1 .. Len(s.mounts) /\ Len(s.mounts) \in Nat
    BY <2>1
  <2>3. \A x : x \in names <=> (\/ \E i \in DOMAIN N : x = N[i]
                                \/ \E i \in DOMAIN V : x \in Range(V[i]))
    <3>1. \A x : x \in Range(N) <=> \E i \in DOMAIN N : x = N[i]
      BY DEF Range
    <3>2. \A x : x \in UNION {Range(o) : o \in Range(V)} <=> \E i \in DOMAIN V : x \in Range(V[i])
      BY DEF Range
    <3> DEFINE U == UNION {Range(o) : o \in Range(V)}
    <3>3. \A q : q \in Required(s) <=> \/ \E n \in Range(N) : q = [ref |-> n, kind |-> "Network"]
                                       \/ \E v \in U : q = [ref |-> v, kind |-> "Volume"]
      BY DEF Required
    <3> HIDE DEF N, V, U
    <3>4. \A x \in Range(N) : x \in names
      <4>1. ASSUME NEW x \in Range(N) PROVE x \in names
        <5>1. [ref |-> x, kind |-> "Network"] \in Required(s)
          BY <3>3
        <5>. QED BY <5>1
      <4>. QED BY <4>1
    <3>5. \A x \in U : x \in names
      <4>1. ASSUME NEW x \in U PROVE x \in names
        <5>1. [ref |-> x, kind |-> "Volume"] \in Required(s)
          BY <3>3
        <5>. QED BY <5>1
      <4>. QED BY <4>1
    <3>6. \A x \in names : x \in Range(N) \/ x \in U
      BY <3>3
    <3>. QED BY <3>1, <3>2, <3>4, <3>5, <3>6 DEF U
  <2>4. A \in Seq(Seq(names)) /\ V \in Seq(Seq(names))
    <3>1. \A i \in DOMAIN N : A[i] = <<N[i]>> /\ N[i] \in names
      BY <2>3
    <3>2. \A i \in DOMAIN N : A[i] \in Seq(names)
      <4>1. \A x \in names : <<x>> \in Seq(names)
        OBVIOUS
      <4>. QED BY <3>1, <4>1
    <3>3. ASSUME NEW i \in DOMAIN V PROVE V[i] \in Seq(names)
      <4>1. CASE V[i] = <<>>
        BY <4>1
      <4>2. CASE V[i] = <<s.mounts[i].source>>
        <5>1. s.mounts[i].source \in Range(V[i])
          BY <4>2 DEF Range
        <5>2. s.mounts[i].source \in names
          BY <2>3, <5>1
        <5>. QED BY <4>2, <5>2
      <4>. QED BY <2>1, <4>1, <4>2
    <3>4. A = [i \in 1 .. Len(s.networks) |-> A[i]] /\ V = [i \in 1 .. Len(s.mounts) |-> V[i]]
      BY <2>1, <2>2
    <3>5. \A n \in Nat : \A f : (\A i \in 1 .. n : f[i] \in Seq(names)) => [i \in 1 .. n |-> f[i]] \in Seq(Seq(names))
      OBVIOUS
    <3> HIDE DEF N, V, A, names
    <3>. QED BY <2>2, <3>2, <3>3, <3>4, <3>5
  <2>5. Named(s) = A \o V
    BY DEF Named
  <2>6. Named(s) \in Seq(Seq(names)) /\ Range(Named(s)) = Range(A) \cup Range(V)
    BY <2>4, <2>5, Concatenated
  <2>7. \A x : x \in Range(DependsOn(Named(s))) <=> \E i \in DOMAIN Named(s) : x \in Range(Named(s)[i])
    BY <2>6, DependsOnNames
  <2>8. \A x : (\E i \in DOMAIN Named(s) : x \in Range(Named(s)[i]))
               <=> \E o \in Range(Named(s)) : x \in Range(o)
    BY DEF Range
  <2>9. \A x : (\E o \in Range(A) : x \in Range(o)) <=> \E i \in DOMAIN N : x = N[i]
    <3>1. \A x, y : x \in Range(<<y>>) <=> x = y
      BY DEF Range
    <3>2. \A o : o \in Range(A) <=> \E i \in DOMAIN N : o = <<N[i]>>
      BY DEF Range
    <3> HIDE DEF N, A
    <3>. QED BY <3>1, <3>2
  <2>10. \A x : (\E o \in Range(V) : x \in Range(o)) <=> \E i \in DOMAIN V : x \in Range(V[i])
    BY DEF Range
  <2>11. \A x : x \in names <=> \E q \in Required(s) : q.ref = x
    OBVIOUS
  <2> HIDE DEF N, V, names, A
  <2>. QED BY <2>3, <2>6, <2>7, <2>8, <2>9, <2>10, <2>11
<1>. QED BY <1>1, <1>2

\* DockerPlanner's nodes are sound when every name is that of a resource of
\* the kind named, and no network or volume depends on anything.
LEMMA PlannerSound ==
  ASSUME input \in Inputs, Resolves, input.nodes = PlannerNodes(input.resources)
  PROVE  Sound /\ ~Cyclic
<1>1. /\ DOMAIN input.nodes = DOMAIN input.resources
      /\ \A i \in DOMAIN input.resources : input.nodes[i] = PlannerNode(input.resources[i])
      /\ input.resources \in Seq(Resources) /\ input.nodes \in Seq(Nodes)
  BY Arguments DEF PlannerNodes
<1>2. Len(input.nodes) = Len(input.resources)
  BY <1>1
<1>3. Nodes = {PlannerNode(s) : s \in Resources}
  BY <1>1 DEF Nodes, Resources, Range
<1>4. \A s : /\ PlannerNode(s).resource = s.ref /\ PlannerNode(s).kind = s.kind
             /\ PlannerNode(s).action = Action(s)
             /\ PlannerNode(s).depends_on = DependsOn(Named(s))
  BY DEF PlannerNode
<1>5. References = {s.ref : s \in Resources}
  BY <1>3, <1>4 DEF References
<1>6. Cardinality(References) = Len(input.nodes)
  BY <1>2, <1>5, Numbered
<1>7. ASSUME NEW s \in Resources, NEW x
      PROVE  x \in Dependencies(s.ref) <=> \E q \in Required(s) : q.ref = x
  <2>1. \A n \in Nodes : n.resource = s.ref <=> n = PlannerNode(s)
    BY <1>3, <1>4, OneResource
  <2>2. {m \in Nodes : m.resource = s.ref} = {PlannerNode(s)}
    BY <1>3, <2>1
  <2>3. Dependencies(s.ref) = Range(DependsOn(Named(s)))
    BY <1>4, <2>2 DEF Dependencies
  <2>. QED BY <2>3, NamedRequired
<1>8. ASSUME NEW s \in Resources, NEW x \in Dependencies(s.ref)
      PROVE  x \in References /\ x # s.ref /\ Dependencies(x) = {}
  <2>1. PICK q \in Required(s) : q.ref = x
    BY <1>7
  <2>2. PICK t \in Resources : t.ref = x /\ t.kind = q.kind
    BY <2>1 DEF Resolves
  <2>3. s.kind = "Container" /\ q.kind \in {"Network", "Volume"}
    <3>1. s.kind # "Container" => Networks(s) = <<>> /\ Volumes(s) = <<>>
      BY DEF Networks, Volumes
    <3>2. Range(<<>>) = {}
      BY DEF Range
    <3>. QED BY <2>1, <3>1, <3>2 DEF Required
  <2>4. Required(t) = {}
    <3>1. Networks(t) = <<>> /\ Volumes(t) = <<>>
      BY <2>2, <2>3 DEF Networks, Volumes
    <3>. QED BY <3>1 DEF Required, Range
  <2>. QED BY <1>5, <1>7, <2>2, <2>3, <2>4
<1>9. WellFormed
  <2>1. \A n \in Nodes : \E s \in Resources : s.ref = n.resource /\ s.kind = n.kind /\ Action(s) = n.action
    BY <1>3, <1>4
  <2>2. \A n \in Nodes : Range(n.depends_on) \subseteq Dependencies(n.resource)
    BY DEF Dependencies
  <2>3. \A n \in Nodes : Range(n.depends_on) \subseteq References \ {n.resource}
    BY <1>3, <1>4, <1>8, <2>2
  <2>. QED BY <1>2, <1>6, <2>1, <2>3 DEF WellFormed
<1>10. \A s \in Resources : Satisfied(s)
  BY <1>7 DEF Satisfied, Resolves
<1>11. Sound
  BY <1>9, <1>10 DEF Sound, StructureError
<1>12. ~Cyclic
  <2>1. SUFFICES ASSUME NEW S \in SUBSET References, S # {}, \A r \in S : Dependencies(r) \cap S # {}
                 PROVE  FALSE
    BY DEF Cyclic
  <2>2. PICK r \in S : TRUE
    BY <2>1
  <2>3. PICK d \in S : d \in Dependencies(r)
    BY <2>1, <2>2
  <2>4. Dependencies(d) = {}
    BY <1>5, <1>8, <2>3
  <2>. QED BY <2>1, <2>4
<1>. QED BY <1>11, <1>12

\* GraphInv implies that what the planner derives is never refused as unsound
\* or cyclic.
LEMMA PlannerSafe == GraphInv => PlannerNeverRefused
  BY PlannerSound DEF GraphInv, PlannerNeverRefused, Sound

(***************************************************************************)
(* The renderer.                                                           *)
(***************************************************************************)

\* The resources whose output has begun.
Begun == emitted \cup ({current} \ {None})

Progress ==
  /\ emitted \subseteq References
  /\ current \in (References \ emitted) \cup {None}
  /\ \A r \in Begun : Dependencies(r) \subseteq emitted
  /\ rendered \in {None, "Ok"}
  /\ rendered = "Ok" => emitted = References /\ current = None

\* What was written is what begun resources ask for, each request once.
Written ==
  /\ requests \in Seq(Range(requests)) /\ IsInjective(requests)
  /\ \A step \in Range(requests) : \E s \in Resources :
       s.ref \in Begun /\ ((step = <<s.ref, 0>> /\ ~s.external) \/ step \in Connections(s))
  /\ \A s \in Resources : s.ref \in Begun /\ ~s.external => <<s.ref, 0>> \in Range(requests)
  /\ \A s \in Resources : s.ref \in emitted => Connections(s) \subseteq Range(requests)

\* How many of a list of prerequisites are one resource's.
Count(p, x) == Cardinality({i \in DOMAIN p : p[i].resource = x})

Reserved ==
  /\ prerequisites \in Seq(Range(prerequisites))
  /\ \A p \in Range(prerequisites) : \E s \in Resources :
       s.ref \in Begun /\ p \in Range(Prerequisites(s))
  /\ \A s \in Resources : s.ref \in Begun => Range(Prerequisites(s)) \subseteq Range(prerequisites)
  /\ \A s \in Resources :
       Count(prerequisites, s.ref) = IF s.ref \in Begun THEN Len(Prerequisites(s)) ELSE 0

Unwritten ==
  /\ emitted = {} /\ current = None /\ rendered = None
  /\ requests = <<>> /\ prerequisites = <<>>

RenderInv ==
  /\ GraphInv
  /\ state # "built" => Unwritten
  /\ Progress /\ Written /\ Reserved

\* One node for each reference.
LEMMA OneNode ==
  ASSUME Sound, NEW i \in DOMAIN input.nodes
  PROVE  Dependencies(input.nodes[i].resource) = Range(input.nodes[i].depends_on)
<1>1. input.nodes \in Seq(Nodes) /\ Len(input.nodes) \in Nat
      /\ DOMAIN input.nodes = 1 .. Len(input.nodes)
  BY Arguments DEF Sound
<1> DEFINE f == [k \in 1 .. Len(input.nodes) |-> input.nodes[k].resource]
<1>2. f \in [1 .. Len(input.nodes) -> References]
  BY <1>1 DEF References
<1>3. \A r \in References : \E k \in 1 .. Len(input.nodes) : f[k] = r
  BY <1>1 DEF References, Nodes, Range
<1>4. f \in Surjection(1 .. Len(input.nodes), References)
  BY <1>2, <1>3 DEF Surjection
<1>5. IsFiniteSet(1 .. Len(input.nodes)) /\ Cardinality(1 .. Len(input.nodes)) = Len(input.nodes)
  BY <1>1, FS_Interval
<1>6. Cardinality(References) = Len(input.nodes)
  BY Structure
<1>7. f \in Injection(1 .. Len(input.nodes), References)
  BY <1>4, <1>5, <1>6, FS_Surjection
<1>8. \A k \in DOMAIN input.nodes : input.nodes[k].resource = input.nodes[i].resource => k = i
  BY <1>1, <1>7 DEF Injection, IsInjective
<1>9. {m \in Nodes : m.resource = input.nodes[i].resource} = {input.nodes[i]}
  BY <1>8 DEF Nodes, Range
<1>. QED BY <1>9 DEF Dependencies

\* As long as a graph without a cycle has nodes left, one of them may be emitted.
LEMMA NextFound ==
  ASSUME Sound, ~Cyclic, emitted \subseteq References, emitted # References
  PROVE  /\ NextNode \in References \ emitted /\ NextNode # None
         /\ Dependencies(NextNode) \subseteq emitted
<1>1. PICK r \in References \ emitted : Dependencies(r) \cap (References \ emitted) = {}
  BY DEF Cyclic
<1>2. Dependencies(r) \subseteq emitted
  BY <1>1, Structure
<1>3. PICK k \in DOMAIN input.nodes : input.nodes[k].resource = r
  BY DEF References, Nodes, Range
<1>4. k \in Emittable
  BY <1>1, <1>2, <1>3, OneNode DEF Emittable
<1>5. Emittable \in SUBSET Nat
  <2>1. DOMAIN input.nodes = 1 .. Len(input.nodes)
    BY Arguments DEF Sound
  <2>. QED BY <2>1 DEF Emittable
<1> DEFINE first == CHOOSE i \in Emittable : \A j \in Emittable : i <= j
<1>6. first \in Emittable
  BY <1>4, <1>5, LeastElement
<1>7. NextNode = input.nodes[first].resource
  BY <1>4 DEF NextNode
<1> HIDE DEF first
<1>8. NextNode \in References \ emitted
  BY <1>6, <1>7 DEF Emittable, References, Nodes, Range
<1>9. Dependencies(NextNode) \subseteq emitted
  BY <1>6, <1>7, OneNode DEF Emittable
<1>. QED BY <1>8, <1>9, Structure

\* The prerequisites of one resource.
LEMMA OwnPrerequisites ==
  ASSUME input \in Inputs, NEW s \in Resources
  PROVE  /\ Prerequisites(s) \in Seq(Range(Prerequisites(s)))
         /\ Len(Prerequisites(s)) = IF s.external THEN 1 ELSE Cardinality(Relabelled(s))
         /\ Len(Prerequisites(s)) \in Nat
         /\ \A i \in DOMAIN Prerequisites(s) : Prerequisites(s)[i].resource = s.ref
         /\ \A p \in Range(Prerequisites(s)) : p.kind # "BindSource" => s.external
         /\ s.external => \E p \in Range(Prerequisites(s)) : p.kind # "BindSource" /\ p.resource = s.ref
<1>1. s.external \in BOOLEAN /\ s.kind \in {"Container", "Network", "Volume"}
      /\ (s.kind = "Container" => s.mounts \in Seq(Range(s.mounts)))
  BY Arguments
<1>2. CASE s.external
  <2>1. Prerequisites(s) = <<[kind |-> s.kind, resource |-> s.ref]>>
    BY <1>2 DEF Prerequisites
  <2>2. /\ DOMAIN Prerequisites(s) = {1} /\ Len(Prerequisites(s)) = 1
        /\ Prerequisites(s)[1] = [kind |-> s.kind, resource |-> s.ref]
    BY <2>1
  <2>3. Range(Prerequisites(s)) = {[kind |-> s.kind, resource |-> s.ref]}
    BY <2>2 DEF Range
  <2>. QED BY <1>1, <1>2, <2>1, <2>2, <2>3
<1>3. CASE ~s.external
  <2>1. IsFiniteSet(Relabelled(s))
    <3>1. CASE s.kind # "Container"
      BY <3>1, FS_EmptySet DEF Relabelled
    <3>2. CASE s.kind = "Container"
      <4>1. DOMAIN s.mounts = 1 .. Len(s.mounts) /\ Len(s.mounts) \in Nat
        BY <1>1, <3>2
      <4>2. Relabelled(s) \in SUBSET (1 .. Len(s.mounts)) /\ IsFiniteSet(1 .. Len(s.mounts))
        BY <3>2, <4>1, FS_Interval DEF Relabelled
      <4>. QED BY <4>2, FS_Subset
    <3>. QED BY <3>1, <3>2
  <2>2. Cardinality(Relabelled(s)) \in Nat
    BY <2>1, FS_CardinalityType
  <2>3. Prerequisites(s) = [i \in 1 .. Cardinality(Relabelled(s)) |->
                              [kind |-> "BindSource", resource |-> s.ref]]
    BY <1>3 DEF Prerequisites
  <2>4. \A p \in Range(Prerequisites(s)) : p = [kind |-> "BindSource", resource |-> s.ref]
    BY <2>3 DEF Range
  <2>5. Prerequisites(s) \in Seq(Range(Prerequisites(s)))
    <3>1. \A i \in 1 .. Cardinality(Relabelled(s)) : Prerequisites(s)[i] \in Range(Prerequisites(s))
      BY <2>3 DEF Range
    <3>. QED BY <2>2, <2>3, <3>1
  <2>6. \A p \in Range(Prerequisites(s)) : p.kind = "BindSource"
    BY <2>4
  <2>7. /\ Len(Prerequisites(s)) = Cardinality(Relabelled(s))
        /\ \A i \in DOMAIN Prerequisites(s) : Prerequisites(s)[i].resource = s.ref
    BY <2>2, <2>3
  <2>. QED BY <1>3, <2>2, <2>5, <2>6, <2>7
<1>. QED BY <1>1, <1>2, <1>3

\* How many entries are a resource's, after another one's were added.
LEMMA CountAdded ==
  ASSUME NEW p, NEW t, p \in Seq(Range(p)), t \in Seq(Range(t)), NEW r, NEW x,
         \A j \in DOMAIN t : t[j].resource = r,
         Count(p, r) = 0
  PROVE  Count(p \o t, x) = IF x = r THEN Len(t) ELSE Count(p, x)
<1> DEFINE all == {i \in DOMAIN (p \o t) : (p \o t)[i].resource = x}
           old == {i \in DOMAIN p : p[i].resource = x}
<1>1. /\ Len(p) \in Nat /\ Len(t) \in Nat /\ DOMAIN p = 1 .. Len(p) /\ DOMAIN t = 1 .. Len(t)
      /\ DOMAIN (p \o t) = 1 .. Len(p) + Len(t)
      /\ \A i \in 1 .. Len(p) : (p \o t)[i] = p[i]
      /\ \A i \in Len(p) + 1 .. Len(p) + Len(t) : (p \o t)[i] = t[i - Len(p)]
  <2>1. p \in Seq(Range(p) \cup Range(t)) /\ t \in Seq(Range(p) \cup Range(t))
    OBVIOUS
  <2>. QED BY <2>1
<1>2. \A i \in Len(p) + 1 .. Len(p) + Len(t) : (p \o t)[i].resource = r
  <2>1. \A i \in Len(p) + 1 .. Len(p) + Len(t) : i - Len(p) \in DOMAIN t
    BY <1>1
  <2>. QED BY <1>1, <2>1
<1>3. CASE x = r
  <2>1. IsFiniteSet(old) /\ old = {}
    <3>1. IsFiniteSet(DOMAIN p) /\ old \in SUBSET DOMAIN p
      BY <1>1, FS_Interval
    <3>. QED BY <1>3, <3>1, FS_Subset, FS_EmptySet DEF Count
  <2>2. all = Len(p) + 1 .. Len(p) + Len(t)
    BY <1>1, <1>2, <1>3, <2>1
  <2>3. Cardinality(Len(p) + 1 .. Len(p) + Len(t)) = Len(t)
    <3>1. Len(p) + 1 \in Int /\ Len(p) + Len(t) \in Int
      BY <1>1
    <3>2. Cardinality(Len(p) + 1 .. Len(p) + Len(t))
            = IF Len(p) + 1 > Len(p) + Len(t) THEN 0 ELSE (Len(p) + Len(t)) - (Len(p) + 1) + 1
      BY <3>1, FS_Interval
    <3>. QED BY <1>1, <3>2
  <2>. QED BY <1>3, <2>2, <2>3 DEF Count
<1>4. CASE x # r
  <2>1. all = old
    BY <1>1, <1>2, <1>4
  <2>. QED BY <1>4, <2>1 DEF Count
<1>. QED BY <1>3, <1>4

\* The steps that connect a resource are its own, and none is its own request.
LEMMA ConnectionSteps ==
  ASSUME NEW s, NEW step \in Connections(s)
  PROVE  step[1] = s.ref /\ step[2] # 0
<1>1. PICK i \in 2 .. Len(Networks(s)) : step = <<s.ref, i - 1>>
  BY DEF Connections
<1>2. i - 1 # 0
  BY <1>1
<1>. QED BY <1>1, <1>2

\* The resource of a reference.
LEMMA ReferredTo ==
  ASSUME Sound, NEW r \in References
  PROVE  /\ Resource(r) \in Resources /\ Resource(r).ref = r
         /\ \A s \in Resources : s.ref = r => s = Resource(r)
<1>1. PICK s \in Resources : s.ref = r
  BY Structure
<1>. QED BY <1>1, OneResource DEF Sound

\* A built graph is sound and acyclic.
LEMMA Built == RenderInv /\ state = "built" => Sound /\ ~Cyclic
  BY BuiltAcyclic DEF RenderInv, GraphInv, Traversal

\* Emitting a node: what was emitted already is untouched, and the node's own
\* request or prerequisites are new.
LEMMA EmitInv == RenderInv /\ Emit => RenderInv'
<1>. SUFFICES ASSUME RenderInv, Emit PROVE RenderInv'
  OBVIOUS
<1> DEFINE r == NextNode
           s == Resource(r)
<1>1. /\ state = "built" /\ rendered = None /\ current = None /\ emitted # References
      /\ UNCHANGED vars /\ input' = input /\ state' = state /\ emitted' = emitted
      /\ emitted \subseteq References /\ Sound /\ ~Cyclic
  BY Built DEF Emit, Rendering, RenderInv, Progress, vars
<1>2. r \in References \ emitted /\ r # None /\ Dependencies(r) \subseteq emitted
  BY <1>1, NextFound
<1>3. /\ current' = r /\ rendered' = rendered
      /\ requests' = IF s.external THEN requests ELSE Append(requests, <<r, 0>>)
      /\ prerequisites' = prerequisites \o Prerequisites(s)
  BY <1>2 DEF Emit
<1>4. /\ s \in Resources /\ s.ref = r /\ \A t \in Resources : t.ref = r => t = s
      /\ s.external \in BOOLEAN
  BY <1>1, <1>2, ReferredTo, Arguments DEF Sound
<1>5. /\ Resources' = Resources /\ References' = References
      /\ \A d : Dependencies(d)' = Dependencies(d)
  BY <1>1, SameInput
<1>6. Begun = emitted /\ Begun' = emitted \cup {r}
  BY <1>1, <1>2, <1>3 DEF Begun
<1>7. GraphInv'
  BY <1>1, GraphStep DEF RenderInv
<1>8. Progress'
  BY <1>1, <1>2, <1>3, <1>5, <1>6, OutcomeAssumption DEF RenderInv, Progress, OutcomeAssumption
<1>9. Written'
  <2>1. /\ requests \in Seq(Range(requests)) /\ IsInjective(requests)
        /\ \A step \in Range(requests) : \E t \in Resources :
             t.ref \in Begun /\ ((step = <<t.ref, 0>> /\ ~t.external) \/ step \in Connections(t))
        /\ \A t \in Resources : t.ref \in Begun /\ ~t.external => <<t.ref, 0>> \in Range(requests)
        /\ \A t \in Resources : t.ref \in emitted => Connections(t) \subseteq Range(requests)
    BY DEF RenderInv, Written
  <2>2. CASE s.external
    <3>1. requests' = requests
      BY <1>3, <2>2
    <3>2. \A t \in Resources : t.ref \in Begun' /\ ~t.external => t.ref \in Begun
      BY <1>4, <1>6, <2>2
    <3>. QED BY <1>1, <1>5, <1>6, <2>1, <3>1, <3>2 DEF Written
  <2>3. CASE ~s.external
    <3> DEFINE step == <<r, 0>>
    <3>1. requests' = Append(requests, step)
      BY <1>3, <2>3
    <3>2. step \notin Range(requests)
      <4>. SUFFICES ASSUME step \in Range(requests) PROVE FALSE
        OBVIOUS
      <4>1. PICK t \in Resources :
              t.ref \in Begun /\ (step = <<t.ref, 0>> \/ step \in Connections(t))
        BY <2>1
      <4>2. t.ref # r
        BY <1>2, <1>6, <4>1
      <4>. QED BY <4>1, <4>2, ConnectionSteps
    <3> DEFINE W == Range(requests) \cup {step}
    <3>3. requests \in Seq(W) /\ step \in W
      BY <2>1
    <3>4. requests' \in Seq(W) /\ Range(requests') = W /\ IsInjective(requests')
      BY <2>1, <3>1, <3>2, <3>3, Appended
    <3>5. ASSUME NEW t \in Resources, t.ref \in Begun', ~t.external PROVE <<t.ref, 0>> \in W
      BY <1>6, <2>1, <3>5
    <3>6. ASSUME NEW q \in W
          PROVE  \E t \in Resources :
                   t.ref \in Begun' /\ ((q = <<t.ref, 0>> /\ ~t.external) \/ q \in Connections(t))
      BY <1>4, <1>6, <2>1, <2>3
    <3>. QED BY <1>1, <1>5, <2>1, <3>4, <3>5, <3>6 DEF Written
  <2>. QED BY <1>4, <2>2, <2>3
<1>10. Reserved'
  <2> DEFINE own == Prerequisites(s)
             W == Range(prerequisites) \cup Range(own)
  <2>1. /\ prerequisites \in Seq(Range(prerequisites))
        /\ \A p \in Range(prerequisites) : \E t \in Resources :
             t.ref \in Begun /\ p \in Range(Prerequisites(t))
        /\ \A t \in Resources : t.ref \in Begun => Range(Prerequisites(t)) \subseteq Range(prerequisites)
        /\ \A t \in Resources :
             Count(prerequisites, t.ref) = IF t.ref \in Begun THEN Len(Prerequisites(t)) ELSE 0
    BY DEF RenderInv, Reserved
  <2>2. /\ own \in Seq(Range(own)) /\ \A i \in DOMAIN own : own[i].resource = r
    BY <1>1, <1>4, OwnPrerequisites DEF Sound
  <2>3. prerequisites \in Seq(W) /\ own \in Seq(W)
    BY <2>1, <2>2
  <2>4. prerequisites' \in Seq(W) /\ Range(prerequisites') = W
    BY <1>3, <2>3, Concatenated
  <2>5. Count(prerequisites, r) = 0
    BY <1>2, <1>4, <1>6, <2>1
  <2>6. \A x : Count(prerequisites', x) = IF x = r THEN Len(own) ELSE Count(prerequisites, x)
    <3>1. prerequisites' = prerequisites \o own
      BY <1>3
    <3>2. ASSUME NEW x
          PROVE  Count(prerequisites \o own, x) = IF x = r THEN Len(own) ELSE Count(prerequisites, x)
      <4> HIDE DEF own, r
      <4>. QED BY <2>1, <2>2, <2>5, CountAdded
    <3>. QED BY <3>1, <3>2
  <2>7. ASSUME NEW t \in Resources
        PROVE  Count(prerequisites', t.ref) = IF t.ref \in Begun' THEN Len(Prerequisites(t)) ELSE 0
    <3>1. CASE t.ref = r
      BY <1>4, <1>6, <2>6, <3>1
    <3>2. CASE t.ref # r
      BY <1>6, <2>1, <2>6, <3>2
    <3>. QED BY <3>1, <3>2
  <2>8. ASSUME NEW p \in W
        PROVE  \E t \in Resources : t.ref \in Begun' /\ p \in Range(Prerequisites(t))
    BY <1>4, <1>6, <2>1
  <2>9. ASSUME NEW t \in Resources, t.ref \in Begun' PROVE Range(Prerequisites(t)) \subseteq W
    BY <1>4, <1>6, <2>1, <2>9
  <2> HIDE DEF own
  <2>. QED BY <1>5, <2>4, <2>7, <2>8, <2>9 DEF Reserved
<1>. QED BY <1>1, <1>7, <1>8, <1>9, <1>10 DEF RenderInv

\* One more connection of the node being emitted.
LEMMA ConnectInv == RenderInv /\ Connect => RenderInv'
<1>. SUFFICES ASSUME RenderInv, Connect PROVE RenderInv'
  OBVIOUS
<1>1. PICK step \in Unconnected : requests' = Append(requests, step)
  BY DEF Connect
<1>2. /\ state = "built" /\ current # None /\ Sound
      /\ UNCHANGED <<vars, input, state, emitted, current, prerequisites, rendered>>
  BY Built DEF Connect, Rendering, vars
<1>3. step \in Connections(Resource(current)) /\ step \notin Range(requests)
  BY <1>1 DEF Unconnected
<1>4. /\ current \in Begun /\ current \in References
      /\ Resource(current) \in Resources /\ Resource(current).ref = current
  BY <1>2, ReferredTo DEF RenderInv, Progress, Begun
<1>5. /\ Resources' = Resources /\ References' = References /\ Begun' = Begun
      /\ \A d : Dependencies(d)' = Dependencies(d)
  BY <1>2, SameInput DEF Begun
<1>6. GraphInv'
  BY <1>2, GraphStep DEF RenderInv
<1>7. Progress' /\ Reserved'
  BY <1>2, <1>5 DEF RenderInv, Progress, Reserved
<1>8. Written'
  <2> DEFINE W == Range(requests) \cup {step}
  <2>1. requests \in Seq(W) /\ step \in W /\ IsInjective(requests)
    BY DEF RenderInv, Written
  <2>2. requests' \in Seq(W) /\ Range(requests') = W /\ IsInjective(requests')
    BY <1>1, <1>3, <2>1, Appended
  <2>3. ASSUME NEW q \in W
        PROVE  \E t \in Resources :
                 t.ref \in Begun /\ ((q = <<t.ref, 0>> /\ ~t.external) \/ q \in Connections(t))
    BY <1>3, <1>4 DEF RenderInv, Written
  <2>. QED BY <1>2, <1>5, <2>2, <2>3 DEF RenderInv, Written
<1>. QED BY <1>2, <1>6, <1>7, <1>8 DEF RenderInv

\* A node with all its connections written counts as emitted.
LEMMA EmittedInv == RenderInv /\ Emitted => RenderInv'
<1>. SUFFICES ASSUME RenderInv, Emitted PROVE RenderInv'
  OBVIOUS
<1>1. /\ state = "built" /\ rendered = None /\ current # None /\ Sound /\ Unconnected = {}
      /\ UNCHANGED <<vars, input, state, requests, prerequisites, rendered>>
      /\ emitted' = emitted \cup {current} /\ current' = None
  BY Built DEF Emitted, Rendering, vars
<1>2. /\ current \in References \ emitted
      /\ \A t \in Resources : t.ref = current => t = Resource(current)
  BY <1>1, ReferredTo DEF RenderInv, Progress
<1>3. /\ Resources' = Resources /\ References' = References
      /\ \A d : Dependencies(d)' = Dependencies(d)
  BY <1>1, SameInput
<1>4. Begun' = Begun
  BY <1>1 DEF Begun
<1>5. GraphInv'
  BY <1>1, GraphStep DEF RenderInv
<1>6. Progress'
  BY <1>1, <1>2, <1>3, <1>4, OutcomeAssumption DEF RenderInv, Progress, OutcomeAssumption
<1>7. Written'
  <2>1. Connections(Resource(current)) \subseteq Range(requests)
    BY <1>1 DEF Unconnected
  <2>2. \A t \in Resources : t.ref \in emitted' => Connections(t) \subseteq Range(requests)
    BY <1>1, <1>2, <2>1 DEF RenderInv, Written
  <2>. QED BY <1>1, <1>3, <1>4, <2>2 DEF RenderInv, Written
<1>8. Reserved'
  BY <1>1, <1>3, <1>4 DEF RenderInv, Reserved
<1>. QED BY <1>1, <1>5, <1>6, <1>7, <1>8 DEF RenderInv

\* RenderInv is inductive.
LEMMA RenderStep == RenderInv /\ [RenderNext]_allVars => RenderInv'
<1>. SUFFICES ASSUME RenderInv, [RenderNext]_allVars PROVE RenderInv'
  OBVIOUS
<1>1. CASE Finish
  <2>1. /\ state = "built" /\ UNCHANGED <<vars, input, state, emitted, current, requests, prerequisites>>
        /\ rendered' = "Ok" /\ emitted = References /\ current = None
    BY <1>1 DEF Finish, Rendering, vars
  <2>2. /\ Resources' = Resources /\ References' = References /\ Begun' = Begun
        /\ \A d : Dependencies(d)' = Dependencies(d)
    BY <2>1, SameInput DEF Begun
  <2>3. GraphInv'
    BY <2>1, GraphStep DEF RenderInv
  <2>. QED BY <2>1, <2>2, <2>3 DEF RenderInv, Progress, Written, Reserved
<1>2. CASE Build
  <2>1. GraphInv' /\ UNCHANGED <<emitted, current, requests, prerequisites, rendered>>
        /\ state \in {"validate", "traverse"}
    BY <1>2, GraphStep DEF RenderInv, Build, Next, Validate, Visit, Admit, output
  <2>2. Unwritten /\ Unwritten'
    BY <2>1 DEF RenderInv, Unwritten
  <2>3. input' = input
    BY <1>2 DEF Build, Next, Validate, Visit, Admit
  <2>4. /\ Resources' = Resources /\ References' = References /\ Begun' = Begun
        /\ \A d : Dependencies(d)' = Dependencies(d)
    BY <2>1, <2>3, SameInput DEF Begun
  <2>. QED BY <2>1, <2>2, <2>4 DEF RenderInv, Progress, Written, Reserved
<1>3. CASE UNCHANGED allVars
  <2>1. /\ UNCHANGED <<vars, input, state, emitted, current, requests, prerequisites, rendered>>
    BY <1>3 DEF allVars, vars, output
  <2>2. /\ Resources' = Resources /\ References' = References /\ Begun' = Begun
        /\ \A d : Dependencies(d)' = Dependencies(d)
    BY <2>1, SameInput DEF Begun
  <2>3. GraphInv'
    BY <2>1, GraphStep DEF RenderInv
  <2>. QED BY <2>1, <2>2, <2>3 DEF RenderInv, Progress, Written, Reserved, Unwritten
<1>. QED BY <1>1, <1>2, <1>3, EmitInv, ConnectInv, EmittedInv DEF RenderNext

\* A renderer starts from a graph the planner accepted.
LEMMA RenderStart == RenderInit => RenderInv
<1>. SUFFICES ASSUME RenderInit PROVE RenderInv
  OBVIOUS
<1>1. GraphInv /\ Unwritten
  BY GraphInit DEF RenderInit, Unwritten
<1>2. Begun = {} /\ Range(requests) = {} /\ Range(prerequisites) = {} /\ prerequisites = <<>>
      /\ requests = <<>>
  BY <1>1 DEF Unwritten, Begun, Range
<1>3. Progress /\ Written
  BY <1>1, <1>2, OutcomeAssumption DEF Unwritten, Progress, Written, IsInjective, OutcomeAssumption
<1>4. \A x : {i \in DOMAIN prerequisites : prerequisites[i].resource = x} = {}
  BY <1>2
<1>5. Reserved
  BY <1>2, <1>4, FS_EmptySet DEF Reserved, Count
<1>. QED BY <1>1, <1>3, <1>5 DEF RenderInv

\* An artifact reported as rendered is complete.
LEMMA Complete == RenderInv => EverythingRendered
<1>. SUFFICES ASSUME RenderInv, rendered = "Ok" PROVE EverythingRendered
  BY DEF EverythingRendered
<1>1. state = "built" /\ Sound
  BY Built, OutcomeAssumption DEF RenderInv, Unwritten, OutcomeAssumption
<1>2. emitted = References /\ current = None /\ Begun = References
      /\ References = {s.ref : s \in Resources}
  BY <1>1, Structure, OutcomeAssumption DEF RenderInv, Progress, Begun, OutcomeAssumption
<1> DEFINE ext == {<<s.ref, 0>> : s \in {t \in Resources : t.external}}
<1>3. \A s \in Resources : s.external \in BOOLEAN /\ \A t \in Resources : t.ref = s.ref => t = s
  BY <1>1, Arguments, OneResource DEF Sound
<1>4. Range(requests) \subseteq Steps \ ext
  <2>. SUFFICES ASSUME NEW step \in Range(requests) PROVE step \in Steps /\ step \notin ext
    OBVIOUS
  <2>1. PICK s \in Resources : (step = <<s.ref, 0>> /\ ~s.external) \/ step \in Connections(s)
    BY DEF RenderInv, Written
  <2>2. CASE step = <<s.ref, 0>> /\ ~s.external
    <3>1. ASSUME NEW t \in Resources, t.external, step = <<t.ref, 0>> PROVE FALSE
      <4>1. t = s
        BY <1>3, <2>2, <3>1
      <4>. QED BY <2>2, <3>1, <4>1
    <3>. QED BY <2>2, <3>1 DEF Steps
  <2>3. CASE step \in Connections(s)
    <3>1. step[2] # 0
      BY <2>3, ConnectionSteps
    <3>2. step \notin ext
      BY <3>1
    <3>. QED BY <2>3, <3>2 DEF Steps
  <2>. QED BY <2>1, <2>2, <2>3
<1>5. Steps \ ext \subseteq Range(requests)
  <2>. SUFFICES ASSUME NEW step \in Steps, step \notin ext PROVE step \in Range(requests)
    OBVIOUS
  <2>1. CASE \E s \in Resources : step = <<s.ref, 0>>
    <3>1. PICK s \in Resources : step = <<s.ref, 0>>
      BY <2>1
    <3>2. ~s.external /\ s.ref \in Begun
      BY <1>2, <3>1
    <3>. QED BY <3>1, <3>2 DEF RenderInv, Written
  <2>2. CASE \E s \in Resources : step \in Connections(s)
    BY <1>2, <2>2 DEF RenderInv, Written
  <2>. QED BY <2>1, <2>2 DEF Steps
<1>6. Cardinality(Range(requests)) = Len(requests)
  BY Elements DEF RenderInv, Written
<1>7. ASSUME NEW s \in Resources
      PROVE  Cardinality({i \in DOMAIN prerequisites : prerequisites[i].resource = s.ref})
               = IF s.external THEN 1 ELSE Cardinality(Relabelled(s))
  <2>1. Count(prerequisites, s.ref) = Len(Prerequisites(s))
    BY <1>2 DEF RenderInv, Reserved
  <2>. QED BY <1>1, <2>1, OwnPrerequisites DEF Count, Sound
<1>. QED BY <1>4, <1>5, <1>6, <1>7 DEF EverythingRendered

(***************************************************************************)
(* The artifact as a run of its steps.                                     *)
(***************************************************************************)

\* A node's own step is taken when its output begins; a connection when it is
\* written.
LEMMA TakenSteps ==
  ASSUME RenderInv, Sound
  PROVE  /\ \A r \in References : <<r, 0>> \in Taken <=> r \in Begun
         /\ \A step \in Taken : step \in Range(requests) \/ step[2] = 0
<1> DEFINE Other == {<<p.resource, 0>> : p \in {q \in Range(prerequisites) : q.kind # "BindSource"}}
<1>1. Taken = Range(requests) \cup Other
  BY DEF Taken
<1>2. ASSUME NEW r \in References, <<r, 0>> \in Taken PROVE r \in Begun
  <2>1. CASE <<r, 0>> \in Range(requests)
    <3>1. PICK s \in Resources :
            s.ref \in Begun /\ (<<r, 0>> = <<s.ref, 0>> \/ <<r, 0>> \in Connections(s))
      BY <2>1 DEF RenderInv, Written
    <3>. QED BY <3>1, ConnectionSteps
  <2>2. CASE <<r, 0>> \in Other
    <3>1. PICK p \in Range(prerequisites) : r = p.resource
      BY <2>2
    <3>2. PICK s \in Resources : s.ref \in Begun /\ p \in Range(Prerequisites(s))
      BY DEF RenderInv, Reserved
    <3>3. p.resource = s.ref
      BY <3>2, OwnPrerequisites DEF Sound, Range
    <3>. QED BY <3>1, <3>2, <3>3
  <2>. QED BY <1>1, <1>2, <2>1, <2>2
<1>3. ASSUME NEW r \in References, r \in Begun PROVE <<r, 0>> \in Taken
  <2>1. PICK s \in Resources : s.ref = r /\ s.external \in BOOLEAN
    BY ReferredTo, Arguments DEF Sound
  <2>2. CASE ~s.external
    BY <1>1, <1>3, <2>1, <2>2 DEF RenderInv, Written
  <2>3. CASE s.external
    <3>1. PICK p \in Range(Prerequisites(s)) : p.kind # "BindSource" /\ p.resource = s.ref
      BY <2>3, OwnPrerequisites DEF Sound
    <3>2. p \in Range(prerequisites)
      BY <1>3, <2>1, <3>1 DEF RenderInv, Reserved
    <3>. QED BY <1>1, <2>1, <3>1, <3>2
  <2>. QED BY <2>1, <2>2, <2>3
<1>4. \A step \in Other : step[2] = 0
  OBVIOUS
<1>. QED BY <1>1, <1>2, <1>3, <1>4

\* Beginning a node's output takes its own step: its dependencies were taken.
LEMMA EmitTakes == RenderInv /\ Emit => Order!Next
<1>. SUFFICES ASSUME RenderInv, Emit PROVE Order!Next
  OBVIOUS
<1> DEFINE r == NextNode
           s == Resource(r)
           step == <<r, 0>>
<1>1. /\ state = "built" /\ current = None /\ emitted # References /\ Sound /\ ~Cyclic
      /\ emitted \subseteq References /\ input' = input
  BY Built DEF Emit, Rendering, RenderInv, Progress, vars
<1>2. r \in References \ emitted /\ r # None /\ Dependencies(r) \subseteq emitted
  BY <1>1, NextFound
<1>3. /\ requests' = IF s.external THEN requests ELSE Append(requests, step)
      /\ prerequisites' = prerequisites \o Prerequisites(s)
  BY <1>2 DEF Emit
<1>4. /\ s \in Resources /\ s.ref = r /\ s.external \in BOOLEAN
      /\ requests \in Seq(Range(requests)) /\ prerequisites \in Seq(Range(prerequisites))
  BY <1>1, <1>2, ReferredTo, Arguments DEF Sound, RenderInv, Written, Reserved
<1>5. Begun = emitted
  BY <1>1 DEF Begun
<1>6. step \in Steps /\ step \notin Taken
  BY <1>1, <1>2, <1>4, <1>5, TakenSteps DEF Steps
<1>7. StepDependencies(step) \subseteq Taken
  <2>1. StepDependencies(step) = {<<d, 0>> : d \in Dependencies(r)}
    BY DEF StepDependencies
  <2>2. \A d \in Dependencies(r) : <<d, 0>> \in Taken
    BY <1>1, <1>2, <1>5, TakenSteps
  <2>. QED BY <2>1, <2>2
<1>8. Taken' = Taken \cup {step}
  <2> DEFINE own == Range(Prerequisites(s))
             Other(P) == {<<p.resource, 0>> : p \in {q \in P : q.kind # "BindSource"}}
  <2>1. Range(prerequisites') = Range(prerequisites) \cup own
    <3>1. Prerequisites(s) \in Seq(own)
      BY <1>1, <1>4, OwnPrerequisites DEF Sound
    <3>2. prerequisites \in Seq(Range(prerequisites) \cup own)
          /\ Prerequisites(s) \in Seq(Range(prerequisites) \cup own)
      BY <1>4, <3>1
    <3>. QED BY <1>3, <3>2, Concatenated
  <2>2. Other(Range(prerequisites) \cup own) = Other(Range(prerequisites)) \cup Other(own)
    OBVIOUS
  <2>3. \A p \in own : p.resource = r /\ (p.kind # "BindSource" => s.external)
    BY <1>1, <1>4, OwnPrerequisites DEF Sound, Range
  <2>4. CASE s.external
    <3>1. \E p \in own : p.kind # "BindSource"
      BY <1>1, <1>4, <2>4, OwnPrerequisites DEF Sound
    <3>2. Other(own) = {step}
      BY <2>3, <3>1
    <3>. QED BY <1>3, <2>1, <2>2, <2>4, <3>2 DEF Taken
  <2>5. CASE ~s.external
    <3>1. Other(own) = {}
      BY <2>3, <2>5
    <3>2. requests \in Seq(Range(requests) \cup {step})
      BY <1>4
    <3>3. Range(requests') = Range(requests) \cup {step}
      BY <1>3, <2>5, <3>2, Appended
    <3>. QED BY <2>1, <2>2, <3>1, <3>3 DEF Taken
  <2>. QED BY <1>4, <2>4, <2>5
<1>9. Plan' = Plan
  BY <1>1 DEF Plan, Steps, StepDependencies, Dependencies, Nodes, Resources, Resource
<1>10. step \in DOMAIN Plan \ Taken /\ Plan[step] \subseteq Taken
  BY <1>6, <1>7 DEF Plan
<1>. QED BY <1>8, <1>9, <1>10 DEF Order!Next, Order!Take

\* A connection is taken after the container and the network it connects.
LEMMA ConnectTakes == RenderInv /\ Connect => Order!Next
<1>. SUFFICES ASSUME RenderInv, Connect PROVE Order!Next
  OBVIOUS
<1>1. PICK step \in Unconnected : requests' = Append(requests, step)
  BY DEF Connect
<1> DEFINE s == Resource(current)
<1>2. /\ current # None /\ Sound /\ input' = input /\ prerequisites' = prerequisites
      /\ step \in Connections(s) /\ step \notin Range(requests)
  BY <1>1, Built DEF Connect, Rendering, vars, Unconnected
<1>3. /\ current \in Begun /\ current \in References /\ s \in Resources /\ s.ref = current
      /\ Dependencies(current) \subseteq emitted /\ emitted \subseteq References
      /\ emitted \subseteq Begun
  BY <1>2, ReferredTo DEF RenderInv, Progress, Begun
<1>4. PICK i \in 2 .. Len(Networks(s)) : step = <<s.ref, i - 1>>
  BY <1>2 DEF Connections
<1>5. step[1] = current /\ step[2] # 0 /\ step[2] + 1 = i
  BY <1>3, <1>4
<1>6. step \in Steps /\ step \notin Taken
  BY <1>2, <1>3, <1>5, TakenSteps DEF Steps
<1>7. Networks(s)[i] \in Dependencies(current)
  <2>1. i \in DOMAIN Networks(s)
    <3>1. CASE s.kind = "Container"
      <4>1. s.networks \in Seq(Range(s.networks)) /\ DOMAIN s.networks = 1 .. Len(s.networks)
            /\ Len(s.networks) \in Nat
        BY <1>2, <1>3, <3>1, Arguments DEF Sound
      <4>2. Len(Networks(s)) = Len(s.networks) /\ DOMAIN Networks(s) = 1 .. Len(s.networks)
        BY <3>1, <4>1 DEF Networks
      <4>. QED BY <4>2
    <3>2. CASE s.kind # "Container"
      <4>1. Len(Networks(s)) = 0
        BY <3>2 DEF Networks
      <4>. QED BY <4>1
    <3>. QED BY <3>1, <3>2
  <2>2. [ref |-> Networks(s)[i], kind |-> "Network"] \in Required(s)
    BY <2>1 DEF Required, Range
  <2>3. Satisfied(s)
    BY <1>2, <1>3, Structure
  <2>. QED BY <1>3, <2>2, <2>3 DEF Satisfied
<1>8. StepDependencies(step) \subseteq Taken
  <2>1. StepDependencies(step) = {<<current, 0>>, <<Networks(s)[i], 0>>}
    BY <1>5 DEF StepDependencies
  <2>. QED BY <1>2, <1>3, <1>7, <2>1, TakenSteps
<1>9. Taken' = Taken \cup {step}
  <2>1. requests \in Seq(Range(requests) \cup {step})
    BY DEF RenderInv, Written
  <2>2. Range(requests') = Range(requests) \cup {step}
    BY <1>1, <2>1, Appended
  <2>. QED BY <1>2, <2>2 DEF Taken
<1>10. Plan' = Plan
  BY <1>2 DEF Plan, Steps, StepDependencies, Dependencies, Nodes, Resources, Resource
<1>11. step \in DOMAIN Plan \ Taken /\ Plan[step] \subseteq Taken
  BY <1>6, <1>8 DEF Plan
<1>. QED BY <1>9, <1>10, <1>11 DEF Order!Next, Order!Take

\* Every other step of the builder or the renderer takes nothing.
LEMMA TakesNothing ==
  Build \/ Emitted \/ Finish \/ UNCHANGED allVars => UNCHANGED <<Plan, Taken>>
<1>. SUFFICES ASSUME Build \/ Emitted \/ Finish \/ UNCHANGED allVars PROVE UNCHANGED <<Plan, Taken>>
  OBVIOUS
<1>1. input' = input /\ requests' = requests /\ prerequisites' = prerequisites
  BY DEF Build, Next, Validate, Visit, Admit, Emitted, Finish, allVars, vars, output
<1>. QED BY <1>1 DEF Plan, Taken, Steps, StepDependencies, Dependencies, Nodes, Resources, Resource

(***************************************************************************)
(* The theorems.                                                           *)
(***************************************************************************)

\* RenderInv holds of every behaviour of the builder and the renderer.
THEOREM Invariance == RenderSpec => []RenderInv
  BY RenderStart, RenderStep, PTL DEF RenderSpec

\* The traversal's counters are exact: `*count -= 1` never wraps, and a node is
\* stacked or visited exactly when nothing remains of its dependencies.
THEOREM TraversalCounts == RenderSpec => []CountersExact
<1>1. RenderInv => CountersExact
  BY GraphSafe DEF RenderInv
<1>. QED BY <1>1, Invariance, PTL

\* PlanningError::Cycle is returned only for a graph with a cycle, and no graph
\* with one is ever built.
THEOREM CyclesFound == RenderSpec => []CycleIsReal
<1>1. RenderInv => CycleIsReal
  BY GraphSafe DEF RenderInv
<1>. QED BY <1>1, Invariance, PTL

\* What DockerPlanner derives of an intent whose references resolve is never
\* refused as unsound or cyclic.
THEOREM PlannerAccepted == RenderSpec => []PlannerNeverRefused
<1>1. RenderInv => PlannerNeverRefused
  BY PlannerSafe DEF RenderInv
<1>. QED BY <1>1, Invariance, PTL

\* The renderer never fails to find a next node in a graph that was built.
THEOREM RendererProceeds == RenderSpec => []NeverStuck
<1>1. RenderInv => NeverStuck
  BY OutcomeAssumption DEF RenderInv, Progress, NeverStuck, OutcomeAssumption
<1>. QED BY <1>1, Invariance, PTL

\* A rendered artifact holds every step and every prerequisite, once.
THEOREM ArtifactComplete == RenderSpec => []EverythingRendered
  BY Complete, Invariance, PTL

\* The request stream implements the order of steps an operation graph promises.
THEOREM ArtifactOrdered == RenderSpec => DependencyOrdered
<1>1. RenderInit => Order!Init
  <2>. SUFFICES ASSUME RenderInit PROVE Order!Init
    OBVIOUS
  <2>1. Range(requests) = {} /\ Range(prerequisites) = {}
    BY DEF RenderInit, Range
  <2>. QED BY <2>1 DEF Order!Init, Taken
<1>2. RenderInv /\ [RenderNext]_allVars => [Order!Next]_<<Plan, Taken>>
  BY EmitTakes, ConnectTakes, TakesNothing DEF RenderNext
<1>. QED BY <1>1, <1>2, Invariance, PTL DEF RenderSpec, DependencyOrdered, Order!Spec
=============================================================================
