--------------------------- MODULE IdentityProofs ---------------------------
(***************************************************************************)
(* What identities are worth.  For any number of threads and any counter   *)
(* width, the observation identities `fresh` returns are never reused: the *)
(* issued identities are those below the counter (IssuedIsPassed), so a    *)
(* successful exchange at the counter's value issues one nobody holds.     *)
(*                                                                         *)
(* NetworkPrerequisite::assess compares those identities, and an accepted  *)
(* prerequisite leaves no doubt which network it is about, for inventories *)
(* of any size and content.  The argument is about assess alone: its       *)
(* checks, in the order the code makes them, leave one network, one root   *)
(* and one reference.  The invariant adds that the verdict is about the    *)
(* inventory as it stands.                                                 *)
(***************************************************************************)
EXTENDS ObservationIds, Prerequisite, TLAPS, FiniteSetTheorems

(***************************************************************************)
(* ObservationId::fresh.                                                   *)
(***************************************************************************)

IdsInv == TypeOK /\ IssuedIsPassed /\ NeverAhead /\ ExhaustedMeansNoneLeft

\* The static counter starts with nothing issued.
LEMMA InitInv == Init => IdsInv
  BY ObservationAssumption
     DEF Init, IdsInv, TypeOK, IssuedIsPassed, NeverAhead, ExhaustedMeansNoneLeft, Ids,
         ObservationAssumption

\* A load learns a value the counter will not go back behind.
LEMMA LoadInv == ASSUME IdsInv, NEW t \in Threads, Load(t) PROVE IdsInv'
  BY ObservationAssumption
     DEF Load, IdsInv, TypeOK, IssuedIsPassed, NeverAhead, ExhaustedMeansNoneLeft, Ids,
         ObservationAssumption

\* A failed exchange issues nothing.
LEMMA RetryInv == ASSUME IdsInv, NEW t \in Threads, Retry(t) PROVE IdsInv'
  BY ObservationAssumption
     DEF Retry, IdsInv, TypeOK, IssuedIsPassed, NeverAhead, ExhaustedMeansNoneLeft, Ids,
         ObservationAssumption

\* A thread gives up only at the end of the range.
LEMMA GiveUpInv == ASSUME IdsInv, NEW t \in Threads, GiveUp(t) PROVE IdsInv'
<1>1. seen[t] = MaxU64 /\ NEXT_OBSERVATION_ID = MaxU64
  BY ObservationAssumption
     DEF GiveUp, Successor, IdsInv, TypeOK, NeverAhead, Ids, ObservationAssumption
<1>2. \A i \in Ids \ {MaxU64} : owner[i] # None
  BY <1>1, ObservationAssumption DEF IdsInv, IssuedIsPassed, Ids, ObservationAssumption
<1>. QED
  BY <1>2, ObservationAssumption
     DEF GiveUp, IdsInv, TypeOK, IssuedIsPassed, NeverAhead, ExhaustedMeansNoneLeft,
         ObservationAssumption

\* The exchange issues the counter's own value, and moves the counter past it.
LEMMA ExchangeIssues ==
  ASSUME IdsInv, NEW t \in Threads, Exchange(t)
  PROVE  /\ seen[t] = NEXT_OBSERVATION_ID /\ seen[t] \in Ids \ {MaxU64} /\ owner[seen[t]] = None
         /\ NEXT_OBSERVATION_ID' = NEXT_OBSERVATION_ID + 1 /\ NEXT_OBSERVATION_ID' \in Ids
         /\ owner' = [owner EXCEPT ![seen[t]] = t]
  BY ObservationAssumption
     DEF Exchange, Successor, IdsInv, TypeOK, IssuedIsPassed, Ids, ObservationAssumption

\* A successful exchange keeps issued and passed the same.
LEMMA ExchangeInv == ASSUME IdsInv, NEW t \in Threads, Exchange(t) PROVE IdsInv'
<1>. USE ExchangeIssues, ObservationAssumption
<1>1. TypeOK'
  BY DEF Exchange, IdsInv, TypeOK
<1>2. IssuedIsPassed'
  BY DEF IdsInv, TypeOK, IssuedIsPassed, Ids, ObservationAssumption
<1>3. NeverAhead'
  <2>. SUFFICES ASSUME NEW s \in Threads, seen'[s] # None
                PROVE  seen'[s] <= NEXT_OBSERVATION_ID'
    BY DEF NeverAhead
  <2>1. seen'[s] = seen[s] /\ seen[s] \in Nat /\ seen[s] <= NEXT_OBSERVATION_ID
    BY DEF Exchange, IdsInv, TypeOK, NeverAhead, Ids
  <2>2. NEXT_OBSERVATION_ID' = NEXT_OBSERVATION_ID + 1 /\ NEXT_OBSERVATION_ID \in Nat
    BY DEF IdsInv, TypeOK, Ids
  <2>. QED
    BY <2>1, <2>2
<1>4. ExhaustedMeansNoneLeft'
  BY DEF Exchange, IdsInv, TypeOK, ExhaustedMeansNoneLeft, Ids, ObservationAssumption
<1>. QED
  BY <1>1, <1>2, <1>3, <1>4 DEF IdsInv

(***************************************************************************)
(* The invariants of the counter for any threads and any width.            *)
(***************************************************************************)
THEOREM IdsInvariant == Spec => []IdsInv
<1>1. IdsInv /\ [Next]_vars => IdsInv'
  <2>. SUFFICES ASSUME IdsInv, [Next]_vars PROVE IdsInv'
    OBVIOUS
  <2>1. CASE UNCHANGED vars
    BY <2>1 DEF vars, IdsInv, TypeOK, IssuedIsPassed, NeverAhead, ExhaustedMeansNoneLeft
  <2>. QED
    BY <2>1, LoadInv, RetryInv, GiveUpInv, ExchangeInv DEF Next
<1>. QED
  BY <1>1, InitInv, PTL DEF Spec

(***************************************************************************)
(* Exhaustion is only reported when every identity is in use.              *)
(***************************************************************************)
THEOREM ExhaustionIsReal == Spec => []ExhaustedMeansNoneLeft
  BY IdsInvariant, PTL DEF IdsInv

(***************************************************************************)
(* fetch_update implements atomic allocation of unused identities: the     *)
(* interleaved loads and exchanges refine UniqueIds.                       *)
(***************************************************************************)
THEOREM IdsAreNeverReused == Spec => NeverReused
<1>. DEFINE held == [i \in Ids \ {MaxU64} |-> owner[i]]
<1>1. Init => Unique!Init
  BY DEF Init, Unique!Init
<1>2. IdsInv /\ [Next]_vars => [Unique!Next]_held
  <2>. SUFFICES ASSUME IdsInv, [Next]_vars PROVE [Unique!Next]_held
    OBVIOUS
  <2>1. owner' = owner => held' = held
    OBVIOUS
  <2>2. ASSUME NEW t \in Threads, Exchange(t) PROVE Unique!Next
    <3>1. /\ seen[t] \in Ids \ {MaxU64} /\ owner[seen[t]] = None
          /\ owner' = [owner EXCEPT ![seen[t]] = t]
      BY <2>2, ExchangeIssues
    <3>2. held' = [held EXCEPT ![seen[t]] = t] /\ held[seen[t]] = None
      BY <3>1 DEF IdsInv, TypeOK
    <3>. QED
      BY <3>1, <3>2 DEF Unique!Next, Unique!Issue
  <2>. QED
    BY <2>1, <2>2 DEF Next, Load, GiveUp, Retry, vars
<1>. QED
  BY <1>1, <1>2, IdsInvariant, PTL DEF Spec, NeverReused, Unique!Spec

(***************************************************************************)
(* NetworkPrerequisite::assess.                                            *)
(***************************************************************************)

\* The verdict is what assess says of the inventory, whose lists hold nothing
\* but what was put into them.
VerdictInv ==
  /\ scope \in [inventory : Observations, daemon : Observations]
  /\ networks \in Seq(Offered) /\ roots \in Seq(Roots)
  /\ \A v \in Range(verdict) : v.error = Assessment(v.prerequisite, v.expected, v.id)

\* What the caller who looks an accepted network up again relies on.
Unambiguous(n, v) ==
  /\ {i \in DOMAIN networks : networks[i].id.value = <<v.id>>}
       = {i \in DOMAIN networks : networks[i].reference = n.reference}
  /\ n.reference \notin containers \cup volumes
  /\ {r \in Range(roots) : r.resource = n.reference}
       = {[resource |-> n.reference, kind |-> "Network", reason |-> "ExactNetworkId"]}
  /\ scope = [inventory |-> v.expected, daemon |-> v.expected]
  /\ \A shown \in {<<n.id, <<v.id>>>>, <<n.name, <<v.prerequisite.identity>>>>,
                  <<n.driver, <<v.prerequisite.driver>>>>} :
       shown[1].availability = "Present" /\ shown[1].value = shown[2]
  /\ v.prerequisite.internal \in {<<>>, n.internal.value}

\* A finite set with an element and not more than one is a singleton.
LEMMA OnlyOne ==
  ASSUME NEW S, IsFiniteSet(S), S # {}, ~(Cardinality(S) > 1)
  PROVE  \E x : S = {x}
<1>1. Cardinality(S) \in Nat /\ Cardinality(S) # 0
  BY FS_CardinalityType, FS_EmptySet
<1>2. Cardinality(S) = 1
  BY <1>1
<1>. QED BY <1>2, FS_Singleton

\* A position of a list is a number.
LEMMA Positions ==
  ASSUME NEW S, NEW s \in Seq(S), NEW i \in DOMAIN s
  PROVE  i \in Nat /\ s[i] \in S
<1>1. DOMAIN s = 1 .. Len(s) /\ Len(s) \in Nat
  OBVIOUS
<1>. QED BY <1>1

\* The least of one number.
LEMMA MinOfOne == ASSUME NEW i \in Nat PROVE Min({i}) = i
  BY DEF Min

\* The positions of a list that pass a test are finitely many.
LEMMA PositionsFinite ==
  ASSUME NEW S, NEW s \in Seq(S), NEW T \in SUBSET DOMAIN s
  PROVE  IsFiniteSet(T)
<1>1. DOMAIN s = 1 .. Len(s) /\ Len(s) \in Nat
  OBVIOUS
<1>2. IsFiniteSet(1 .. Len(s))
  BY <1>1, FS_Interval
<1>. QED BY <1>1, <1>2, FS_Subset

\* When selected_network finds no fault, the id leads to one position of the
\* networks, its reference to the same one, and from there to one root.
LEMMA SelectedNetwork ==
  ASSUME VerdictInv, NEW id, SelectionError(id) = ""
  PROVE  \E k \in DOMAIN networks :
           /\ Matching(id) = {k} /\ Min(Matching(id)) = k
           /\ {i \in DOMAIN networks : networks[i].reference = networks[k].reference} = {k}
           /\ networks[k].reference \notin containers \cup volumes
           /\ {r \in Range(roots) : r.resource = networks[k].reference}
                = {[resource |-> networks[k].reference, kind |-> "Network", reason |-> "ExactNetworkId"]}
<1> DEFINE n == networks[Min(Matching(id))]
           same == {i \in DOMAIN networks : networks[i].reference = n.reference}
           found == {i \in DOMAIN roots : roots[i].resource = n.reference}
<1>1. /\ Matching(id) # {} /\ ~(Cardinality(Matching(id)) > 1)
      /\ ~ReferenceShared(n)
      /\ IsInjective([i \in DOMAIN roots |-> roots[i].resource])
      /\ found # {}
      /\ roots[Min(found)].kind = "Network" /\ roots[Min(found)].reason = "ExactNetworkId"
  BY DEF SelectionError
<1>2. IsFiniteSet(Matching(id)) /\ IsFiniteSet(same)
  BY PositionsFinite DEF VerdictInv, Matching
<1>3. PICK k : Matching(id) = {k}
  BY <1>1, <1>2, OnlyOne
<1>4. k \in DOMAIN networks /\ k \in Nat
  BY <1>3, Positions DEF Matching, VerdictInv
<1>5. Min(Matching(id)) = k
  BY <1>3, <1>4, MinOfOne
<1>6. same = {k}
  <2>1. k \in same
    BY <1>4, <1>5
  <2>2. Cardinality(same) = 1 /\ n.reference \notin containers \cup volumes
    BY <1>1 DEF ReferenceShared
  <2>3. PICK x : same = {x}
    BY <1>2, <2>2, FS_Singleton
  <2>. QED BY <2>1, <2>3
<1>7. n.reference \notin containers \cup volumes
  BY <1>1 DEF ReferenceShared
<1>8. PICK j \in found : TRUE
  BY <1>1
<1>9. found = {j} /\ j \in Nat /\ Min(found) = j
  <2>1. \A i \in found : i = j
    BY <1>1, <1>8 DEF IsInjective
  <2>2. j \in DOMAIN roots /\ j \in Nat
    BY <1>8, Positions DEF VerdictInv
  <2>3. found = {j}
    BY <1>8, <2>1
  <2>. QED BY <2>2, <2>3, MinOfOne
<1>10. roots[j] = [resource |-> n.reference, kind |-> "Network", reason |-> "ExactNetworkId"]
  <2>1. roots[j] \in Roots /\ roots[j].resource = n.reference
    BY <1>8, Positions DEF VerdictInv
  <2>2. roots[j].kind = "Network" /\ roots[j].reason = "ExactNetworkId"
    BY <1>1, <1>9
  <2>3. roots[j] = [resource |-> roots[j].resource, kind |-> roots[j].kind, reason |-> roots[j].reason]
    BY <2>1, RootsAssumption
  <2>. QED BY <2>1, <2>2, <2>3
<1>11. {r \in Range(roots) : r.resource = n.reference} = {roots[j]}
  <2>1. \A r \in Range(roots) : r.resource = n.reference => r = roots[j]
    BY <1>9 DEF Range
  <2>2. roots[j] \in Range(roots) /\ roots[j].resource = n.reference
    BY <1>8 DEF Range
  <2>3. \A r : r \in {x \in Range(roots) : x.resource = n.reference} <=> r \in {roots[j]}
    BY Zenon, <2>1, <2>2
  <2>. QED BY Zenon, <2>3
<1>12. n = networks[k]
  BY <1>5
<1>. QED BY <1>3, <1>4, <1>5, <1>6, <1>7, <1>10, <1>11, <1>12

\* Every check of assess passed: the network is beyond doubt.
LEMMA AssessedUnambiguous ==
  ASSUME VerdictInv, NEW v, Assessment(v.prerequisite, v.expected, v.id) = ""
  PROVE  \E n \in Range(networks) : Unambiguous(n, v)
<1> DEFINE p == v.prerequisite
           n == networks[Min(Matching(v.id))]
<1>1. scope.inventory = v.expected /\ scope.daemon = v.expected
  BY DEF Assessment
<1>2. SelectionError(v.id) = "" /\ EvidenceError(p, n) = ""
  BY DEF Assessment
<1>3. PICK k \in DOMAIN networks :
        /\ Matching(v.id) = {k} /\ Min(Matching(v.id)) = k
        /\ {i \in DOMAIN networks : networks[i].reference = networks[k].reference} = {k}
        /\ networks[k].reference \notin containers \cup volumes
        /\ {r \in Range(roots) : r.resource = networks[k].reference}
             = {[resource |-> networks[k].reference, kind |-> "Network", reason |-> "ExactNetworkId"]}
  BY <1>2, SelectedNetwork
<1>4. n = networks[k] /\ n \in Range(networks) /\ n.id.value = <<v.id>>
  BY <1>3 DEF Matching, Range
<1>. HIDE DEF n
<1>5. /\ n.id.availability = "Present"
      /\ n.name.availability = "Present" /\ n.name.value = <<p.identity>>
      /\ n.driver.availability = "Present" /\ n.driver.value = <<p.driver>>
      /\ p.internal \in {<<>>, n.internal.value}
  BY <1>2 DEF EvidenceError, Usable
<1>6. scope = [inventory |-> v.expected, daemon |-> v.expected]
  BY <1>1 DEF VerdictInv
<1>7. {i \in DOMAIN networks : networks[i].id.value = <<v.id>>}
        = {i \in DOMAIN networks : networks[i].reference = n.reference}
  BY <1>3, <1>4 DEF Matching
<1>8. /\ n.reference \notin containers \cup volumes
      /\ {r \in Range(roots) : r.resource = n.reference}
           = {[resource |-> n.reference, kind |-> "Network", reason |-> "ExactNetworkId"]}
  BY <1>3, <1>4
<1>9. \A shown \in {<<n.id, <<v.id>>>>, <<n.name, <<p.identity>>>>, <<n.driver, <<p.driver>>>>} :
        shown[1].availability = "Present" /\ shown[1].value = shown[2]
  <2>1. ASSUME NEW a, NEW b, a.availability = "Present", a.value = b, NEW shown, shown = <<a, b>>
        PROVE  shown[1].availability = "Present" /\ shown[1].value = shown[2]
    <3>1. shown[1] = a /\ shown[2] = b
      BY <2>1
    <3>. QED BY <2>1, <3>1
  <2>. SUFFICES ASSUME NEW shown \in {<<n.id, <<v.id>>>>, <<n.name, <<p.identity>>>>,
                                     <<n.driver, <<p.driver>>>>}
                PROVE  shown[1].availability = "Present" /\ shown[1].value = shown[2]
    OBVIOUS
  <2>2. CASE shown = <<n.id, <<v.id>>>>
    BY <1>4, <1>5, <2>1, <2>2
  <2>3. CASE shown = <<n.name, <<p.identity>>>>
    BY <1>5, <2>1, <2>3
  <2>4. CASE shown = <<n.driver, <<p.driver>>>>
    BY <1>5, <2>1, <2>4
  <2>. QED BY <2>2, <2>3, <2>4
<1>10. Unambiguous(n, v)
  BY <1>5, <1>6, <1>7, <1>8, <1>9 DEF Unambiguous
<1>. QED BY <1>4, <1>10

\* The inventory a verdict is about stays as it is.
LEMMA VerdictInit == AssessInit => VerdictInv
  BY DEF AssessInit, VerdictInv, Range

\* An assessment looks at the inventory only.
LEMMA SameAssessment ==
  ASSUME UNCHANGED inventory
  PROVE  \A p, expected, id : Assessment(p, expected, id)' = Assessment(p, expected, id)
<1>1. UNCHANGED <<scope, networks, roots, containers, volumes>>
  BY DEF inventory
<1>2. \A id : Matching(id)' = Matching(id)
  BY <1>1 DEF Matching
<1>3. \A n : ReferenceShared(n)' = ReferenceShared(n)
  BY Zenon, <1>1 DEF ReferenceShared
<1>4. \A id : SelectionError(id)' = SelectionError(id)
  <2>. TAKE id
  <2>1. networks'[Min(Matching(id)')] = networks[Min(Matching(id))]
    BY Zenon, <1>1, <1>2
  <2>2. ReferenceShared(networks[Min(Matching(id))])' = ReferenceShared(networks[Min(Matching(id))])
    BY Zenon, <1>1, <1>2 DEF ReferenceShared
  <2>. QED BY Zenon, <1>1, <1>2, <2>1, <2>2 DEF SelectionError
<1>. QED BY Zenon, <1>1, <1>2, <1>4 DEF Assessment

\* Every step keeps what the verdict says.
LEMMA VerdictStep == VerdictInv /\ [AssessNext]_assessVars => VerdictInv'
<1>. SUFFICES ASSUME VerdictInv, [AssessNext]_assessVars PROVE VerdictInv'
  OBVIOUS
<1>1. CASE AddNetwork \/ AddRoot \/ AddOther
  <2>1. /\ scope' = scope /\ networks' \in Seq(Offered) /\ roots' \in Seq(Roots) /\ verdict' = <<>>
    <3>1. CASE AddNetwork
      BY <3>1 DEF AddNetwork, VerdictInv
    <3>2. CASE AddRoot
      BY <3>2 DEF AddRoot, VerdictInv
    <3>3. CASE AddOther
      BY <3>3 DEF AddOther, VerdictInv
    <3>. QED BY <1>1, <3>1, <3>2, <3>3
  <2>. QED BY <2>1 DEF VerdictInv, Range
<1>2. CASE Assess
  <2>1. PICK p \in Prerequisites, expected \in Observations, id \in NamedIds :
          verdict' = <<[prerequisite |-> p, expected |-> expected, id |-> id,
                        error |-> Assessment(p, expected, id)]>>
    BY <1>2 DEF Assess
  <2>. DEFINE judged == [prerequisite |-> p, expected |-> expected, id |-> id,
                         error |-> Assessment(p, expected, id)]
  <2>2. Range(verdict') = {judged}
    BY <2>1 DEF Range
  <2>3. judged.error = Assessment(judged.prerequisite, judged.expected, judged.id)
    OBVIOUS
  <2>4. \A a, b, c : Assessment(a, b, c)' = Assessment(a, b, c)
    BY <1>2, SameAssessment DEF Assess
  <2>. QED BY <1>2, <2>1, <2>2, <2>3, <2>4 DEF Assess, inventory, VerdictInv
<1>3. CASE UNCHANGED assessVars
  <2>1. \A a, b, c : Assessment(a, b, c)' = Assessment(a, b, c)
    BY <1>3, SameAssessment DEF assessVars
  <2>. QED BY <1>3, <2>1 DEF assessVars, inventory, VerdictInv
<1>. QED BY <1>1, <1>2, <1>3 DEF AssessNext

\* The verdict is right throughout.
LEMMA VerdictInvariance == AssessSpec => []VerdictInv
  BY VerdictInit, VerdictStep, PTL DEF AssessSpec

\* "The network needs one exact selected root": whatever networks, roots and
\* references an inventory was assembled from, an accepted assessment leaves one
\* network under the selected id, one resource under its reference and one root.
THEOREM AcceptedIsUnambiguous == AssessSpec => []SelectionUnambiguous
<1>1. VerdictInv => SelectionUnambiguous
  BY AssessedUnambiguous DEF VerdictInv, SelectionUnambiguous, Unambiguous
<1>. QED BY <1>1, VerdictInvariance, PTL
=============================================================================
