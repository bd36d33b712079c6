---------------------------- MODULE Prerequisite ----------------------------
(***************************************************************************)
(* NetworkPrerequisite::assess of src/target_modules/prerequisite.rs: does *)
(* an inventory show the external network an artifact depends on?  The     *)
(* fields of a DecodedInventory are public, so a caller may merge and      *)
(* assemble inventories as it likes before it asks.                        *)
(***************************************************************************)
EXTENDS Naturals, FiniteSets, SequencesExt

CONSTANTS
  Offered,         \* the NetworkObservations an inventory is assembled from
  Roots,           \* the SelectedRoots
  References,      \* the references containers and volumes may have
  Prerequisites,   \* the obligations of an artifact
  NamedIds,        \* what a caller names as the selected network
  CanonicalIds,    \* those with 64 hexadecimal digits
  Observations,    \* the scopes an inventory may carry
  MaxItems,        \* MAX_COLLECTION_ITEMS
  MaxEntries       \* bound: networks and roots of one inventory

\* A SelectedRoot has these three fields.
ASSUME RootsAssumption ==
  \A r \in Roots : r = [resource |-> r.resource, kind |-> r.kind, reason |-> r.reason]

VARIABLES
  scope,           \* [inventory, daemon]: two observation ids
  networks, roots, containers, volumes,
  verdict          \* <<>>, or [prerequisite, expected, id, error]

inventory == <<scope, networks, roots, containers, volumes>>
assessVars == <<inventory, verdict>>

AssessInit ==
  /\ scope \in [inventory : Observations, daemon : Observations]
  /\ networks = <<>> /\ roots = <<>> /\ containers = {} /\ volumes = {}
  /\ verdict = <<>>

(* ------------------- the caller assembles an inventory ------------------ *)

AddNetwork ==
  /\ verdict = <<>> /\ Len(networks) + Len(roots) < MaxEntries
  /\ \E n \in Offered : networks' = Append(networks, n)
  /\ UNCHANGED <<scope, roots, containers, volumes, verdict>>
AddRoot ==
  /\ verdict = <<>> /\ Len(networks) + Len(roots) < MaxEntries
  /\ \E r \in Roots : roots' = Append(roots, r)
  /\ UNCHANGED <<scope, networks, containers, volumes, verdict>>
AddOther ==
  /\ verdict = <<>>
  /\ \E r \in References :
       \/ containers' = containers \cup {r} /\ UNCHANGED volumes
       \/ volumes' = volumes \cup {r} /\ UNCHANGED containers
  /\ UNCHANGED <<scope, networks, roots, verdict>>

(* ------------------------------ assess ---------------------------------- *)

Usable(field, origin) ==
  field.availability = "Present" /\ field.origin = origin /\ field.value # <<>>

Matching(id) == {i \in DOMAIN networks : networks[i].id.value = <<id>>}

\* Another network, a container or a volume goes by the network's reference.
ReferenceShared_ByNetworks(n) ==     \* mutant: other kinds are not looked at
  Cardinality({i \in DOMAIN networks : networks[i].reference = n.reference}) # 1
ReferenceShared(n) ==
  \/ Cardinality({i \in DOMAIN networks : networks[i].reference = n.reference}) # 1
  \/ n.reference \in containers \cup volumes

\* selected_network, where its error is not empty.
SelectionError(id) ==
  LET n == networks[Min(Matching(id))]
      found == {i \in DOMAIN roots : roots[i].resource = n.reference}
  IN IF \/ Len(networks) > MaxItems \/ Len(roots) > MaxItems
        \/ Cardinality(containers) > MaxItems \/ Cardinality(volumes) > MaxItems
     THEN "CollectionTooLarge"
     ELSE IF Matching(id) = {} THEN "NetworkNotFound"
     ELSE IF Cardinality(Matching(id)) > 1 THEN "AmbiguousNetwork"
     ELSE IF ReferenceShared(n) THEN "AmbiguousResourceReference"
     ELSE IF ~IsInjective([i \in DOMAIN roots |-> roots[i].resource]) THEN "DuplicateSelectedRoot"
     ELSE IF found = {} THEN "SelectedRootNotFound"
     ELSE IF roots[Min(found)].kind # "Network" \/ roots[Min(found)].reason # "ExactNetworkId"
     THEN "InvalidSelectedRoot"
     ELSE ""

EvidenceError(p, n) ==
  IF ~Usable(n.id, "RuntimeAssigned") THEN "InvalidNetworkIdEvidence"
  ELSE IF ~Usable(n.name, "Effective") THEN "InvalidNetworkNameEvidence"
  ELSE IF n.name.value # <<p.identity>> THEN "NetworkNameMismatch"
  ELSE IF ~Usable(n.driver, "Effective") THEN "InvalidNetworkDriverEvidence"
  ELSE IF n.driver.value # <<p.driver>> THEN "NetworkDriverMismatch"
  ELSE IF p.internal # <<>> /\ ~Usable(n.internal, "Effective") THEN "InvalidNetworkInternalEvidence"
  ELSE IF p.internal # <<>> /\ n.internal.value # p.internal THEN "NetworkInternalMismatch"
  ELSE ""

Assessment(p, expected, id) ==
  IF scope.inventory # expected \/ scope.daemon # expected THEN "ObservationScopeMismatch"
  ELSE IF id \notin CanonicalIds THEN "InvalidSelectedNetworkId"
  ELSE IF SelectionError(id) # "" THEN SelectionError(id)
  ELSE EvidenceError(p, networks[Min(Matching(id))])

Assess ==
  /\ verdict = <<>>
  /\ \E p \in Prerequisites, expected \in Observations, id \in NamedIds :
       verdict' = <<[prerequisite |-> p, expected |-> expected, id |-> id,
                     error |-> Assessment(p, expected, id)]>>
  /\ UNCHANGED inventory

AssessNext == AddNetwork \/ AddRoot \/ AddOther \/ Assess

AssessSpec == AssessInit /\ [][AssessNext]_assessVars
-----------------------------------------------------------------------------
\* "The network needs one exact selected root": when an assessment succeeds, a
\* consumer that goes from the id it selected to a network, from there to the
\* root and the reference, and back by the reference to a resource, always ends
\* at one network, in the observation it named, and that network is seen to
\* have the promised name, driver and isolation.
SelectionUnambiguous ==
  \A v \in Range(verdict) : v.error = "" =>
    \E n \in Range(networks) :
      /\ {i \in DOMAIN networks : networks[i].id.value = <<v.id>>}
           = {i \in DOMAIN networks : networks[i].reference = n.reference}
      /\ n.reference \notin containers \cup volumes
      /\ {r \in Range(roots) : r.resource = n.reference}
           = {[resource |-> n.reference, kind |-> "Network", reason |-> "ExactNetworkId"]}
      /\ scope = [inventory |-> v.expected, daemon |-> v.expected]
      /\ \A seen \in {<<n.id, <<v.id>>>>, <<n.name, <<v.prerequisite.identity>>>>,
                      <<n.driver, <<v.prerequisite.driver>>>>} :
           seen[1].availability = "Present" /\ seen[1].value = seen[2]
      /\ v.prerequisite.internal \in {<<>>, n.internal.value}
=============================================================================
