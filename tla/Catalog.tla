------------------------------ MODULE Catalog -------------------------------
(***************************************************************************)
(* Who may say what a daemon can do: src/version.rs and                    *)
(* src/reviewed_catalog.rs.  A catalog of records is admitted one record   *)
(* at a time, or its compilation panics; a profile resolves only to a      *)
(* record of the admitted catalog; and what a caller claims of an observed *)
(* daemon is validated against that daemon alone.  Versions are pairs.     *)
(***************************************************************************)
EXTENDS Shapes, Branches

CONSTANTS Offered    \* the sequences of TargetCapabilityRecords offered

(***************************************************************************)
(* A record is [profile : [identity, key], lane, record_key, capabilities, *)
(* shapes], an identity [build, release, advertised, acquisition,          *)
(* rendering, mode].                                                       *)
(***************************************************************************)
VARIABLES
  records,
  source,      \* "reviewed" for TargetCapabilityCatalog::reviewed, or "test"
  phase,       \* "compile", "admit", "admitted", "panicked" or an error
  at,          \* the record admission is at
  profiles     \* the identities seen

catalog == <<records, source, phase, at, profiles>>

Below(v, w) == v[1] < w[1] \/ (v[1] = w[1] /\ v[2] < w[2])
MinimumApi == <<1, 41>>

\* TargetProfileIdentity::new.
IdentityInvalid(i) ==
  \/ i.mode = "Unknown"
  \/ i.advertised[1] # 1
  \/ \E v \in {i.acquisition, i.rendering} : Below(v, MinimumApi) \/ Below(i.advertised, v)

\* The lane that produced the evidence ran this build, in this mode.
MatchesIdentity(lane, i) ==
  \/ /\ i.release = "29.8.1" /\ i.build = "upstream"
     /\ <<lane, i.mode>> \in {<<"UpstreamRootful", "Rootful">>, <<"UpstreamRootless", "Rootless">>}
  \/ /\ i.release = "20.10.5+dfsg1" /\ i.build = "20.10.5+dfsg1-1+deb11u2"
     /\ {i.advertised, i.acquisition, i.rendering} = {MinimumApi}
     /\ <<lane, i.mode>> \in {<<"Debian11Rootful", "Rootful">>, <<"Debian11Rootless", "Rootless">>}

Claimed(record) == [i \in DOMAIN record.capabilities |-> record.capabilities[i].capability]
Available(record) ==
  {f.capability : f \in {g \in Range(record.capabilities) : g.state = "Available"}}

\* The first shape that is listed twice, or is evidence for nothing available.
ShapeError(record) ==
  LET shapes == record.shapes
      duplicates == {i \in DOMAIN shapes : \E j \in 1 .. i - 1 : shapes[j] = shapes[i]}
      strays == {i \in DOMAIN shapes : CapabilityOf(shapes[i]) \notin Available(record)}
  IN IF duplicates \cup strays = {} THEN ""
     ELSE IF Min(duplicates \cup strays) \in duplicates THEN "DuplicateEvidenceShape"
     ELSE "EvidenceShapeMismatch"

\* Every capability that is available has evidence of every shape it needs.
Evidenced(record) ==
  \A c \in Available(record) :
    c \in DOMAIN RequiredFor /\ RequiredFor[c] \subseteq Range(record.shapes)

\* What makes a record a duplicate is the identity of its profile.
Profile_Whole(record) == record.profile     \* mutant: with its evidence key
Profile(record) == record.profile.identity

RecordError(record) ==
  IF Profile(record) \in profiles THEN "DuplicateProfile"
  ELSE IF ~MatchesIdentity(record.lane, record.profile.identity) THEN "EvidenceLaneMismatch"
  ELSE IF record.record_key # record.profile.key THEN "EvidenceKeyMismatch"
  ELSE IF ~IsInjective(Claimed(record)) THEN "DuplicateCapability"
  ELSE IF ShapeError(record) # "" THEN ShapeError(record)
  ELSE IF ~Evidenced(record) THEN "IncompleteEvidenceShapes"
  ELSE ""

\* The assertions of reviewed_catalog::record on a checked-in document: what it
\* claims is available and is the lane's whole admission set, once each.
AsReviewed(record) ==
  /\ ~IdentityInvalid(record.profile.identity)
  /\ (record.profile.identity.build = "upstream") = Upstream(record.lane)
  /\ \A f \in Range(record.capabilities) : f.state = "Available"
  /\ IsInjective(Claimed(record)) /\ Range(Claimed(record)) = ExpectedCapabilities(record.lane)
  /\ IsInjective(record.shapes) /\ Range(record.shapes) = ExpectedShapes(record.lane)
-----------------------------------------------------------------------------
CatalogInit ==
  /\ records \in Offered
  /\ source \in {"reviewed", "test"}
  /\ phase = IF source = "reviewed" THEN "compile" ELSE "admit"
  /\ at = 1 /\ profiles = {}

Compile ==
  /\ phase = "compile"
  /\ phase' = IF \A r \in Range(records) : AsReviewed(r) THEN "admit" ELSE "panicked"
  /\ UNCHANGED <<records, source, at, profiles>>

Admit ==
  /\ phase = "admit"
  /\ IF at > Len(records) THEN phase' = "admitted" /\ UNCHANGED <<at, profiles>>
     ELSE IF RecordError(records[at]) # ""
     THEN /\ phase' = IF source = "reviewed" THEN "panicked" ELSE RecordError(records[at])
          /\ UNCHANGED <<at, profiles>>
     ELSE /\ at' = at + 1
          /\ profiles' = profiles \cup {Profile(records[at])}
          /\ UNCHANGED phase
  /\ UNCHANGED <<records, source>>

CatalogNext == Compile \/ Admit

\* resolve and resolve_identity: the first record that matches, if there is one.
First(matching) ==
  LET found == {i \in DOMAIN records : records[i] \in matching}
  IN IF found = {} THEN {} ELSE {records[Min(found)]}
Resolve(profile) == First({r \in Range(records) : r.profile = profile})
ResolveIdentity(identity) == First({r \in Range(records) : r.profile.identity = identity})
-----------------------------------------------------------------------------
(***************************************************************************)
(* ValidatedCapabilities::new, compiled for tests only (version.rs:1052):  *)
(* facts are [observation, release, api, minimum, mode, capabilities], a   *)
(* capability's fact is [capability, state, provenance, scope]; an absent  *)
(* release, version or scope is <<>>.                                      *)
(***************************************************************************)
Witnessed(fact) ==
  <<fact.state, fact.provenance>> \in
    {<<"Available", "NativeConformance">>, <<"Unavailable", "NativeConformance">>,
     <<"Unavailable", "DaemonResponse">>, <<"Unknown", "Unknown">>}

InScope(fact, facts) ==
  IF fact.state = "Unknown" THEN fact.scope = <<>>
  ELSE \E s \in Range(fact.scope) :
         /\ s.observation = facts.observation
         /\ <<s.release>> = facts.release /\ <<s.api>> = facts.api
         /\ s.mode = facts.mode

FactError(facts, i) ==
  LET fact == facts.capabilities[i] IN
  IF \E j \in 1 .. i - 1 : facts.capabilities[j].capability = fact.capability THEN "DuplicateCapability"
  ELSE IF ~Witnessed(fact) THEN "InvalidProvenance"
  ELSE IF ~InScope(fact, facts) THEN "ScopeMismatch"
  ELSE ""

FactsError(facts) ==
  LET wrong == {i \in DOMAIN facts.capabilities : FactError(facts, i) # ""} IN
  IF facts.release = <<>> \/ facts.api = <<>> \/ facts.mode = "Unknown" THEN "MissingDaemonIdentity"
  ELSE IF \E m \in Range(facts.minimum) : Below(facts.api[1], m) THEN "InvalidApiRange"
  ELSE IF wrong # {} THEN FactError(facts, Min(wrong))
  ELSE ""
=============================================================================
