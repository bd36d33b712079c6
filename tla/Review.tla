------------------------------- MODULE Review -------------------------------
(***************************************************************************)
(* Planning one resource under either of the two PlanningContexts of       *)
(* src/target_modules/graph.rs: a profile of the reviewed catalog, or a    *)
(* daemon a caller has claims about.  What the resource renders to is set  *)
(* against what the native evidence behind the context exercised.          *)
(***************************************************************************)
EXTENDS Catalog

CONSTANTS
  Profiles,    \* the TargetProfiles a caller may resolve
  Asked,       \* the resources planned
  Claims,      \* the DaemonFacts a caller may hold
  Proven       \* scope -> the capabilities native conformance found there

\* What the types of container.rs and network.rs let a caller author: the
\* variants of their enums, a relabelling of bind mounts only, every setting.
Authored(s) ==
  /\ s.kind \in {"Container", "Network", "Volume"}
  /\ s.kind = "Network" /\ ~s.external =>
       \A o \in Range(s.options) : o.option \in {"mtu", "icc", "masquerade", "host_binding"}
  /\ s.kind = "Container" =>
       /\ s.networks \in Seq(Range(s.networks))
       /\ \A m \in Range(s.mounts) :
            /\ m.type \in {"bind", "volume", "tmpfs"}
            /\ m.relabel = <<>> \/ (m.relabel \in {<<"shared">>, <<"private">>} /\ m.type = "bind")
       /\ \A h \in Range(s.healthcheck) : h.form \in {"exec", "shell", "disabled"}
       /\ \A r \in Range(s.restart) : r.name \in {"no", "always", "unless-stopped", "on-failure"}
       /\ DOMAIN s.settings = DOMAIN SettingCapabilities
       /\ \A log \in Range(s.settings.log) : log.driver \in {"json-file", "local", "none"}

\* Honest claims: what they call available by native conformance was found by
\* it, in the scope they name.
Honest(facts) ==
  \A f \in Range(facts.capabilities) : \A s \in Range(f.scope) :
    /\ s = [observation |-> s.observation, release |-> s.release, api |-> s.api, mode |-> s.mode]
    /\ f.state = "Available" /\ f.provenance = "NativeConformance" => f.capability \in Proven[s]

ASSUME ReviewAssumption ==
  /\ \A rs \in Offered : rs \in Seq(Range(rs))
  /\ \A s \in Asked : Authored(s)
  /\ \A facts \in Claims : facts.capabilities \in Seq(Range(facts.capabilities)) /\ Honest(facts)

VARIABLES plan    \* <<>>, or [context, resource, error]

vars == <<catalog, plan>>

Init == CatalogInit /\ plan = <<>>

CatalogStep == CatalogNext /\ UNCHANGED plan

\* OperationGraph::new for one resource that depends on nothing.
Planned(context, resource, supports, api, mode) ==
  plan' = <<[context |-> context, resource |-> resource,
             error |-> IF api[1] # 1 \/ Below(api, MinimumApi) THEN "UnsupportedApi"
                       ELSE ResourceError(resource, supports, mode)]>>

PlanTarget ==
  /\ phase = "admitted" /\ plan = <<>>
  /\ \E profile \in Profiles, resource \in Asked : \E record \in Resolve(profile) :
       LET i == profile.identity
       IN Planned([target |-> profile], resource, Available(record), i.rendering, i.mode)
  /\ UNCHANGED catalog

Scope(facts) ==
  [observation |-> facts.observation, release |-> facts.release[1], api |-> facts.api[1],
   mode |-> facts.mode]

PlanObserved ==
  /\ phase = "admitted" /\ plan = <<>>
  /\ \E facts \in Claims, resource \in Asked :
       /\ FactsError(facts) = ""
       /\ Planned([observed |-> Scope(facts)], resource,
                  Available(facts), facts.api[1], facts.mode)
  /\ UNCHANGED catalog

Next == CatalogStep \/ PlanTarget \/ PlanObserved

Spec == Init /\ [][Next]_vars
-----------------------------------------------------------------------------
(***************************************************************************)
(* Properties.                                                             *)
(***************************************************************************)
Accepted(p, kind) == p.error = "" /\ kind \in DOMAIN p.context

\* "Closed renderer branches that a positive catalog fact must cover": no
\* resource planned for a target makes the renderer take a branch that the
\* native evidence of that very profile did not exercise, through the planner's
\* table of fields, the two tables of shapes, the admission and the renderer.
RenderedIsReviewed ==
  \A p \in Range(plan) : Accepted(p, "target") =>
    \E record \in Range(records) :
      /\ record.profile = p.context.target
      /\ MatchesIdentity(record.lane, p.context.target.identity)
      /\ Branches(p.resource) \subseteq Range(record.shapes)

\* In an admitted catalog the identity of a target and its full profile lead to
\* the same evidence, so evidence for one build and mode is never lent to a
\* profile that names other evidence.
IdentityDeterminesEvidence ==
  phase = "admitted" =>
    \A profile \in Profiles :
      Resolve(profile) # {} => ResolveIdentity(profile.identity) = Resolve(profile)

\* Whatever mixture of honest claims about several daemons a caller holds, what
\* is planned for an observed daemon asks only for what conformance found on
\* that daemon, at that release, API version and mode, in that observation.
PlannedOnlyWhereProven ==
  \A p \in Range(plan) : Accepted(p, "observed") =>
    Requires(p.resource) \subseteq Proven[p.context.observed]
=============================================================================
