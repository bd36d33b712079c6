# docker-lens in TLA+

This directory is a verification development of docker-lens, a Rust library that
reads a Docker daemon through a bounded set of GET requests, decodes what it
captured, and plans and renders inert descriptions of requests for a target. It
holds TLA+ modules for parts of the library, TLC configurations that
model-check them on small instances, and TLAPS proofs for every instance. Source
paths below are relative to the repository (`src/...`).

Run a check with `tlc -config MCBudget.cfg MCBudget.tla`, a proof with
`tlapm BudgetProofs.tla`. `PROJECT.json` maps every definition to the lines it
translates and lists the runs, the hazards and the theorems.

Definitions named `X_Y` and marked `mutant` are deliberate faults: `X` as a
plausible bug would have it. No specification uses them. Putting `X_Y` in the
place of `X` makes TLC violate the property `PROJECT.json` pairs it with, which
shows that the property depends on the code being as it is.

## Inventory

| Part | Source | State | Operations | Modules |
|---|---|---|---|---|
| Budget | `acquisition.rs` 90-459, `evidence.rs` | counters, pending request, exchanges, reference <-> object maps, `failed`, start time | `new`, `record_request`, `record_selection`, `record_expansion`, `read_response`, `into_capture` | `Budget` |
| Observation identities | `version.rs` 7-24 | a process-wide `AtomicU64` | `ObservationId::fresh` | `ObservationIds`, `UniqueIds` |
| Walk | `acquisition.rs` 826-1337 | work lists of containers, networks and volumes, references, selected roots, name fallbacks, resolved network ids | `acquire`, `exchange`, `selected_ids`, `related_ids`, `inspect_identity` | `Acquire`, `Selection` |
| Transport | `acquisition.rs` 461-824 | a socket, its buffer, the deadline, the cancel flag | `connect`, `Wire`, `http_get` | `Transport` |
| Decoder | `decoder.rs`, `decoder_mount_mode.rs`, `observation.rs`, `finding.rs`, `resource_support.rs` | what the loop over a capture's exchanges remembers | `decode_capture`, `assess` | `Decode`, `JsonValues`, `Fields`, `Observations` |
| Capabilities | `version.rs`, `reviewed_catalog.rs` | the catalog under admission | `reviewed`, `from_records`, `resolve`, `resolve_identity`, `ValidatedCapabilities::new` | `Shapes`, `Catalog` |
| Target intent | `target_modules/{intent,container,network,volume}.rs` | what three passes remember of earlier resources | `TargetIntent::new_with_orchestration`, constructors of parts | `Intent`, `Subnet`, `Settings`, `Resources` |
| Graph | `target_modules/graph.rs` | the traversal's counters and stack | `OperationGraph::new`, `DockerPlanner::plan` | `Graph`, `Requirements` |
| Renderer | `target_modules/render.rs`, `render/*.rs` | emitted set, request stream, prerequisites; a body under construction | `render`, `complete_bytes` | `Render`, `Branches`, `Bodies` |
| Prerequisites | `target_modules/prerequisite.rs` | none | `assess` | `Prerequisite` |
| Native tooling and tests | `scripts/`, `native_*_tests.rs`, `target.rs` | | | none |

Compositions: `Replay` is `Acquire` with `Decode` on what it captured; `Supplied`
is `Decode` on captures a caller assembles; `Review` joins `Catalog`,
`Requirements` and `Branches`; `Render` extends `Graph`; `Rendered` takes a
resource through its constructors, `Bodies`, an Engine and `Observations`.

How they interact. `acquire` owns a budget for the length of one walk: each
request is recorded in it, sent through `http_get`, and its response read back
through it; `into_capture` ends the budget's life and the capture's constructor
re-checks the accounting. `Budget::new` takes the identity that later ties
observed facts, capabilities and prerequisites to one capture. The decoder
replays a capture's exchanges and recomputes the selection the walk made, with
the same `selected_ids`. A target intent, checked on construction, is planned
into a graph under a capability set and rendered to a request stream.

What is hard, and what makes each part correct:

- *Budget*. It is public API, used in any order by callers other than `acquire`.
  Limits are tested before, between and after the mutations they guard, the
  deadline can pass inside a read, and a failure must leave either an untouched
  budget or a poisoned one. Correct when accounting, limits, identity and the
  finality of failure survive every order of calls.
- *Identities*. Threads race on one atomic. Correct when no identity is issued
  twice and exhaustion is real.
- *Walk*. The daemon changes between reads (`docs/`: "captures are not atomic
  daemon snapshots"), networks are met by name and by id, the caller cancels.
  Correct when whatever is captured is closed, identified and accounted to its
  selection.
- *Transport*. Partial reads and writes, a full backlog, a silent daemon, chunk
  sizes near the allowance. Correct when it ends, and never accepts a truncated
  or over-long body.
- *Decoder*. It must agree with the walk on selection and identity, without
  having seen the daemon; and a withheld value (missing, null, redacted, or in a
  section that is) must never become data. Correct when what a walk captures
  decodes, and when withholding changes exactly the fields it touches.
- *Capabilities*. Evidence of one build and mode must not admit another, and four
  hand-written tables must agree. Correct when nothing is planned whose rendering
  the evidence did not exercise. `ValidatedCapabilities::new` is `#[cfg(test)]`
  (`version.rs:1052`): no build that is shipped makes a validated set of an observed
  daemon's capabilities, and what is said of such sets here is said of test builds.
- *Intent*. Host-port and address conflicts across containers; prefix arithmetic
  at the shift boundaries. Correct when an accepted intent could really exist:
  every socket and every address has one holder.
- *Graph and renderer*. A caller's planner supplies any node list; the traversal
  must count each dependency once, and the artifact's order must respect
  every dependency, connections of a second network included. A body is put
  together by hand from some forty optional members. Correct when what is decoded
  after rendering is what was authored.
- *Prerequisites*. `DecodedInventory` has public fields. Correct when success
  means one network, however the inventory was put together.

## Modules

The modules named `MC...` give the instances their constants. Eight modules hold
the theorems and lemmas; see *Proofs*.

| Proofs in | about |
|---|---|
| `BudgetProofs` | `Budget` |
| `IdentityProofs` | `ObservationIds` and its refinement of `UniqueIds`; `Prerequisite`, which compares those identities |
| `AcquireProofs` | `Acquire`, its use of `Budget` and what `BudgetProofs` says of that; `Replay`, its agreement with `Decode` |
| `DecodeProofs` | `Supplied` and `Decode`; `Withheld` and the mount modes of `Fields` |
| `TransportProofs` | `Transport` |
| `IntentProofs` | `Intent`, `Subnet` |
| `RenderProofs` | `Graph`, `Render`, and the refinement of `StepOrder` |
| `ReviewProofs` | `Review`, `Catalog`, and the tables of `Shapes`, `Requirements`, `Branches` |

### Budget

One action per operation of `Budget` (`acquisition.rs` 230-459). The object is
used through `&mut self`, so calls do not overlap; two things interleave with
them: the clock (`Tick`), and, inside `read_response`, the caller's blocking
reader. `read_response` is therefore `BeginRead` (the checks before the reader
runs), then `ReaderFails(n)` or `EndRead` with what the reader delivered and
charged. `outcome` is what the last call returned. `Refusals` are the errors
that leave a usable budget, `Poisons` those that set `failed`; the split is the
code's order of test and mutation, not an assumption. `IntoCapture` consumes the
budget (`owned`), with `Capture::from_completed`'s accounting test inside it.
Counters are machine words of `UsizeMax`; `Bumped` is `checked_add`.

Time is abstracted to ticks up to one past the limit: the code compares elapsed
time with the limit only.

### ObservationIds, UniqueIds

`fresh` is `fetch_update`: a relaxed load, then `compare_exchange_weak` in a
loop. `Load`, `Exchange`, `Retry` (a value changed under the thread, or a
spurious failure) and `GiveUp` are separate steps, so other threads run in
between. `UniqueIds` is what the code promises: an issuer that gives any
unissued identity to whoever asks. `NeverReused` is the refinement, by hiding
the counter (`owner` is the abstract state).

### Acquire

All of `acquire`, `exchange` and the functions it calls, over the *same* budget
definitions: `B == INSTANCE Budget`, and each request is `B!RecordRequest`, each
answer `B!EndRead` and so on. `pc` is what is being read, `phase` where
`exchange` stands (`send`, `connect`, `receive`, `read`). The daemon is a `world`
that may be swapped for another between any two steps; it answers each read
truthfully from the world of that moment, with a 404, or (with
`BadBodies`) with a body of the wrong shape. `Cancel` may set the caller's flag
at any step. Sockets are abstracted here to "answers, fails or stays silent";
`remaining` and the budget's own deadline test are kept apart because the code
compares `>=` in one and `>` in the other.

`networks` keeps the `by_name` flag per key and `Merge` its update when a key is
met again; `FreshNetwork` is the test of `inspected_network_ids`.

### Transport

One `http_get`: `Connect` and its retry (`sleep`, `slept`), `Write`, and reads at
the places the code reads (`head`, a `sized` body, or `size`, `chunk`, `crlf`,
`trailer`). Every sleep, read and write is a wait: `Begin` asks `remaining` and
sets `until` to a slice of the poll interval; the wait ends in data, an error,
the end of the stream, or `Again` (its time is up, or a signal). The daemon
delivers the tokens of a `message` one at a time, closes when it likes, or
stops. A message carries the `payload` its framing stands for. `Payload` is a
reference decoder of whole responses (a sized body, or `Chunks` back to front),
written apart from the reading actions; the instance states each payload and
`TransportAssumption` requires the two to agree. Lines are tokens: their text (header names, hexadecimal, chunk
extensions) is abstracted to what they say, and their length limits with it.

The Linux build is modelled; elsewhere `connect` blocks for a slice. A wait is
assumed to end when its time is up and instructions to take no time, so
`OnTime` says that the code cuts every wait short enough, not that the operating
system is prompt.

### Graph, Render, StepOrder

`Graph` is `OperationGraph::new`: `Validate` (the structural checks and the
counts), `Visit` (one pop of the ready stack), `Admit` (the cycle test and then
the capability checks, with their order, since the first error is
returned), and `DockerPlanner`'s node list as `PlannerNodes`. Hash-map order
decides how the first ready nodes are stacked, so that is left open. What a
resource's settings require is the operator `ResourceError` of `Requirements`.

`Render` extends it with the rendering loop over a built graph: `Emit` picks the
first emittable node in node order, writes its request or its prerequisites;
`Connect` writes one request per further attachment; `Emitted` marks the node.
The text of requests is layout and left out. `StepOrder` is the abstract
promise: each step of the plan once, none before its dependencies;
`DependencyOrdered` is the refinement, with requests written and prerequisites
listed as the steps taken.

### Selection, Decode, Replay, Supplied

`Selection` is `selected_ids`, which the walk and the decoder share in the code
and here. `Decode` is `decode_capture`: `Gathered`, the loop of `Exchange` over the
exchanges with the first error kept, and the checks after the loop as `Complete`
and `InRange`. `Malformed` is a body that is not JSON. Any other holds the facts the
function looks at and, as `fields`, the error with which the rest of it is refused,
`Ok` if it is not: its shape or a field of a wrong type, a contradictory mount mode,
a list entry that cannot be summarised. `Observations` has the decoders it comes
from. `/version` and `/info` have two, `fields` for what is decoded before their
release is compared and `rest` for what comes after; `/info` also reports a rootless
security option and the `Rootless` flag, which may contradict it. `MaxJson` and
`MaxCollection` are `MAX_JSON_BYTES` and `MAX_COLLECTION_ITEMS`.

`Replay` hands every capture of `Acquire` to `Decode` (`Handed`, with `Seen` the body
as the decoder reads it). The walk reads a few keys of a body, so the worlds of
`Acquire` carry the errors and reports above through it unread; `Objections` are the
reasons one exchange the walk accepted gives the decoder to refuse it, `Refusals`
those of a whole capture. `Supplied` builds captures exchange by exchange under the
only discipline `Budget` imposes.

### JsonValues, Fields, Observations, Withheld

`JsonValues` is the part every field goes through: `Descend` and `FieldValue`
(`field_value`), `Observed` (`observed`), typed accessors, bounded collections,
and the order in which errors leave a decoding. `Fields` has the values with a
syntax of their own. `Observations` has one table of rows for each struct the
decoder builds (name, path, category of error, origin, kind), in source order,
and the findings. Where the code parses text, a constant maps the texts of an
instance to what they parse to.

`Withheld` is the environment: a complete document of which values go missing,
become null, are redacted, or get a type nobody reads, in any order and at any
depth; and a mount mode that grows token by token.

### Subnet, Settings, Intent

`Intent` walks the resources three times, as the code does, and keeps what each
pass keeps (`identities`, `defaulted`, `fixed`, `statics`); a refusal ends it. `Subnet`
is the address arithmetic, at any width, next to `Members` and `Hosts`, the sets
it stands for. Paths are sequences of components, so `PathKey` does what
`lexical_absolute_path_key` does; devices are compared by their bytes, as in the
code, mounts by that key.

### Resources, Requirements, Shapes, Catalog, Branches, Review

`Resources` holds authored resources as records. `Requirements` is the table of
fields and capabilities in `OperationGraph::new`, with its refusals in order.
`Shapes` keeps both tables of `NativeCapabilityShape` as the source does, and the
admission sets of `reviewed_catalog.rs`. `Catalog` compiles and admits records one
at a time and validates claims about an observed daemon. `Branches` says which
branches of the renderer a resource takes, in the vocabulary of `Shapes`.
`Review` plans a resource under either kind of context.

### Bodies, Rendered

`Bodies` writes a request as the token sequence the renderer writes, commas
included, because where a comma goes is decided in twenty places: the first
fields test a flag and set it, later ones use `host_field_prefix`. `Parsed` is
the Engine's side of a comma. `Rendered` builds a resource through the
constructors that may refuse it (`Author`), renders it, has an external Engine
store it, split relabelled binds at their colons, connect further networks and
show it, and decodes what is shown. The Engine is the identity on what it
understands; it models no default of a real one.

### Prerequisite

An inventory grows entry by entry under a caller who may repeat references and
ids; `Assess` is `assess` with its sixteen refusals in order.

## Runs

| Run | Question | Bounds |
|---|---|---|
| `budget` | does any order of calls break accounting, limits, identity or finality? | 2 references, 2 objects (symmetric), 2 plain reads, word size 4, 3 requests, total 3 bytes |
| `observation_ids` | can racing threads share an identity? is exhaustion real? does every call return? | 3 threads, counter range 1..4 |
| `acquire_changing` | is what is captured closed, identified and decodable although the daemon changed, lied or died? | 4 worlds, 1 change anywhere in the walk, 11 selectors |
| `acquire_stable` | does an honest, unchanging daemon get refused only for aliases? does `acquire` return? | same worlds, no change, body sizes 1..3 |
| `transport` | is a body taken whole or refused for a cause, in time and within its allowance? | 14 messages, allowance 3 bytes, deadline 3, poll interval 2, request of 2 bytes |
| `planning` | are sound graphs built, unsound ones refused, and built ones rendered whole and in order? | 3 resources, 7 dependency lists per node, both node orders |
| `decode_supplied` | does the inventory depend on the order in which a caller read? | 21 exchanges, captures of up to 4 |
| `decode_fields` | is only what was withheld unavailable? does a mount mode depend on its order? | 10 structs with complete documents, 2 values withheld, 4 mount options, at most 3 accepted |
| `intent` | can what is accepted hold its sockets and addresses together? | addresses of 3 and 2 bits, every pair of subnets, 2 containers, 5 host addresses |
| `review` | is anything planned that the evidence behind it did not exercise? | the reviewed records, every record short of one capability, ten damaged ones; about a hundred resources; three scopes |
| `render_config` | does what was authored read back? | every pair of changes to the plainest container, networks with two pools, volumes |
| `prerequisite` | can an ambiguous inventory satisfy a prerequisite? | 11 networks, 6 roots, up to 3 entries, 2 references and scopes |

Why the bounds are enough. *budget*: each limit can be met exactly and exceeded
by one within the run, two references and two objects give every way of
re-binding (same pair, shared reference, shared object), and the word size is
close enough to the limits for `checked_add` to fail. *observation_ids*: three
threads allow one to lose its exchange to two others, and the range is small
enough to be exhausted while calls are in flight. *acquire*: two containers are
the fewest that mention one network under two keys; the worlds were chosen so
that one walk can meet a recreated network, an endpoint without an id, a network
whose name is its id, one whose name is another's id, and a container or volume
that went away. One change is enough for every pair of reads to straddle it
(the proofs cover any number). The request, expansion and byte limits are
met in some walks, and every
error the code can return is reached except those `NoInternalError` excludes. Each
cause for which the decoder may refuse a capture occurs in one of the worlds, and in
some walk alone: an undecodable field in a container, a network, a volume, a list
entry, `/version` and either part of `/info`, a denied rootless option, an `/info`
that is not JSON, a release that changes, and a walk of more than `MaxCollection` = 6
exchanges, which is inside the request limit.
*transport*: bodies end just below, at and one past the allowance, in one chunk
and in two, so the second chunk is measured against what the first left; the
deadline is not a multiple of the poll interval, so the last slice is shorter.
*planning*: three nodes carry a cycle of two behind, or before, an acyclic node,
duplicate listings, and an external network in front of a connection.
*decode_supplied*: four exchanges hold both reports, a list and an inspection, or
two inspections that collide with one another, in every order; one body is larger than
`MaxJson`, and some have undecodable fields. *decode_fields*:
two withheld values are enough for one to lie inside the section the other
withholds, and for two errors to compete for the first place; four options with
at most three accepted put an unknown one before and behind every pair. *intent*:
conflicts relate two bindings, two pools or two holders, and two bits are the
fewest in which a host prefix, the one before it, an inner one and prefix 0
differ; nothing in the arithmetic depends on the width but the shift. *review*: a
branch belongs to one capability, so a record short of one capability tells
whether any field reaches a branch past its check; the scopes differ from one
another in the mode alone and in observation and release. *render_config*: a comma
or a misread separator needs a member before and one after. *prerequisite*: two
entries make every ambiguity, the third stands beside it.

What the properties say:

- `RequestsAccounted`, `AccountingNeverFails`: every counted request of a usable
  budget is an exchange or the outstanding one; the capture's cross-check never
  refuses.
- `LimitsHeld`: no limit is passed by a usable budget or a capture.
- `OneToOne`, `BindingsAreRead`: a reference means one object, an object one
  reference, and every binding of a usable budget was really inspected.
- `FailureIsFinal`: a failed budget is useless.
- `ExhaustedMeansNoneLeft`, `NeverReused`, `CallsReturn`.
- `NoInternalError`: the walk never trips over its own bookkeeping.
- `ExpansionsExceeded`: a walk refused for its expansions really knew of more objects
  than it may inspect (named by the caller, selected from the list it read, mentioned
  by a container it read); nothing shared, listed or mentioned twice is counted twice.
- `CaptureIsClosed`, `FallbackMeansNameOnly`, `CaptureIdentified`,
  `NoAliasCaptured`, `RootsMatchSelection`: what a capture promises its decoder;
  `CaptureDecodes`: the decoder agrees with the walk on selection, identity, aliases,
  completeness and API range. It refuses a capture of `acquire` exactly when that
  holds what the walk does not look for, and with the error of one of these: a field
  the walk never read (of `/version`, `/info`, a listed or an inspected object) does
  not decode; `/info` is not JSON or denies its own rootless option; the two reports
  name different releases; there are more exchanges than `MAX_COLLECTION_ITEMS`.
- `AbandonedIsFinal`: a walk cancelled or out of time before its last test of
  either is not captured, late answers included. (A cancellation after that test
  is; the code has no later one.)
- `StableRefusal`, `Terminates`.
- `WholeOrNothing`, `RefusedForCause`, `BodyBounded`, `OnTime`, `Ends`.
- `CountersExact` (`*count -= 1` never wraps), `CycleIsReal`,
  `PlannerNeverRefused`, `NeverStuck` (the renderer's `InvalidGraph` cannot
  happen for a built graph), `EverythingRendered`, `DependencyOrdered`.
- `OrderIrrelevant`: exchanging two neighbours of a caller's capture neither turns
  a refusal into an inventory nor changes what the inventory says. Any order is
  reached by such exchanges. Which of two errors is reported may change.
- `WithheldExactly`, `ModeByTokens`.
- `SocketsDisjoint`: no two fixed bindings of an accepted intent would hold one
  socket, counting everything a wildcard listens on. `AddressesHeldOnce`: the
  gateway, auxiliary and static addresses of a created network are distinct and
  each is a host address of exactly one pool.
- `RenderedIsReviewed`, `IdentityDeterminesEvidence`.
- `RenderDecodesBack`, `SelectionUnambiguous`.

Fairness. `CallsReturn` assumes each thread keeps running and that a weak
exchange does not fail spuriously forever, which is the contract of
`compare_exchange_weak`; it does not assume a thread wins when others keep
changing the counter, since each change brings the counter nearer its end.
`Terminates` assumes that the process keeps running (`WF(Own)`) and that time
passes (`WF(Tick)`). `Ends` assumes the thread runs, that a wait which is over ends, and
that time passes even if signals keep interrupting waits (`SF(Tick)`: a wait
interrupted for ever would otherwise never let the clock move). Nothing is assumed of the daemon, of the caller's flag or
of an answer ever coming.

Deadlock checking is off where the system really stops: a consumed budget, a
walk that has returned, a graph that was refused or rendered, an intent, plan or
assessment that has its answer, a document or capture that is at its bound.

## Proofs

TLAPS proves what follows for all values of the constants that satisfy the named
assumptions. Those are `BudgetAssumption`, `ObservationAssumption`,
`TransportAssumption`, `AuthoredAssumption` and `BitsAssumption` (`Intent`,
`Subnet`), `MaxI64Assumption` (`Settings`), `InputsAssumption` (`Graph`),
`OutcomeAssumption` (`Render`), `AcquireAssumption` and `DaemonAssumption`
(`Acquire`), `ReplayAssumption`, `SuppliedAssumption`, `ModeAssumption` (`Fields`),
`RootsAssumption` (`Prerequisite`) and `ReviewAssumption`. They say what the types of the source
say: limits are machine words, a sequence is a sequence, an address fits its
family, a subnet passed its constructor, `None` is none of the values it stands in
for. Four say more, each because of something outside the module. In
`TransportAssumption` a message's payload is what `Payload` decodes.
`DaemonAssumption` is what is true of any daemon: an `Id` names one network, and
an answer from a world is not `Malformed` (`BadBodies` is where that comes from).
`InputsAssumption` gives the resources of an intent distinct references, which
`TargetIntent` has checked. `ReviewAssumption` takes resources as their
constructors let them be authored and claims about a daemon that are honest. TLC
evaluates all of them on every run.

**Budget** (`BudgetProofs`). `BudgetInvariant` is `Spec => []BudgetInv`; from it
follow `TypeOK`, `RequestsAccounted`, `LimitsHeld`, `OneToOne`, `BindingsAreRead`
and the action properties `FailureIsFinal` and `BindingsPermanent`. `LimitsHeld`
is not inductive by itself: that a completed response fits the total limit follows
from the allowance computed when the read began, so the invariant needs that
nothing but the clock moved since (`ReadingExpectsAnswer`), and the sentinel byte
needs `OverrunBounded` for the types. `BindingsAreRead` needs `OneToOne` (a new
binding must not displace one) and `ReadsBound`. The step is proved one operation
at a time; calls that change no accounting share `Quiet` and `Charged`.
`CapturesAreAccounted` is `AccountingNeverFails`: the bytes charged are the sum over
the exchanges. That sum is a running total, a recursive function, of which one
has to prove that it exists and what one more exchange adds. Both need induction
over the naturals, here derived from the well-foundedness of finite sets
(`LeastElement`, `Induction`).

**Identities** (`IdentityProofs`). What is issued is exactly what the counter
has passed and no thread's view is ahead of the counter (`IdsInvariant`); hence
`ExhaustionIsReal`, and `IdsAreNeverReused`: the lock-free counter implements
`UniqueIds`, for any set of threads and any width.

**Walk** (`AcquireProofs`), in layers. `WalkInv` says what the walk is about:
which request is outstanding, for whom, and what kind of answer it can get. With
it every step of the walk is a step of the budget or leaves it alone
(`WalkUsesBudget`: `Spec => B!Spec`), so all of `BudgetInv` holds of the budget inside the
walk. `LedgerInv` then relates the exchanges made so far to the work lists:
completed inspections carry the references 1, 2, 3... once each, what is inspected
and what is still to be are together what was listed, chosen or mentioned, and
`network_name_fallbacks` holds the networks so far known by name only. At the
last step it gives `CaptureIsClosed`, `FallbackMeansNameOnly`,
`CaptureIdentified`, `NoAliasCaptured` and `RootsMatchSelection`, and along the way
`NoInternalError`, since no request the walk makes can meet one of the budget's
refusals but for its limits. `AbandonedIsFinal` has an invariant of its own: once
cancelled or late before its last look, the walk is never past it. Nothing so far
bounds how often the daemon changes. `StableDaemonsAreRefusedForCause` is about a
daemon that never does and answers no nonsense (`Stable`, the hypothesis of the
theorem and the constants of `acquire_stable`): `SteadyInv` adds that every exchange
and the answer being read come from the one world there is, so a lookup that
fails shows a network of that world met under two keys or in the wrong role.

`CapturesDecode` is the agreement of the two halves of the library, and assumes
nothing about how often the daemon changes or what the bodies hold besides the keys
the walk reads. `ChronicleInv` adds to the ledger what it forgets, the order:
version, info, for five of the selectors the list, and then inspections, each usable,
inside `MaxJson` (`Fitting`) and under a reference of its own. Over a captured
chronicle `Sound` describes what the decoder's loop carries after n exchanges, by
induction on n: either it was refused, for one of the `Refusals` of the capture, or the
exchanges so far give none (`Clean`) and it has noted the one API version, the
list, and exactly the objects inspected (`GatheredSound`). That step takes one lemma
for each kind of body (`VersionRead`, `InfoRead`, `ListRead`, `InspectionRead`): whatever
refuses it is one of its `Objections` (`Objecting`) or a second release (`Telling`), and
otherwise it has none. At the last exchange the checks after the loop ask for what
`CaptureIsClosed`, `CaptureIdentified` and `RootsMatchSelection` say of the capture, both
sides select from one list with one function (`SameMatches`, `SameFailure`), and a
capture clean to its end has no refusal left (`NothingToRefuse`). So a capture is
refused if and only if `Refusals` is not empty, and always for a member of it.

**Decoder** (`DecodeProofs`). `OrderDoesNotMatter`: what one exchange does to the
loop's state is written as a record `After` and a condition `Takes`, and the code is
shown to do just that, operation by operation (`VersionReads`, `InfoReads`,
`ListReads`, `InspectionReads`; together `Reading`). In `After` a field either grows by
union or is settled by the one exchange allowed to; so two exchanges that are
both taken commute, and if one excludes the other it does so in either order
(`Together`, `Commute`). Induction over the exchanges carries equal states from
behind the swapped pair to the end, and a refusal as well, since the first error is
kept (`SwappedGather`). The theorem exchanges two neighbours, any two in any capture; that
such exchanges compose to every order is not itself proved. `ModesMeanTheirOptions`: the state of the scan after n options
is described by the options alone (`ScannedTo`): refused if there are more than
`MaxModeTokens`, an empty one, or two of one class; otherwise holding the one option
of each class it met. One option more keeps the description (`Step`), and at the last
one it is `ModeByTokens`. Both loops are recursive functions, of which one has to
prove that they exist (`LoopRuns`, `ScanRuns`).

**Transport** (`TransportProofs`). `BodyBounded` needs that what is still to be
read fits (`NeedFits`); `OnTime` needs that the wait in progress ends by the
deadline and one poll interval after now (`WaitsEndInTime`), since a cancellation may
come in the middle of it. `WholeOrNothing` and `RefusedForCause` rest on `ReadInv`:
at each place of the reader, the payload of the message is the body held so far,
what the current piece still lacks, and what the reference decoder makes of the
tokens behind it. It holds however the response is cut into reads and waits.

**Intent** (`IntentProofs`). `AcceptedSocketsAreDisjoint`: the property speaks of all
bindings, the code compares each with those pushed before it; the invariant says
that during the second walk `fixed` is exactly what the resources before the cursor
bound (`Walked`), pairwise on different sockets (`NoneShared`), and that
`host_ip_overlaps` is symmetric and misses no address two bindings both listen on.
`AddressesHaveOneHolder` adds the same for `statics`, and that every resource
before the cursor passed its checks (`AddressInv`). The rest is arithmetic: 2^n
doubles (it counts subsets), a subnet is a block whose base is a multiple of its
size, masking finds exactly the members of the block (`ContainsIsMember`), two
blocks that meet are one inside the other (`BlocksNest`), and
`contains_usable_host` admits hosts only (`UsableIsHost`). So two addresses that
are equal are in one pool, and there the code has compared them.

**Graph and renderer** (`RenderProofs`). `TraversalCounts` and `CyclesFound`: what
remains of a node is what it depends on and has not been visited, and no node of a
cycle is ever visited (of its nodes the first visited would need another before
it); conversely what a finished traversal leaves is such a set. `PlannerAccepted`:
the nodes the planner derives name each resource once and depend on references
that resolve. `RendererProceeds`: of an acyclic graph with nodes left one has all
its dependencies emitted. `ArtifactComplete` and `ArtifactOrdered`: `RenderInv`
says which steps stand in the request stream and among the prerequisites at each
point of the loop, connections included; each `Emit` and `Connect` is then a step of
`StepOrder` and the rest stutter.

**Capabilities** (`ReviewProofs`). The heart is a fact about tables the code keeps
in three places: each branch the renderer takes for a resource is evidence
required for some capability the planner requires of it. It is proved field by
field (`PortShown`, `MountShown`, ..., `BranchesShown`). `CatalogInv` says what
admission has established of the records before the cursor: evidence for all their
capabilities, and no two records with one profile. From these `PlannedIsReviewed` and
`OneRecordForAnIdentity`. `ObservedPlansAreProven` follows from the checks of
`ValidatedCapabilities::new` on honest claims: `PlannedOnlyWhereProven`, which is proved
only, no run being spent on a constructor that is compiled for tests (see
*Inventory*).

**Prerequisites** (`IdentityProofs`). `AcceptedIsUnambiguous`: the sixteen
refusals in their order leave one network, one root and one reference
(`AssessedUnambiguous`), and a verdict is about the inventory as it stands
(`VerdictInv`).

Only model-checked:

- liveness (`CallsReturn`, `Terminates`, `Ends`): out of the prover's reach;
- `ExpansionsExceeded`: it would need, kind by kind, that what is inspected and what is
  left are disjoint and what their cardinalities add up to, where `LedgerInv` counts
  all kinds together;
- `WithheldExactly`, `RenderDecodesBack`: both speak of whole documents that go
  through `Struct`, `Observed` and `InOrder`, operators that take a parser as an
  argument, over rows and documents that are constants. What such an operator
  returns cannot be stated once for every parser (a lemma would have to
  quantify over operators), and written out for each field
  it would be the tables again. `RenderDecodesBack` moreover meets `FoldLeft` over the
  text of a body.

## Not modelled

- JSON text: parsing, escaping, and percent-encoding of paths. `complete_bytes`,
  the document in which a rendered artifact and its context are written out; it
  changes no state and its layout is versioned text.
- The byte grammars of names, images, labels, users, tokens and addresses: a
  constructor that only checks a grammar is a model value that passed it. The
  evidence documents of `reviewed_catalog.rs` are the records built from them,
  hashes and runs left out.
- A network called `default`, `bridge`, `host` or `none` is accepted by
  `valid_identity` and reads back as that mode; the instances of `Rendered` have no
  such name.
- The mode of a tmpfs mount, which is rendered and which no decoder field reads.
- What an Engine does on its own: defaults, SELinux, allocation of ports and
  addresses. Network drivers other than bridge are refused before planning.
- The text of HTTP lines, and `connect` on systems other than Linux.
- The shell and Python of `scripts/`, which drive real engines, the native
  tests, and `target.rs`, which holds re-exports and unit tests: they are not the
  library's logic.

## Plan

Models left, in order of how much they add: the context document of
`complete_bytes` against `PlanningContext`; two changes of the daemon in one walk;
`Intent`, `Graph` and `Render` as one specification, so that planning starts from
accepted intents only.

Theorems to prove next: the field-by-field step under `WithheldExactly`, that
`Descend` through a changed member reads what `Cause` says, which needs no parser;
and that any reordering of a caller's exchanges, not only one swap of neighbours,
leaves the inventory alone, by counting inversions.
