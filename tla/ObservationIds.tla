--------------------------- MODULE ObservationIds ---------------------------
(***************************************************************************)
(* ObservationId::fresh of src/version.rs.  Every budget takes its identity*)
(* from one process-wide atomic counter, and acquisitions run in as many   *)
(* threads as the caller likes.  fetch_update is the standard library's    *)
(* loop over a relaxed load and compare_exchange_weak, so other threads    *)
(* run between a thread's load and its exchange, and the exchange may fail *)
(* spuriously.                                                             *)
(***************************************************************************)
EXTENDS Integers, FiniteSets

CONSTANTS
  Threads,
  MaxU64,        \* u64::MAX
  None           \* Option::None

ASSUME ObservationAssumption ==
  MaxU64 \in Nat \ {0} /\ None \notin Threads /\ None \notin 0 .. MaxU64

VARIABLES
  NEXT_OBSERVATION_ID,    \* the static AtomicU64
  seen,                   \* thread -> the counter value it last saw, None outside fetch_update
  owner,                  \* id -> the thread `fresh` returned it to, or None
  exhausted               \* the threads `fresh` told Exhausted

vars == <<NEXT_OBSERVATION_ID, seen, owner, exhausted>>

Ids == 1 .. MaxU64

Init ==
  /\ NEXT_OBSERVATION_ID = 1
  /\ seen = [t \in Threads |-> None]
  /\ owner = [i \in Ids |-> None]
  /\ exhausted = {}

\* fetch_update's first load.
Load(t) ==
  /\ seen[t] = None
  /\ seen' = [seen EXCEPT ![t] = NEXT_OBSERVATION_ID]
  /\ UNCHANGED <<NEXT_OBSERVATION_ID, owner, exhausted>>

\* The closure: checked_add, None at the end of the range.
Successor_OneShort(next) == IF next + 1 = MaxU64 THEN None ELSE next + 1     \* mutant
Successor(next) == IF next = MaxU64 THEN None ELSE next + 1

GiveUp_TryAgain(t) ==     \* mutant: the loop goes on without a successor
  /\ seen[t] # None /\ Successor(seen[t]) = None
  /\ seen' = [seen EXCEPT ![t] = NEXT_OBSERVATION_ID]
  /\ exhausted' = exhausted \cup {t}
  /\ UNCHANGED <<NEXT_OBSERVATION_ID, owner>>

GiveUp(t) ==
  /\ seen[t] # None /\ Successor(seen[t]) = None
  /\ seen' = [seen EXCEPT ![t] = None]
  /\ exhausted' = exhausted \cup {t}
  /\ UNCHANGED <<NEXT_OBSERVATION_ID, owner>>

Exchange_Store(t) ==     \* mutant: a load and a store
  /\ seen[t] # None /\ Successor(seen[t]) # None
  /\ NEXT_OBSERVATION_ID' = Successor(seen[t])
  /\ owner' = [owner EXCEPT ![seen[t]] = t]
  /\ seen' = [seen EXCEPT ![t] = None]
  /\ UNCHANGED exhausted

\* The exchange succeeds on an unchanged counter and returns the old value.
Exchange(t) ==
  /\ seen[t] # None /\ Successor(seen[t]) # None
  /\ NEXT_OBSERVATION_ID = seen[t]
  /\ NEXT_OBSERVATION_ID' = Successor(seen[t])
  /\ owner' = [owner EXCEPT ![seen[t]] = t]
  /\ seen' = [seen EXCEPT ![t] = None]
  /\ UNCHANGED exhausted

\* It fails, because the counter moved or spuriously, and reports what it saw.
Retry(t) ==
  /\ seen[t] # None /\ Successor(seen[t]) # None
  /\ seen' = [seen EXCEPT ![t] = NEXT_OBSERVATION_ID]
  /\ UNCHANGED <<NEXT_OBSERVATION_ID, owner, exhausted>>

Next == \E t \in Threads : Load(t) \/ GiveUp(t) \/ Exchange(t) \/ Retry(t)

\* A thread inside fetch_update keeps running, and the weak exchange does not
\* fail spuriously for ever.
Fairness == \A t \in Threads : WF_vars(GiveUp(t) \/ Exchange(t) \/ Retry(t)) /\ SF_vars(Exchange(t))

Spec == Init /\ [][Next]_vars
FairSpec == Spec /\ Fairness
-----------------------------------------------------------------------------
TypeOK ==
  /\ NEXT_OBSERVATION_ID \in Ids
  /\ seen \in [Threads -> Ids \cup {None}]
  /\ owner \in [Ids -> Threads \cup {None}]
  /\ exhausted \subseteq Threads

\* What is issued is exactly what the counter has passed: no identity is lost
\* to a failed exchange, and the last value is never handed out.
IssuedIsPassed == \A i \in Ids : owner[i] # None <=> i < NEXT_OBSERVATION_ID

\* A stale load only lags: no thread is ahead of the counter.
NeverAhead == \A t \in Threads : seen[t] # None => seen[t] <= NEXT_OBSERVATION_ID

\* Exhausted is told only when every identity below u64::MAX is in use.
ExhaustedMeansNoneLeft ==
  exhausted # {} => \A i \in Ids \ {MaxU64} : owner[i] # None

\* Refinement: `fresh` never issues an identity twice, whatever the threads'
\* interleaving ("without reusing one within this process").
Unique == INSTANCE UniqueIds WITH Callers <- Threads, Ids <- Ids \ {MaxU64},
                                  owner <- [i \in Ids \ {MaxU64} |-> owner[i]]
NeverReused == Unique!Spec

\* Every call of `fresh` returns.
CallsReturn == \A t \in Threads : seen[t] # None ~> seen[t] = None
=============================================================================
