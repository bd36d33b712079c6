---------------------------- MODULE BudgetProofs ----------------------------
(***************************************************************************)
(* Budget's invariants hold for every choice of limits, references and     *)
(* native objects.  BudgetInv is inductive: its step is proved operation   *)
(* by operation, the calls that only charge a counter or only refuse being *)
(* instances of two lemmas (Quiet, Charged).                               *)
(***************************************************************************)
EXTENDS Budget, FiniteSetTheorems, WellFoundedInduction, TLAPS

(***************************************************************************)
(* Induction over the naturals, from the well-foundedness of finite sets.  *)
(***************************************************************************)

\* A set of naturals has a least element.
LEMMA LeastElement ==
  ASSUME NEW T \in SUBSET Nat, T # {}
  PROVE  \E x \in T : \A y \in T : x <= y
<1>1. PICK n \in T : TRUE
  OBVIOUS
<1>2. IsFiniteSet(0 .. n)
  BY <1>1, FS_Interval
<1> DEFINE F == {0 .. m : m \in {k \in T : k <= n}}
<1>3. F \subseteq SUBSET (0 .. n) /\ F # {}
  BY <1>1
<1>4. PICK s \in F : \A t \in F : ~ (<<t, s>> \in StrictSubsetOrdering(0 .. n))
  <2>1. IsWellFoundedOn(StrictSubsetOrdering(0 .. n), SUBSET (0 .. n))
    BY <1>2, FS_StrictSubsetOrderingWellFounded, FS_FiniteSubsetsOfFinite
  <2>. QED BY <1>3, <2>1, WFMin
<1>5. PICK x \in T : x <= n /\ s = 0 .. x
  BY <1>4
<1>6. ASSUME NEW y \in T, y < x PROVE FALSE
  <2>1. 0 .. y \in F /\ 0 .. y \subseteq 0 .. x /\ 0 .. y # 0 .. x
    BY <1>5, <1>6
  <2>2. <<0 .. y, 0 .. x>> \in StrictSubsetOrdering(0 .. n)
    BY <1>3, <1>5, <2>1 DEF StrictSubsetOrdering
  <2>. QED BY <1>4, <1>5, <2>1, <2>2
<1>. QED BY <1>5, <1>6

\* A set that has zero and every successor of what it has, has every natural.
LEMMA Induction ==
  \A T : 0 \in T /\ (\A n \in Nat : n \in T => n + 1 \in T) => \A n \in Nat : n \in T
<1>. SUFFICES ASSUME NEW T, 0 \in T, \A n \in Nat : n \in T => n + 1 \in T, Nat \ T # {} PROVE FALSE
  OBVIOUS
<1>1. PICK x \in Nat \ T : \A y \in Nat \ T : x <= y
  BY LeastElement
<1>2. x - 1 \in Nat /\ x - 1 \notin Nat \ T
  BY <1>1
<1>. QED BY <1>1, <1>2

(***************************************************************************)
(* The bytes of all the responses, one response at a time.                 *)
(***************************************************************************)
Fills(f, es, m) == f = [n \in 0 .. m |-> IF n = 0 THEN 0 ELSE f[n - 1] + es[n].len]

\* The running total is a function.
LEMMA RunningTotal ==
  ASSUME NEW es, NEW m \in Nat
  PROVE  \E f : Fills(f, es, m)
<1> DEFINE T == {n \in Nat : \E f : Fills(f, es, n)}
<1>1. 0 \in T
  <2> DEFINE f == [n \in 0 .. 0 |-> 0]
  <2>1. Fills(f, es, 0)
    BY DEF Fills
  <2>. QED BY <2>1
<1>2. ASSUME NEW k \in Nat, k \in T PROVE k + 1 \in T
  <2>1. PICK f : Fills(f, es, k)
    BY <1>2
  <2> DEFINE g == [n \in 0 .. k + 1 |-> IF n = k + 1 THEN f[k] + es[n].len ELSE f[n]]
  <2>2. ASSUME NEW n \in 0 .. k + 1
        PROVE  g[n] = IF n = 0 THEN 0 ELSE g[n - 1] + es[n].len
    <3>1. CASE n = k + 1
      <4>1. k \in 0 .. k + 1 /\ n # 0 /\ n - 1 = k /\ k # k + 1
        BY <3>1
      <4>. QED BY <3>1, <4>1
    <3>2. CASE n # k + 1
      <4>1. n \in 0 .. k /\ (n # 0 => n - 1 \in 0 .. k /\ n - 1 # k + 1)
        BY <3>2
      <4>2. f[n] = IF n = 0 THEN 0 ELSE f[n - 1] + es[n].len
        BY <2>1, <4>1 DEF Fills
      <4>. QED BY <3>2, <4>1, <4>2
    <3>. QED BY <3>1, <3>2
  <2>3. Fills(g, es, k + 1)
    BY <2>2 DEF Fills
  <2> HIDE DEF g
  <2>. QED BY <2>3
<1> HIDE DEF T
<1>3. m \in T
  BY <1>1, <1>2, Induction
<1>. QED BY <1>3 DEF T

\* One more response adds its own bytes.
LEMMA TotalLenAppend ==
  ASSUME NEW S, NEW es \in Seq(S), NEW e \in S
  PROVE  TotalLen(Append(es, e)) = TotalLen(es) + e.len
<1> DEFINE new == Append(es, e)
           s == CHOOSE f : Fills(f, es, Len(es))
           t == CHOOSE f : Fills(f, new, Len(new))
<1>1. /\ Len(es) \in Nat /\ Len(new) = Len(es) + 1 /\ new[Len(es) + 1] = e
      /\ \A n \in 1 .. Len(es) : new[n] = es[n]
  OBVIOUS
<1>2. s = [n \in 0 .. Len(es) |-> IF n = 0 THEN 0 ELSE s[n - 1] + es[n].len]
  BY <1>1, RunningTotal DEF Fills
<1>3. t = [n \in 0 .. Len(new) |-> IF n = 0 THEN 0 ELSE t[n - 1] + new[n].len]
  <2>1. \E f : Fills(f, new, Len(new))
    <3>1. Len(new) \in Nat
      BY <1>1
    <3> HIDE DEF new
    <3>. QED BY <3>1, RunningTotal
  <2>. QED BY <2>1 DEF Fills
<1>4. TotalLen(es) = s[Len(es)] /\ TotalLen(new) = t[Len(new)]
  BY DEF TotalLen, Fills
<1> HIDE DEF s, t, new
<1> DEFINE T == {n \in Nat : n <= Len(es) => t[n] = s[n]}
<1>5. 0 \in T
  BY <1>1, <1>2, <1>3
<1>6. ASSUME NEW n \in Nat, n \in T PROVE n + 1 \in T
  <2>. SUFFICES ASSUME n + 1 <= Len(es) PROVE t[n + 1] = s[n + 1]
    OBVIOUS
  <2>1. n + 1 \in 1 .. Len(es) /\ n + 1 \in 0 .. Len(new) /\ n + 1 # 0 /\ (n + 1) - 1 = n
        /\ n + 1 \in 0 .. Len(es)
    BY <1>1
  <2>2. t[n + 1] = t[n] + new[n + 1].len /\ s[n + 1] = s[n] + es[n + 1].len
    BY <1>2, <1>3, <2>1
  <2>3. t[n] = s[n] /\ new[n + 1] = es[n + 1]
    BY <1>1, <1>6, <2>1
  <2>. QED BY <2>2, <2>3
<1> HIDE DEF T
<1>7. Len(es) \in T
  BY <1>1, <1>5, <1>6, Induction
<1>8. t[Len(new)] = t[Len(es)] + e.len
  <2>1. Len(es) + 1 \in 0 .. Len(new) /\ Len(es) + 1 # 0 /\ (Len(es) + 1) - 1 = Len(es)
    BY <1>1
  <2>. QED BY <1>1, <1>3, <2>1
<1>. QED BY <1>1, <1>4, <1>7, <1>8 DEF T, new

\* Nothing read, nothing to count.
LEMMA TotalLenEmpty == TotalLen(<<>>) = 0
<1> DEFINE s == CHOOSE f : Fills(f, <<>>, Len(<<>>))
<1>1. Len(<<>>) = 0
  OBVIOUS
<1>2. s = [n \in 0 .. 0 |-> IF n = 0 THEN 0 ELSE s[n - 1] + <<>>[n].len]
  BY <1>1, RunningTotal DEF Fills
<1>3. TotalLen(<<>>) = s[Len(<<>>)]
  BY DEF TotalLen, Fills
<1> HIDE DEF s
<1>. QED BY <1>1, <1>2, <1>3

\* What the exchanges hold after read_response pushes one more.
LEMMA RangeAppend ==
  ASSUME NEW S, NEW s \in Seq(S), NEW x \in S
  PROVE  Range(Append(s, x)) = Range(s) \cup {x}
<1>1. DOMAIN Append(s, x) = DOMAIN s \cup {Len(s) + 1}
  OBVIOUS
<1>2. \A i \in DOMAIN s : Append(s, x)[i] = s[i]
  OBVIOUS
<1>3. Append(s, x)[Len(s) + 1] = x
  OBVIOUS
<1>. QED BY <1>1, <1>2, <1>3 DEF Range

\* The constants are naturals once Limits::validate has accepted them.
LEMMA Limits ==
  /\ UsizeMax \in Nat /\ MaxElapsed \in Nat
  /\ MaxRequests \in Nat /\ MaxSelected \in Nat /\ MaxExpansions \in Nat
  /\ MaxResponse \in Nat /\ MaxTotal \in Nat
  /\ MaxRequests \in 1 .. UsizeMax /\ MaxSelected \in 1 .. UsizeMax
  /\ MaxExpansions \in 1 .. UsizeMax /\ MaxTotal \in 1 .. UsizeMax
  /\ MaxResponse \in 1 .. MaxTotal
  BY BudgetAssumption DEF BudgetAssumption, ValidLimits

\* A budget fresh from Budget::new satisfies the invariant.
LEMMA InitInv == Init => BudgetInv
<1>. SUFFICES ASSUME Init PROVE BudgetInv
  OBVIOUS
<1>1. TypeOK
  <2>1. /\ clock \in 0 .. MaxElapsed + 1
        /\ requests \in 0 .. UsizeMax /\ selected_resources \in 0 .. UsizeMax
        /\ expansions \in 0 .. UsizeMax /\ bytes_read \in 0 .. UsizeMax
    BY Limits DEF Init
  <2>2. pending \in Pending \cup {None} /\ exchanges \in Seq(Exchange)
    BY DEF Init
  <2>3. /\ resource_ids \in [Refs -> Objects \cup {None}]
        /\ native_refs \in [Objects -> Refs \cup {None}]
    BY DEF Init
  <2>4. failed \in BOOLEAN /\ reading \in BOOLEAN /\ owned \in BOOLEAN
    BY DEF Init
  <2>5. outcome \in Outcomes
    BY DEF Init, Outcomes
  <2>6. capture \in [bounds : Bounds, exchanges : Seq(Exchange)] \cup {None}
    BY DEF Init
  <2>. QED
    BY <2>1, <2>2, <2>3, <2>4, <2>5, <2>6 DEF TypeOK
<1>2. RequestsAccounted /\ LimitsHeld /\ OverrunBounded /\ ReadingExpectsAnswer
  BY Limits DEF Init, RequestsAccounted, LimitsHeld, OverrunBounded, WithinLimits, Counts,
     ReadingExpectsAnswer
<1>3. OneToOne
  BY BudgetAssumption DEF Init, OneToOne, BudgetAssumption
<1>4. ReadsBound /\ BindingsAreRead
  BY DEF Init, ReadsBound, BindingsAreRead, Recorded, Range
<1>. QED
  BY <1>1, <1>2, <1>3, <1>4 DEF BudgetInv

\* A call that changes no count, binding or exchange and forgives no failure.
LEMMA Quiet ==
  ASSUME BudgetInv, TypeOK', ReadingExpectsAnswer', UNCHANGED <<budget, capture>>,
         failed => failed'
  PROVE  BudgetInv'
<1>1. RequestsAccounted' /\ OverrunBounded'
  BY DEF BudgetInv, RequestsAccounted, OverrunBounded, budget
<1>2. LimitsHeld'
  BY DEF BudgetInv, LimitsHeld, WithinLimits, Counts, budget
<1>3. OneToOne' /\ ReadsBound' /\ BindingsAreRead'
  BY DEF BudgetInv, OneToOne, ReadsBound, BindingsAreRead, Recorded, budget
<1>. QED
  BY <1>1, <1>2, <1>3 DEF BudgetInv

\* A call that only charges a counter, and poisons the budget when it over-runs.
LEMMA Charged ==
  ASSUME BudgetInv, TypeOK', ReadingExpectsAnswer', OverrunBounded',
         UNCHANGED <<pending, exchanges, resource_ids, native_refs, capture>>,
         failed => failed',
         ~failed' => requests' = requests /\ WithinLimits(Counts)'
  PROVE  BudgetInv'
<1>1. RequestsAccounted'
  BY DEF BudgetInv, RequestsAccounted
<1>2. LimitsHeld'
  BY DEF BudgetInv, LimitsHeld
<1>3. OneToOne' /\ ReadsBound' /\ BindingsAreRead'
  BY DEF BudgetInv, OneToOne, ReadsBound, BindingsAreRead, Recorded
<1>. QED
  BY <1>1, <1>2, <1>3 DEF BudgetInv

\* A call that check_time refuses leaves the budget poisoned.
LEMMA CheckTimeType ==
  ASSUME TypeOK, CheckTimeFails
  PROVE  failed' = TRUE /\ outcome' \in Outcomes
<1>1. failed' = TRUE
  BY DEF CheckTimeFails, TypeOK
<1>2. outcome' \in Outcomes
  BY DEF CheckTimeFails, Outcomes, Poisons
<1>. QED
  BY <1>1, <1>2

\* Time passing changes nothing the invariant speaks of.
LEMMA TickInv == ASSUME BudgetInv, Tick PROVE BudgetInv'
<1>1. TypeOK'
  <2>1. clock' \in 0 .. MaxElapsed + 1
    BY Limits DEF BudgetInv, TypeOK, Tick
  <2>. QED
    BY <2>1 DEF BudgetInv, TypeOK, Tick, budget
<1>2. ReadingExpectsAnswer'
  BY DEF BudgetInv, ReadingExpectsAnswer, Tick, budget
<1>. QED
  BY <1>1, <1>2, Quiet DEF Tick

\* record_selection keeps the invariant: within the limit, or poisoned.
LEMMA RecordSelectionInv ==
  ASSUME BudgetInv, NEW n \in 0 .. UsizeMax, RecordSelection(n) PROVE BudgetInv'
<1>. USE DEF BudgetInv
<1>1. /\ selected_resources' \in 0 .. UsizeMax
      /\ failed' \in BOOLEAN /\ (failed => failed')
      /\ ~failed' => selected_resources' <= MaxSelected
  <2>1. CASE ~Timely
    <3>1. TypeOK /\ CheckTimeFails /\ UNCHANGED selected_resources
      BY <2>1 DEF RecordSelection
    <3>2. failed' /\ failed' \in BOOLEAN
      BY <3>1, CheckTimeType
    <3>3. selected_resources' \in 0 .. UsizeMax
      BY <3>1 DEF TypeOK
    <3>. QED
      BY <3>2, <3>3
  <2>2. CASE Timely
    <3>1. CASE Fits(selected_resources, n, MaxSelected)
      <4>1. failed' = failed /\ selected_resources' = Bumped(selected_resources, n) /\ TypeOK
        BY <2>2, <3>1 DEF RecordSelection, Accept, Timely
      <4>2. selected_resources' \in 0 .. UsizeMax /\ selected_resources' <= MaxSelected
        BY <3>1, <4>1, Limits DEF TypeOK, Bumped, Fits
      <4>. QED
        BY <4>1, <4>2 DEF TypeOK
    <3>2. CASE ~Fits(selected_resources, n, MaxSelected)
      <4>1. failed' /\ failed' \in BOOLEAN /\ selected_resources' = Bumped(selected_resources, n) /\ TypeOK
        BY <2>2, <3>2 DEF RecordSelection, Poison, Timely
      <4>2. selected_resources' \in 0 .. UsizeMax
        BY <4>1, Limits DEF TypeOK, Bumped
      <4>. QED
        BY <4>1, <4>2
    <3>. QED
      BY <3>1, <3>2
  <2>. QED
    BY <2>1, <2>2
<1>2. outcome' \in Outcomes
  BY CheckTimeType DEF RecordSelection, Accept, Poison, Outcomes, Poisons
<1>3. TypeOK'
  BY <1>1, <1>2 DEF TypeOK, RecordSelection
<1>4. ReadingExpectsAnswer' /\ OverrunBounded'
  BY DEF RecordSelection, ReadingExpectsAnswer, OverrunBounded, Callable
<1>5. ~failed' => requests' = requests /\ WithinLimits(Counts)'
  BY <1>1 DEF RecordSelection, WithinLimits, Counts, LimitsHeld
<1>. QED
  BY <1>1, <1>3, <1>4, <1>5, Charged DEF RecordSelection

\* record_expansion keeps the invariant: within the limit, or poisoned.
LEMMA RecordExpansionInv ==
  ASSUME BudgetInv, NEW n \in 0 .. UsizeMax, RecordExpansion(n) PROVE BudgetInv'
<1>. USE DEF BudgetInv
<1>1. /\ expansions' \in 0 .. UsizeMax
      /\ failed' \in BOOLEAN /\ (failed => failed')
      /\ ~failed' => expansions' <= MaxExpansions
  <2>1. CASE ~Timely
    <3>1. TypeOK /\ CheckTimeFails /\ UNCHANGED expansions
      BY <2>1 DEF RecordExpansion
    <3>2. failed' /\ failed' \in BOOLEAN
      BY <3>1, CheckTimeType
    <3>3. expansions' \in 0 .. UsizeMax
      BY <3>1 DEF TypeOK
    <3>. QED
      BY <3>2, <3>3
  <2>2. CASE Timely
    <3>1. CASE Fits(expansions, n, MaxExpansions)
      <4>1. failed' = failed /\ expansions' = Bumped(expansions, n) /\ TypeOK
        BY <2>2, <3>1 DEF RecordExpansion, Accept, Timely
      <4>2. expansions' \in 0 .. UsizeMax /\ expansions' <= MaxExpansions
        BY <3>1, <4>1, Limits DEF TypeOK, Bumped, Fits
      <4>. QED
        BY <4>1, <4>2 DEF TypeOK
    <3>2. CASE ~Fits(expansions, n, MaxExpansions)
      <4>1. failed' /\ failed' \in BOOLEAN /\ expansions' = Bumped(expansions, n) /\ TypeOK
        BY <2>2, <3>2 DEF RecordExpansion, Poison, Timely
      <4>2. expansions' \in 0 .. UsizeMax
        BY <4>1, Limits DEF TypeOK, Bumped
      <4>. QED
        BY <4>1, <4>2
    <3>. QED
      BY <3>1, <3>2
  <2>. QED
    BY <2>1, <2>2
<1>2. outcome' \in Outcomes
  BY CheckTimeType DEF RecordExpansion, Accept, Poison, Outcomes, Poisons
<1>3. TypeOK'
  BY <1>1, <1>2 DEF TypeOK, RecordExpansion
<1>4. ReadingExpectsAnswer' /\ OverrunBounded'
  BY DEF RecordExpansion, ReadingExpectsAnswer, OverrunBounded, Callable
<1>5. ~failed' => requests' = requests /\ WithinLimits(Counts)'
  BY <1>1 DEF RecordExpansion, WithinLimits, Counts, LimitsHeld
<1>. QED
  BY <1>1, <1>3, <1>4, <1>5, Charged DEF RecordExpansion

\* The checks at the start of read_response keep the invariant.
LEMMA BeginReadInv == ASSUME BudgetInv, BeginRead PROVE BudgetInv'
<1>1. CASE ~Timely
  <2>1. TypeOK /\ CheckTimeFails /\ UNCHANGED reading /\ Callable
    BY <1>1 DEF BeginRead, BudgetInv
  <2>2. TypeOK'
    BY <2>1, CheckTimeType DEF BeginRead, TypeOK, budget
  <2>3. ReadingExpectsAnswer'
    BY <2>1 DEF Callable, ReadingExpectsAnswer
  <2>. QED
    BY <2>1, <2>2, <2>3, CheckTimeType, Quiet DEF BeginRead
<1>2. CASE Timely /\ pending = None
  <2>1. outcome' \in Outcomes
    BY <1>2 DEF BeginRead, Refuse, Outcomes, Refusals
  <2>2. TypeOK'
    BY <1>2, <2>1 DEF BeginRead, Refuse, BudgetInv, TypeOK, budget
  <2>3. ReadingExpectsAnswer' /\ failed' = failed
    BY <1>2 DEF BeginRead, Refuse, Callable, ReadingExpectsAnswer
  <2>. QED
    BY <2>2, <2>3, Quiet DEF BeginRead
<1>3. CASE Timely /\ pending # None
  <2>1. reading' = TRUE /\ UNCHANGED <<outcome, failed>> /\ owned
    BY <1>3 DEF BeginRead, Callable
  <2>2. TypeOK'
    BY <2>1 DEF BeginRead, BudgetInv, TypeOK, budget
  <2>3. ReadingExpectsAnswer'
    BY <1>3, <2>1 DEF BeginRead, ReadingExpectsAnswer, Timely, budget
  <2>. QED
    BY <2>1, <2>2, <2>3, Quiet DEF BeginRead
<1>. QED
  BY <1>1, <1>2, <1>3

\* A usable budget still has an allowance: the subtraction cannot underflow.
LEMMA AllowanceType ==
  ASSUME BudgetInv, reading
  PROVE  Allowance \in Nat /\ Allowance <= MaxResponse /\ bytes_read + Allowance <= MaxTotal
BY Limits DEF BudgetInv, TypeOK, ReadingExpectsAnswer, LimitsHeld, WithinLimits, Counts, Allowance,
   Smaller

\* A reader that fails charges its bytes and poisons the budget.
LEMMA ReaderFailsInv ==
  ASSUME BudgetInv, NEW n \in 0 .. Allowance + 1, ReaderFails(n) PROVE BudgetInv'
<1>1. bytes_read' \in 0 .. UsizeMax /\ bytes_read' <= MaxTotal + 1
  BY AllowanceType, Limits DEF BudgetInv, TypeOK, ReaderFails, Smaller
<1>2. failed' = TRUE /\ outcome' \in Outcomes
  BY DEF ReaderFails, Poison, Outcomes, Poisons
<1>3. TypeOK'
  BY <1>1, <1>2 DEF BudgetInv, TypeOK, ReaderFails
<1>4. ReadingExpectsAnswer' /\ OverrunBounded'
  BY <1>1 DEF ReaderFails, BudgetInv, ReadingExpectsAnswer, OverrunBounded
<1>. QED
  BY <1>2, <1>3, <1>4, Charged DEF ReaderFails

\* What record_request has established when none of its refusals applied.
LEMMA RequestAccepted ==
  ASSUME NEW q \in ReadRequest, NEW r \in Refs \cup {None}, NEW api \in BOOLEAN,
         RequestError(q, r, api) = "Ok"
  PROVE  /\ pending = None
         /\ r # None => q.op = "Inspect" /\ q.object \in Objects
         /\ r = None => q.op # "Inspect"
         /\ q.op # "DaemonVersion" => api
         /\ r # None => resource_ids[r] \in {None, q.object} /\ native_refs[q.object] \in {None, r}
<1>1. /\ pending = None
      /\ (q.op = "Inspect") = (r # None)
      /\ q.op # "DaemonVersion" => api
      /\ ~Conflicting(q, r)
  BY DEF RequestError
<1>2. q.op = "Inspect" <=> r # None
  BY <1>1
<1>3. q.op = "Inspect" => q.object \in Objects
  BY BudgetAssumption DEF BudgetAssumption, ReadRequest
<1>. QED
  BY <1>1, <1>2, <1>3 DEF Conflicting

\* What binding a reference and an object to each other preserves.
LEMMA Binding ==
  ASSUME BudgetInv, NEW q \in ReadRequest, NEW r \in Refs, q.object \in Objects,
         resource_ids[r] \in {None, q.object}, native_refs[q.object] \in {None, r},
         Inspect(q, r)
  PROVE  /\ resource_ids' \in [Refs -> Objects \cup {None}]
         /\ native_refs' \in [Objects -> Refs \cup {None}]
         /\ OneToOne'
         /\ resource_ids'[r] = q.object
         /\ \A s \in Refs : s # r => resource_ids'[s] = resource_ids[s]
         /\ \A s \in Refs : resource_ids[s] # None => resource_ids'[s] = resource_ids[s]
<1>1. /\ resource_ids \in [Refs -> Objects \cup {None}]
      /\ native_refs \in [Objects -> Refs \cup {None}]
      /\ resource_ids' = [resource_ids EXCEPT ![r] = q.object]
      /\ native_refs' = [native_refs EXCEPT ![q.object] = r]
  BY DEF BudgetInv, TypeOK, Inspect
<1>2. None \notin Refs /\ None \notin Objects
  BY BudgetAssumption DEF BudgetAssumption
<1>3. \A s \in Refs, o \in Objects : resource_ids[s] = o <=> native_refs[o] = s
  BY DEF BudgetInv, OneToOne
<1>4. \A s \in Refs, o \in Objects : resource_ids'[s] = o <=> native_refs'[o] = s
  BY <1>1, <1>2, <1>3
<1>. QED
  BY <1>1, <1>2, <1>4 DEF OneToOne

\* The accepted request: its expansion and binding, then its count.
Accepted(q, r, api) ==
  /\ Callable /\ Timely /\ RequestError(q, r, api) = "Ok"
  /\ r # None => Fits(expansions, 1, MaxExpansions)
  /\ IF r # None THEN Inspect(q, r) ELSE UNCHANGED <<expansions, resource_ids, native_refs>>
  /\ CountRequest(q, r, api)
  /\ UNCHANGED <<selected_resources, bytes_read, exchanges>>
  /\ UNCHANGED <<clock, reading, owned, capture>>

\* Whether or not it counts within the limit, its expansion and binding are sound.
LEMMA AcceptedBinds ==
  ASSUME BudgetInv, NEW q \in ReadRequest, NEW r \in Refs \cup {None}, NEW api \in BOOLEAN,
         Accepted(q, r, api)
  PROVE  /\ resource_ids' \in [Refs -> Objects \cup {None}]
         /\ native_refs' \in [Objects -> Refs \cup {None}]
         /\ OneToOne'
         /\ expansions' \in 0 .. MaxExpansions
         /\ r # None => resource_ids'[r] = q.object
         /\ \A s \in Refs : s # r => resource_ids'[s] = resource_ids[s]
         /\ \A s \in Refs : resource_ids[s] # None => resource_ids'[s] = resource_ids[s]
<1>1. CASE r = None
  <2>1. UNCHANGED <<expansions, resource_ids, native_refs>>
    BY <1>1 DEF Accepted
  <2>2. expansions \in 0 .. MaxExpansions
    BY Limits DEF Accepted, Timely, BudgetInv, TypeOK, LimitsHeld, WithinLimits, Counts
  <2>. QED
    BY <1>1, <2>1, <2>2 DEF BudgetInv, TypeOK, OneToOne
<1>2. CASE r # None
  <2>1. Inspect(q, r) /\ Fits(expansions, 1, MaxExpansions) /\ RequestError(q, r, api) = "Ok"
    BY <1>2 DEF Accepted
  <2>2. expansions' \in 0 .. MaxExpansions
    BY <2>1, Limits DEF Inspect, Fits, BudgetInv, TypeOK
  <2>. QED
    BY <1>2, <2>1, <2>2, RequestAccepted, Binding
<1>. QED
  BY <1>1, <1>2

\* A request that passes every refusal keeps the invariant.
LEMMA AcceptedInv ==
  ASSUME BudgetInv, NEW q \in ReadRequest, NEW r \in Refs \cup {None}, NEW api \in BOOLEAN,
         Accepted(q, r, api)
  PROVE  BudgetInv'
<1>. DEFINE new == [request |-> q, resource |-> r, api |-> api]
<1>1. /\ pending = None
      /\ r # None => q.op = "Inspect" /\ q.object \in Objects
      /\ r = None => q.op # "Inspect"
      /\ q.op # "DaemonVersion" => api
  BY RequestAccepted DEF Accepted
<1>2. new \in Pending /\ new # None
  BY BudgetAssumption DEF BudgetAssumption, Pending
<1>3. \/ pending' = new /\ failed' = failed /\ outcome' = "Ok" /\ Fits(requests, 1, MaxRequests)
      \/ pending' = None /\ failed' /\ failed' = TRUE /\ outcome' = "Requests"
  BY <1>1 DEF Accepted, CountRequest, Accept, Poison
<1>4. requests' \in 0 .. UsizeMax /\ requests' <= MaxRequests + 1
  BY Limits DEF BudgetInv, TypeOK, Accepted, CountRequest, Bumped, Timely, LimitsHeld, WithinLimits,
     Counts
<1>5. TypeOK'
  <2>1. /\ expansions' \in 0 .. UsizeMax
        /\ resource_ids' \in [Refs -> Objects \cup {None}]
        /\ native_refs' \in [Objects -> Refs \cup {None}]
    BY AcceptedBinds, Limits
  <2>2. outcome' \in Outcomes
    BY <1>3 DEF Outcomes, Poisons
  <2>3. pending' \in Pending \cup {None} /\ failed' \in BOOLEAN
    BY <1>2, <1>3 DEF BudgetInv, TypeOK
  <2>. QED
    BY <1>4, <2>1, <2>2, <2>3 DEF BudgetInv, TypeOK, Accepted
<1>6. ReadingExpectsAnswer' /\ OverrunBounded'
  BY <1>4 DEF Accepted, Callable, BudgetInv, ReadingExpectsAnswer, OverrunBounded
<1>7. RequestsAccounted'
  <2>1. CASE pending' = new /\ failed' = failed /\ Fits(requests, 1, MaxRequests)
    <3>1. requests' = requests + 1
      BY <2>1, Limits DEF Accepted, CountRequest, Bumped, Fits, BudgetInv, TypeOK
    <3>2. requests = Len(exchanges)
      BY <1>1 DEF Accepted, Timely, BudgetInv, TypeOK, RequestsAccounted
    <3>. QED
      BY <1>2, <2>1, <3>1, <3>2 DEF Accepted, RequestsAccounted
  <2>2. CASE failed'
    BY <2>2 DEF RequestsAccounted
  <2>. QED
    BY <1>3, <2>1, <2>2
<1>8. LimitsHeld'
  <2>1. ~failed' => requests' <= MaxRequests
    BY <1>3, Limits DEF Accepted, CountRequest, Bumped, Fits, BudgetInv, TypeOK
  <2>2. ~failed' => WithinLimits(Counts)'
    BY <2>1, AcceptedBinds, Limits DEF Accepted, Timely, WithinLimits, Counts, BudgetInv, LimitsHeld
  <2>. QED
    BY <2>2 DEF Accepted, BudgetInv, LimitsHeld
<1>9. Recorded = Range(exchanges) /\ Recorded' \subseteq Recorded \cup {new}
  BY <1>1, <1>3 DEF Recorded, Accepted
<1>10. ReadsBound'
  <2>1. \A e \in Recorded :
          /\ e.request.op = "Inspect" => e.resource \in Refs /\ e.request.object \in Objects
          /\ e.resource \in Refs \cup {None}
    <3>1. Recorded \subseteq Exchange
      BY <1>9 DEF BudgetInv, TypeOK, Range
    <3>2. \A e \in Recorded : e.request \in ReadRequest /\ e.resource \in Refs \cup {None}
      BY <3>1 DEF Exchange
    <3>3. \A e \in Recorded : e.request.op = "Inspect" => e.resource # None
      BY DEF BudgetInv, ReadsBound
    <3>4. \A x \in ReadRequest : x.op = "Inspect" => x.object \in Objects
      BY BudgetAssumption DEF BudgetAssumption, ReadRequest
    <3>. QED
      BY <3>2, <3>3, <3>4
  <2>2. \A e \in Recorded :
          e.request.op = "Inspect" => e.resource # None /\ resource_ids'[e.resource] = e.request.object
    BY <2>1, AcceptedBinds, BudgetAssumption DEF BudgetInv, ReadsBound, BudgetAssumption
  <2>. QED
    BY <1>1, <1>9, <2>2, AcceptedBinds DEF BudgetInv, ReadsBound
<1>11. BindingsAreRead'
  <2>1. CASE failed'
    BY <2>1 DEF BindingsAreRead
  <2>2. CASE pending' = new /\ failed' = failed
    <3>1. new \in Recorded' /\ Recorded \subseteq Recorded' /\ new.resource = r
      BY <1>1, <1>2, <2>2 DEF Recorded, Accepted
    <3>. QED
      BY <2>2, <3>1, AcceptedBinds DEF BudgetInv, BindingsAreRead
  <2>. QED
    BY <1>3, <2>1, <2>2
<1>. QED
  BY <1>5, <1>6, <1>7, <1>8, <1>10, <1>11, AcceptedBinds DEF BudgetInv

\* record_request keeps the invariant on every path it returns by.
LEMMA RecordRequestInv ==
  ASSUME BudgetInv, NEW q \in ReadRequest, NEW r \in Refs \cup {None}, NEW api \in BOOLEAN,
         RecordRequest(q, r, api)
  PROVE  BudgetInv'
<1>. DEFINE error == RequestError(q, r, api)
<1>1. Callable /\ UNCHANGED <<clock, reading, owned, capture>>
  BY DEF RecordRequest
<1>2. ReadingExpectsAnswer'
  BY <1>1 DEF Callable, ReadingExpectsAnswer
<1>3. CASE ~Timely /\ CheckTimeFails /\ UNCHANGED budget
  <2>1. failed' = TRUE /\ outcome' \in Outcomes
    BY <1>3, CheckTimeType DEF BudgetInv
  <2>2. TypeOK'
    BY <1>1, <1>3, <2>1 DEF BudgetInv, TypeOK, budget
  <2>. QED
    BY <1>1, <1>2, <1>3, <2>1, <2>2, Quiet
<1>4. CASE Timely /\ error # "Ok" /\ Refuse(error) /\ UNCHANGED budget
  <2>1. error \in Refusals
    BY <1>4 DEF RequestError, Refusals
  <2>2. outcome' \in Outcomes /\ failed' = failed
    BY <1>4, <2>1 DEF Refuse, Outcomes
  <2>3. TypeOK'
    BY <1>1, <1>4, <2>2 DEF BudgetInv, TypeOK, budget
  <2>. QED
    BY <1>1, <1>2, <1>4, <2>2, <2>3, Quiet
<1>5. CASE Poison("Expansions") /\ UNCHANGED budget
  <2>1. failed' = TRUE /\ outcome' \in Outcomes
    BY <1>5 DEF Poison, Outcomes, Poisons
  <2>2. TypeOK'
    BY <1>1, <1>5, <2>1 DEF BudgetInv, TypeOK, budget
  <2>. QED
    BY <1>1, <1>2, <1>5, <2>1, <2>2, Quiet
<1>6. CASE Accepted(q, r, api)
  BY <1>6, AcceptedInv
<1>. QED
  BY <1>3, <1>4, <1>5, <1>6 DEF RecordRequest, Accepted

\* The answer that completes the outstanding request.
LEMMA CompletedInv ==
  ASSUME BudgetInv, NEW n \in 0 .. Allowance, NEW reply \in Replies, reading, Timely,
         bytes_read' = Smaller(bytes_read + n, UsizeMax),
         exchanges' = Append(exchanges, [request |-> pending.request, resource |-> pending.resource,
                                         api |-> pending.api, len |-> n, reply |-> reply]),
         pending' = None, reading' = FALSE, outcome' = "Ok", failed' = failed,
         UNCHANGED <<clock, requests, selected_resources, expansions, resource_ids, native_refs,
                     owned, capture>>
  PROVE  BudgetInv'
<1>. DEFINE new == [request |-> pending.request, resource |-> pending.resource,
                    api |-> pending.api, len |-> n, reply |-> reply]
<1>1. pending \in Pending /\ pending # None
  BY DEF BudgetInv, TypeOK, ReadingExpectsAnswer
<1>2. n \in Nat /\ n <= MaxResponse /\ bytes_read' = bytes_read + n /\ bytes_read' <= MaxTotal
  BY AllowanceType, Limits DEF Smaller, BudgetInv, TypeOK
<1>3. new \in Exchange
  BY <1>1, <1>2 DEF Exchange, Pending
<1>4. exchanges \in Seq(Exchange) /\ exchanges' = Append(exchanges, new)
  BY DEF BudgetInv, TypeOK
<1>5. exchanges' \in Seq(Exchange) /\ Len(exchanges') = Len(exchanges) + 1
  BY <1>3, <1>4
<1>6. Recorded = Range(exchanges) \cup {pending} /\ Recorded' = Range(exchanges) \cup {new}
  BY <1>1, <1>3, <1>4, RangeAppend DEF Recorded
<1>7. TypeOK'
  <2>1. outcome' \in Outcomes
    BY DEF Outcomes
  <2>2. bytes_read' \in 0 .. UsizeMax
    BY <1>2, Limits DEF BudgetInv, TypeOK
  <2>. QED
    BY <1>5, <2>1, <2>2 DEF BudgetInv, TypeOK
<1>8. ReadingExpectsAnswer' /\ OverrunBounded'
  BY <1>2, Limits DEF ReadingExpectsAnswer, BudgetInv, OverrunBounded, TypeOK
<1>9. RequestsAccounted'
  BY <1>1, <1>5 DEF Timely, BudgetInv, RequestsAccounted, TypeOK
<1>10. LimitsHeld'
  <2>1. ~failed' => WithinLimits(Counts)'
    BY <1>2 DEF Timely, BudgetInv, LimitsHeld, WithinLimits, Counts
  <2>2. \A i \in 1 .. Len(exchanges') : exchanges'[i].len <= MaxResponse
    BY <1>2, <1>4, <1>5 DEF BudgetInv, LimitsHeld
  <2>. QED
    BY <2>1, <2>2 DEF BudgetInv, LimitsHeld
<1>11. OneToOne'
  BY DEF BudgetInv, OneToOne
<1>12. ReadsBound'
  BY <1>6 DEF BudgetInv, ReadsBound
<1>13. BindingsAreRead'
  BY <1>6 DEF Timely, BudgetInv, BindingsAreRead
<1>. QED
  BY <1>7, <1>8, <1>9, <1>10, <1>11, <1>12, <1>13 DEF BudgetInv

\* The end of read_response keeps the invariant: late, too long or complete.
LEMMA EndReadInv ==
  ASSUME BudgetInv, NEW n \in 0 .. Allowance + 1, NEW reply \in Replies, EndRead(n, reply)
  PROVE  BudgetInv'
<1>1. CASE Timely /\ n <= Allowance
  <2>1. n \in 0 .. Allowance
    BY <1>1, AllowanceType DEF EndRead
  <2>2. ~(n > Allowance)
    BY <2>1, AllowanceType DEF EndRead
  <2>3. /\ exchanges' = Append(exchanges, [request |-> pending.request, resource |-> pending.resource,
                                           api |-> pending.api, len |-> n, reply |-> reply])
        /\ pending' = None /\ outcome' = "Ok" /\ failed' = failed
    BY <1>1, <2>2 DEF EndRead, Accept
  <2>. QED
    BY <1>1, <2>1, <2>3, CompletedInv DEF EndRead
<1>2. CASE ~Timely \/ n > Allowance
  <2>1. bytes_read' \in 0 .. UsizeMax /\ bytes_read' <= MaxTotal + 1
    BY AllowanceType, Limits DEF BudgetInv, TypeOK, EndRead, Smaller
  <2>2. failed' = TRUE /\ outcome' \in Outcomes /\ UNCHANGED <<pending, exchanges>>
    <3>1. CASE ~Timely
      BY <3>1, CheckTimeType DEF EndRead, BudgetInv
    <3>2. CASE Timely
      BY <1>2, <3>2, AllowanceType DEF EndRead, Poison, Outcomes, Poisons
    <3>. QED
      BY <3>1, <3>2
  <2>3. TypeOK'
    BY <2>1, <2>2 DEF BudgetInv, TypeOK, EndRead
  <2>4. ReadingExpectsAnswer' /\ OverrunBounded'
    BY <2>1 DEF EndRead, BudgetInv, ReadingExpectsAnswer, OverrunBounded
  <2>. QED
    BY <2>2, <2>3, <2>4, Charged DEF EndRead
<1>3. n <= Allowance \/ n > Allowance
  BY AllowanceType DEF EndRead
<1>. QED
  BY <1>1, <1>2, <1>3

\* into_capture keeps the invariant and captures only within the limits.
LEMMA IntoCaptureInv == ASSUME BudgetInv, IntoCapture PROVE BudgetInv'
<1>1. Callable /\ UNCHANGED <<clock, budget, failed, reading>> /\ owned' = FALSE
  BY DEF IntoCapture
<1>2. capture' = capture \/ (~failed /\ capture' = [bounds |-> Counts, exchanges |-> exchanges])
  BY DEF IntoCapture, CaptureError
<1>3. TypeOK'
  <2>1. outcome' \in Outcomes
    BY DEF IntoCapture, CaptureError, Outcomes, Poisons
  <2>2. Counts \in Bounds
    BY Limits DEF Counts, Bounds, BudgetInv, TypeOK
  <2>3. capture' \in [bounds : Bounds, exchanges : Seq(Exchange)] \cup {None}
    BY <1>2, <2>2 DEF BudgetInv, TypeOK
  <2>. QED
    BY <1>1, <2>1, <2>3 DEF BudgetInv, TypeOK, budget
<1>4. ReadingExpectsAnswer' /\ OverrunBounded' /\ RequestsAccounted'
  BY <1>1 DEF Callable, ReadingExpectsAnswer, BudgetInv, OverrunBounded, RequestsAccounted, budget
<1>5. LimitsHeld'
  BY <1>1, <1>2 DEF BudgetInv, LimitsHeld, WithinLimits, Counts, budget
<1>6. OneToOne' /\ ReadsBound' /\ BindingsAreRead'
  BY <1>1 DEF BudgetInv, OneToOne, ReadsBound, BindingsAreRead, Recorded, budget
<1>. QED
  BY <1>3, <1>4, <1>5, <1>6 DEF BudgetInv
-----------------------------------------------------------------------------
\* Every step of a budget keeps the invariant.
LEMMA StepInv == BudgetInv /\ [Next]_vars => BudgetInv'
<1>. SUFFICES ASSUME BudgetInv, [Next]_vars PROVE BudgetInv'
  OBVIOUS
<1>1. CASE Tick
  BY <1>1, TickInv
<1>2. ASSUME NEW q \in ReadRequest, NEW r \in Refs \cup {None}, NEW api \in BOOLEAN,
             RecordRequest(q, r, api)
      PROVE  BudgetInv'
  BY <1>2, RecordRequestInv
<1>3. ASSUME NEW n \in 0 .. UsizeMax, RecordSelection(n) \/ RecordExpansion(n) PROVE BudgetInv'
  BY <1>3, RecordSelectionInv, RecordExpansionInv
<1>4. CASE BeginRead
  BY <1>4, BeginReadInv
<1>5. ASSUME NEW n \in 0 .. Allowance + 1,
             ReaderFails(n) \/ \E reply \in Replies : EndRead(n, reply)
      PROVE  BudgetInv'
  BY <1>5, ReaderFailsInv, EndReadInv
<1>6. CASE IntoCapture
  BY <1>6, IntoCaptureInv
<1>7. CASE UNCHANGED vars
  <2>1. TypeOK' /\ ReadingExpectsAnswer'
    BY <1>7 DEF vars, budget, BudgetInv, TypeOK, ReadingExpectsAnswer
  <2>. QED
    BY <1>7, <2>1, Quiet DEF vars
<1>. QED
  BY <1>1, <1>2, <1>3, <1>4, <1>5, <1>6, <1>7 DEF Next

(***************************************************************************)
(* Budget::new and every later call keep a usable budget accounted, inside *)
(* its limits and one-to-one, for every choice of limits and objects.      *)
(***************************************************************************)
THEOREM BudgetInvariant == Spec => []BudgetInv
<1>1. Init => BudgetInv
  BY InitInv
<1>2. BudgetInv /\ [Next]_vars => BudgetInv'
  BY StepInv
<1>. QED
  BY <1>1, <1>2, PTL DEF Spec

(***************************************************************************)
(* The variables of a budget keep their types: no counter leaves usize.    *)
(***************************************************************************)
THEOREM BudgetTypeOK == Spec => []TypeOK
  BY BudgetInvariant, PTL DEF BudgetInv

(***************************************************************************)
(* Every request counted by a usable budget is a completed exchange or the *)
(* outstanding request, the first half of the accounting a capture checks. *)
(***************************************************************************)
THEOREM RequestsAreAccounted == Spec => []RequestsAccounted
  BY BudgetInvariant, PTL DEF BudgetInv

\* The other half: a usable budget has read what its exchanges hold.
BytesAccounted == ~failed => bytes_read = TotalLen(exchanges)

\* Every step keeps the account of the bytes.
LEMMA BytesStep == BudgetInv /\ BytesAccounted /\ [Next]_vars => BytesAccounted'
<1>. SUFFICES ASSUME BudgetInv, BytesAccounted, [Next]_vars, ~failed'
              PROVE  bytes_read' = TotalLen(exchanges')
  BY DEF BytesAccounted
<1>1. CASE UNCHANGED <<failed, bytes_read, exchanges>>
  BY <1>1 DEF BytesAccounted
<1>2. ASSUME NEW n \in 0 .. Allowance + 1, NEW reply \in Replies, EndRead(n, reply)
      PROVE  bytes_read' = TotalLen(exchanges')
  <2> DEFINE new == [request |-> pending.request, resource |-> pending.resource,
                     api |-> pending.api, len |-> n, reply |-> reply]
  <2>1. Timely /\ n <= Allowance /\ exchanges' = Append(exchanges, new)
    BY <1>2 DEF EndRead, CheckTimeFails, Poison, Timely
  <2>2. n \in 0 .. MaxResponse /\ bytes_read \in Nat /\ bytes_read + n <= MaxTotal
    BY <2>1, AllowanceType, Limits DEF Allowance, Smaller, BudgetInv, TypeOK
  <2>3. bytes_read' = bytes_read + n
    BY <1>2, <2>2, Limits DEF EndRead, Smaller
  <2>4. exchanges \in Seq(Exchange \cup {new})
    BY DEF BudgetInv, TypeOK
  <2>5. TotalLen(exchanges') = TotalLen(exchanges) + new.len
    BY <2>1, <2>4, TotalLenAppend
  <2>. QED
    BY <2>1, <2>3, <2>5 DEF BytesAccounted, Timely
<1>3. ASSUME NEW n \in 0 .. Allowance + 1, ReaderFails(n) PROVE FALSE
  BY <1>3 DEF ReaderFails, Poison
<1>4. ASSUME NEW q \in ReadRequest, NEW r \in Refs \cup {None}, NEW api \in BOOLEAN,
             RecordRequest(q, r, api)
      PROVE  UNCHANGED <<failed, bytes_read, exchanges>>
  BY <1>4 DEF RecordRequest, CheckTimeFails, Refuse, Poison, Accept, CountRequest, budget
<1>5. ASSUME NEW n \in 0 .. UsizeMax, RecordSelection(n) \/ RecordExpansion(n)
      PROVE  UNCHANGED <<failed, bytes_read, exchanges>>
  BY <1>5 DEF RecordSelection, RecordExpansion, CheckTimeFails, Accept, Poison
<1>6. CASE Tick \/ BeginRead \/ IntoCapture \/ UNCHANGED vars
  <2>1. UNCHANGED <<failed, bytes_read, exchanges>>
    BY <1>6 DEF Tick, BeginRead, IntoCapture, vars, budget, CheckTimeFails, Refuse
  <2>. QED
    BY <1>1, <2>1
<1>. QED
  BY <1>1, <1>2, <1>3, <1>4, <1>5, <1>6 DEF Next

\* What into_capture is handed is always accounted.
LEMMA NeverUnaccounted ==
  BudgetInv /\ BytesAccounted /\ AccountingNeverFails /\ [Next]_vars => AccountingNeverFails'
<1>. SUFFICES ASSUME BudgetInv, BytesAccounted, AccountingNeverFails, [Next]_vars
              PROVE  outcome' # "CaptureAccounting"
  BY DEF AccountingNeverFails
<1>1. CASE outcome' = outcome
  BY <1>1 DEF AccountingNeverFails
<1>2. CheckTimeFails => outcome' # "CaptureAccounting"
  BY DEF CheckTimeFails
<1>3. CASE IntoCapture
  <2>1. ~failed /\ pending = None => Accounted
    BY DEF BudgetInv, RequestsAccounted, BytesAccounted, Accounted, TypeOK
  <2>. QED
    BY <1>3, <2>1 DEF IntoCapture, CaptureError
<1>4. ASSUME NEW q \in ReadRequest, NEW r \in Refs \cup {None}, NEW api \in BOOLEAN,
             RecordRequest(q, r, api)
      PROVE  outcome' # "CaptureAccounting"
  <2>1. RequestError(q, r, api) # "CaptureAccounting"
    BY DEF RequestError
  <2>. QED
    BY <1>2, <1>4, <2>1 DEF RecordRequest, Refuse, Poison, Accept, CountRequest
<1>5. ASSUME NEW n \in 0 .. UsizeMax, RecordSelection(n) \/ RecordExpansion(n)
      PROVE  outcome' # "CaptureAccounting"
  BY <1>2, <1>5 DEF RecordSelection, RecordExpansion, Accept, Poison
<1>6. CASE BeginRead
  BY <1>1, <1>2, <1>6 DEF BeginRead, Refuse
<1>7. ASSUME NEW n \in 0 .. Allowance + 1,
             ReaderFails(n) \/ \E reply \in Replies : EndRead(n, reply)
      PROVE  outcome' # "CaptureAccounting"
  BY <1>2, <1>7 DEF ReaderFails, EndRead, Poison, Accept
<1>8. CASE Tick \/ UNCHANGED vars
  BY <1>1, <1>8 DEF Tick, vars
<1>. QED
  BY <1>3, <1>4, <1>5, <1>6, <1>7, <1>8 DEF Next

(***************************************************************************)
(* Capture::from_completed never finds its totals wrong: bytes_read is the *)
(* sum of the responses kept, however many reads were cut, failed or late. *)
(***************************************************************************)
THEOREM CapturesAreAccounted == Spec => []AccountingNeverFails
<1>1. Init => BytesAccounted /\ AccountingNeverFails
  BY TotalLenEmpty DEF Init, BytesAccounted, AccountingNeverFails
<1>. QED
  BY <1>1, BytesStep, NeverUnaccounted, BudgetInvariant, PTL DEF Spec

(***************************************************************************)
(* Usable budgets and captures are inside every limit of Limits.           *)
(***************************************************************************)
THEOREM LimitsAreHeld == Spec => []LimitsHeld
  BY BudgetInvariant, PTL DEF BudgetInv

(***************************************************************************)
(* Local references and native objects are bound one to one, and every     *)
(* recorded inspection carries the reference of its object.                *)
(***************************************************************************)
THEOREM IdentityIsOneToOne == Spec => [](OneToOne /\ ReadsBound)
  BY BudgetInvariant, PTL DEF BudgetInv

(***************************************************************************)
(* In a usable budget no object is registered without a recorded read.     *)
(***************************************************************************)
THEOREM BindingsHaveReads == Spec => []BindingsAreRead
  BY BudgetInvariant, PTL DEF BudgetInv

(***************************************************************************)
(* Exhausted is final: after any over-run, reader failure or late call the *)
(* budget charges nothing, binds nothing and never becomes a capture.      *)
(***************************************************************************)
THEOREM FailuresAreFinal == Spec => FailureIsFinal
<1>1. BudgetInv /\ [Next]_vars => [failed => failed' /\ capture' = capture /\ UNCHANGED budget]_vars
  <2>. SUFFICES ASSUME BudgetInv, Next, failed
                PROVE  failed' /\ capture' = capture /\ UNCHANGED budget
    OBVIOUS
  <2>1. ~reading /\ ~Timely
    BY DEF BudgetInv, ReadingExpectsAnswer, Timely
  <2>2. CASE Tick
    BY <2>2 DEF Tick
  <2>3. CheckTimeFails => failed'
    BY DEF CheckTimeFails
  <2>4. ASSUME NEW q \in ReadRequest, NEW r \in Refs \cup {None}, NEW api \in BOOLEAN,
               RecordRequest(q, r, api)
        PROVE  failed' /\ capture' = capture /\ UNCHANGED budget
    BY <2>1, <2>3, <2>4 DEF RecordRequest
  <2>5. ASSUME NEW n \in 0 .. UsizeMax, RecordSelection(n) \/ RecordExpansion(n)
        PROVE  failed' /\ capture' = capture /\ UNCHANGED budget
    BY <2>1, <2>3, <2>5 DEF RecordSelection, RecordExpansion, budget
  <2>6. CASE BeginRead
    BY <2>1, <2>3, <2>6 DEF BeginRead
  <2>7. CASE IntoCapture
    BY <2>7 DEF IntoCapture, CaptureError
  <2>. QED
    BY <2>1, <2>2, <2>4, <2>5, <2>6, <2>7 DEF Next, ReaderFails, EndRead
<1>. QED
  BY <1>1, BudgetInvariant, PTL DEF Spec, FailureIsFinal

(***************************************************************************)
(* The entry().or_insert() pair in record_request never rebinds: whatever  *)
(* is bound stays bound to the same object.                                *)
(***************************************************************************)
THEOREM BindingsArePermanent == Spec => BindingsPermanent
<1>1. BudgetInv /\ [Next]_vars =>
        [\A r \in Refs : resource_ids[r] # None => resource_ids'[r] = resource_ids[r]]_vars
  <2>. SUFFICES ASSUME BudgetInv, Next
                PROVE  \A r \in Refs : resource_ids[r] # None => resource_ids'[r] = resource_ids[r]
    OBVIOUS
  <2>1. ASSUME NEW q \in ReadRequest, NEW r \in Refs \cup {None}, NEW api \in BOOLEAN,
               RecordRequest(q, r, api)
        PROVE  \A s \in Refs : resource_ids[s] # None => resource_ids'[s] = resource_ids[s]
    <3>1. CASE UNCHANGED budget
      BY <3>1 DEF budget
    <3>2. CASE Accepted(q, r, api)
      BY <3>2, AcceptedBinds
    <3>. QED
      BY <2>1, <3>1, <3>2 DEF RecordRequest, Accepted
  <2>. QED
    BY <2>1 DEF Next, Tick, RecordSelection, RecordExpansion, BeginRead, ReaderFails, EndRead,
       IntoCapture, budget
<1>. QED
  BY <1>1, BudgetInvariant, PTL DEF Spec, BindingsPermanent
=============================================================================
