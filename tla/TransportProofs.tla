-------------------------- MODULE TransportProofs ---------------------------
(***************************************************************************)
(* The transport, for every allowance, deadline, poll interval and set of  *)
(* answers: it never holds more than its allowance, and never outlives its *)
(* deadline or, by more than one poll interval, its cancellation.          *)
(***************************************************************************)
EXTENDS Transport, FiniteSets, SequenceTheorems, FiniteSetTheorems, WellFoundedInduction, TLAPS

TransportInv == TypeOK /\ NeedFits /\ WaitsEndInTime

\* The numbers in a sequence of tokens are natural.
LEMMA TokenNumbers ==
  \A s \in Seq([kind : STRING, n : Nat]) : \A j \in 1 .. Len(s) : s[j].n \in Nat
<1>1. SUFFICES ASSUME NEW T, \A t \in T : t.n \in Nat, NEW s \in Seq(T), NEW j \in 1 .. Len(s)
               PROVE  s[j].n \in Nat
  <2>1. \A t \in [kind : STRING, n : Nat] : t.n \in Nat
    OBVIOUS
  <2>. QED BY <2>1
<1>2. s[j] \in T
  OBVIOUS
<1>. QED BY <1>1, <1>2

(***************************************************************************)
(* Induction over the naturals, from the well-foundedness of finite sets.  *)
(***************************************************************************)

\* A set of naturals has a least element.
LEMMA LeastElement ==
  ASSUME NEW T \in SUBSET Nat, T # {}
  PROVE  \E x \in T : \A y \in T : x <= y
<1>1. PICK n \in T : TRUE
  OBVIOUS
<1>2. IsFiniteSet(0 .. n)
  BY <1>1, FS_Interval
<1> DEFINE F == {0 .. m : m \in {k \in T : k <= n}}
<1>3. F \subseteq SUBSET (0 .. n) /\ F # {}
  BY <1>1
<1>4. PICK s \in F : \A t \in F : ~ (<<t, s>> \in StrictSubsetOrdering(0 .. n))
  <2>1. IsWellFoundedOn(StrictSubsetOrdering(0 .. n), SUBSET (0 .. n))
    BY <1>2, FS_StrictSubsetOrderingWellFounded, FS_FiniteSubsetsOfFinite
  <2>. QED BY <1>3, <2>1, WFMin
<1>5. PICK x \in T : x <= n /\ s = 0 .. x
  BY <1>4
<1>6. ASSUME NEW y \in T, y < x PROVE FALSE
  <2>1. 0 .. y \in F /\ 0 .. y \subseteq 0 .. x /\ 0 .. y # 0 .. x
    BY <1>5, <1>6
  <2>2. <<0 .. y, 0 .. x>> \in StrictSubsetOrdering(0 .. n)
    BY <1>3, <1>5, <2>1 DEF StrictSubsetOrdering
  <2>. QED BY <1>4, <1>5, <2>1, <2>2
<1>. QED BY <1>5, <1>6

\* A set that has zero and every successor of what it has, has every natural.
LEMMA Induction ==
  ASSUME NEW T, 0 \in T, \A n \in Nat : n \in T => n + 1 \in T
  PROVE  \A n \in Nat : n \in T
<1>1. SUFFICES ASSUME Nat \ T # {} PROVE FALSE
  OBVIOUS
<1>2. PICK x \in Nat \ T : \A y \in Nat \ T : x <= y
  BY <1>1, LeastElement
<1>3. x - 1 \in Nat /\ x - 1 \notin Nat \ T
  BY <1>2
<1>. QED BY <1>2, <1>3

(***************************************************************************)
(* The body a message stands for.                                          *)
(***************************************************************************)
Tokens == Seq([kind : STRING, n : Nat])

\* Taking n tokens as bytes gives n numbers.
LEMMA BytesType ==
  ASSUME NEW tokens \in Tokens, NEW i \in Nat, NEW n \in Nat, i + n <= Len(tokens)
  PROVE  Bytes(tokens, i, n) \in Seq(Nat) /\ Len(Bytes(tokens, i, n)) = n
<1>1. \A j \in 1 .. n : Byte(tokens[i + j]) \in Nat
  <2>. TAKE j \in 1 .. n
  <2>1. i + j \in 1 .. Len(tokens)
    BY DEF Tokens
  <2>2. tokens[i + j].n \in Nat
    BY <2>1, TokenNumbers DEF Tokens
  <2>. QED BY <2>2 DEF Byte
<1>. QED BY <1>1 DEF Bytes

\* What concatenation does to bytes.
LEMMA Concatenated ==
  ASSUME NEW b \in Seq(Nat), NEW c \in Seq(Nat)
  PROVE  /\ b \o c \in Seq(Nat) /\ Len(b \o c) = Len(b) + Len(c)
         /\ Len(b) \in Nat /\ Len(c) \in Nat
         /\ \A j \in 1 .. Len(b) + Len(c) : (b \o c)[j] = IF j <= Len(b) THEN b[j] ELSE c[j - Len(b)]
<1>1. Len(b) \in Nat /\ Len(c) \in Nat
  OBVIOUS
<1>. QED BY <1>1, ConcatProperties, Zenon

\* Concatenation of bytes is associative.
LEMMA ConcatenatedTwice ==
  ASSUME NEW b \in Seq(Nat), NEW c \in Seq(Nat), NEW d \in Seq(Nat)
  PROVE  (b \o c) \o d = b \o (c \o d)
BY ConcatAssociative

\* Bytes taken in two goes are the bytes taken in one.
LEMMA BytesSplit ==
  ASSUME NEW tokens \in Tokens, NEW i \in Nat, NEW n \in Nat, NEW m \in Nat,
         i + n + m <= Len(tokens), NEW b \in Seq(Nat)
  PROVE  (b \o Bytes(tokens, i, n)) \o Bytes(tokens, i + n, m) = b \o Bytes(tokens, i, n + m)
<1> DEFINE first == Bytes(tokens, i, n)
           second == Bytes(tokens, i + n, m)
           all == Bytes(tokens, i, n + m)
<1>1. Len(tokens) \in Nat
  BY DEF Tokens
<1>2. /\ first \in Seq(Nat) /\ Len(first) = n
      /\ second \in Seq(Nat) /\ Len(second) = m
      /\ all \in Seq(Nat) /\ Len(all) = n + m
  <2>1. /\ n + m \in Nat /\ i + n \in Nat /\ i + n <= Len(tokens)
        /\ i + (n + m) <= Len(tokens) /\ (i + n) + m <= Len(tokens)
    BY <1>1
  <2>2. first \in Seq(Nat) /\ Len(first) = n
    BY <2>1, BytesType
  <2>3. second \in Seq(Nat) /\ Len(second) = m
    BY <2>1, BytesType
  <2>4. all \in Seq(Nat) /\ Len(all) = n + m
    BY <2>1, BytesType
  <2>. QED BY <2>2, <2>3, <2>4
<1>3. \A j \in 1 .. n : first[j] = all[j]
  BY DEF Bytes
<1>4. \A j \in 1 .. m : second[j] = all[n + j]
  <2>. TAKE j \in 1 .. m
  <2>1. (i + n) + j = i + (n + j) /\ n + j \in 1 .. n + m
    OBVIOUS
  <2>2. second[j] = Byte(tokens[(i + n) + j]) /\ all[n + j] = Byte(tokens[i + (n + j)])
    BY <2>1 DEF Bytes
  <2>. QED BY <2>1, <2>2
<1> HIDE DEF first, second, all
<1>5. first \o second = all
  <2>1. /\ first \o second \in Seq(Nat) /\ Len(first \o second) = n + m
        /\ \A j \in 1 .. n + m : (first \o second)[j] = IF j <= n THEN first[j] ELSE second[j - n]
    <3>1. /\ first \o second \in Seq(Nat) /\ Len(first \o second) = Len(first) + Len(second)
          /\ \A j \in 1 .. Len(first) + Len(second) :
               (first \o second)[j] = IF j <= Len(first) THEN first[j] ELSE second[j - Len(first)]
      BY <1>2, Concatenated, Zenon
    <3>2. Len(first) = n /\ Len(second) = m
      BY <1>2
    <3>. QED BY Zenon, <3>1, <3>2
  <2>2. \A j \in 1 .. n + m : (first \o second)[j] = all[j]
    <3>. TAKE j \in 1 .. n + m
    <3>1. CASE j <= n
      BY <1>3, <2>1, <3>1
    <3>2. CASE j > n
      <4>1. j - n \in 1 .. m /\ n + (j - n) = j /\ ~(j <= n)
        BY <3>2
      <4>2. (first \o second)[j] = second[j - n]
        BY Zenon, <2>1, <4>1
      <4>3. second[j - n] = all[n + (j - n)]
        BY <1>4, <4>1
      <4>. QED BY Zenon, <4>1, <4>2, <4>3
    <3>3. j <= n \/ j > n
      OBVIOUS
    <3>. QED BY Zenon, <3>1, <3>2, <3>3
  <2>. QED BY <1>2, <2>1, <2>2, SeqEqual
<1>6. (b \o first) \o second = b \o (first \o second)
  BY <1>2, ConcatenatedTwice, Zenon
<1>. QED BY <1>5, <1>6 DEF first, second, all

\* Bytes joined with what follows are bytes or nothing.
LEMMA JoinType ==
  ASSUME NEW b \in Seq(Nat), NEW r \in Seq(Nat) \cup {None}
  PROVE  Join(b, r) \in Seq(Nat) \cup {None}
<1>1. CASE r = None
  BY <1>1 DEF Join
<1>2. CASE r \in Seq(Nat)
  BY <1>2, Concatenated DEF Join
<1>. QED BY <1>1, <1>2

\* Joining is associative as concatenation is.
LEMMA JoinTwice ==
  ASSUME NEW b \in Seq(Nat), NEW c \in Seq(Nat), NEW r \in Seq(Nat) \cup {None}
  PROVE  Join(b, Join(c, r)) = Join(b \o c, r)
<1>1. CASE r = None
  BY <1>1 DEF Join
<1>2. CASE r # None
  <2>1. c \o r \in Seq(Nat) /\ b \o (c \o r) = (b \o c) \o r
    <3>1. c \in Seq(Nat) /\ r \in Seq(Nat)
      BY <1>2
    <3>. QED BY <3>1, Concatenated, ConcatenatedTwice, Zenon
  <2>2. c \o r # None
    BY <2>1, TransportAssumption DEF TransportAssumption
  <2>. QED BY <1>2, <2>1, <2>2 DEF Join
<1>. QED BY <1>1, <1>2

\* Where the chunks behind a token lead back to: fewer tokens left.
LEMMA SameBehind ==
  ASSUME NEW tokens \in Tokens, NEW left \in 0 .. Len(tokens), NEW f, NEW g,
         \A k \in 0 .. left - 1 : f[k] = g[k]
  PROVE  ChunksBehind(tokens, Len(tokens) - left, f) = ChunksBehind(tokens, Len(tokens) - left, g)
<1> DEFINE i == Len(tokens) - left
           n == tokens[i + 1].n
           next == i + n + 2
<1>1. Len(tokens) \in Nat /\ i \in Nat
  BY DEF Tokens
<1>2. CASE i + 2 <= Len(tokens)
  <2>1. i + 1 \in 1 .. Len(tokens)
    BY <1>1, <1>2
  <2>2. n \in Nat
    BY <2>1, TokenNumbers DEF Tokens
  <2>3. CASE n = 0
    BY <2>3 DEF ChunksBehind
  <2>4. CASE next > Len(tokens)
    BY <2>4 DEF ChunksBehind
  <2>5. CASE n # 0 /\ ~(next > Len(tokens))
    <3>1. Len(tokens) - next \in 0 .. left - 1
      BY <1>1, <2>2, <2>5
    <3>2. f[Len(tokens) - next] = g[Len(tokens) - next]
      BY <3>1
    <3>. QED BY <3>2 DEF ChunksBehind
  <2>. QED BY <2>3, <2>4, <2>5
<1>3. CASE ~(i + 2 <= Len(tokens))
  <2>1. i + 2 > Len(tokens)
    BY <1>1, <1>3
  <2>. QED BY <2>1 DEF ChunksBehind
<1>. QED BY <1>2, <1>3

\* f decodes the chunks behind every token of the last m and one.
Decodes(f, tokens, m) == f = [left \in 0 .. m |-> ChunksBehind(tokens, Len(tokens) - left, f)]

\* There is a function that decodes them all.
LEMMA DecoderExists ==
  ASSUME NEW tokens \in Tokens, NEW m \in 0 .. Len(tokens)
  PROVE  \E f : Decodes(f, tokens, m)
<1> DEFINE T == {n \in Nat : n <= Len(tokens) => \E f : Decodes(f, tokens, n)}
<1>0. Len(tokens) \in Nat
  BY DEF Tokens
<1>1. 0 \in T
  <2> DEFINE f == [left \in 0 .. 0 |-> ChunksBehind(tokens, Len(tokens), <<>>)]
  <2>1. ChunksBehind(tokens, Len(tokens) - 0, f) = ChunksBehind(tokens, Len(tokens) - 0, <<>>)
    <3>1. 0 \in 0 .. Len(tokens) /\ \A k \in 0 .. 0 - 1 : f[k] = <<>>[k]
      BY <1>0
    <3> HIDE DEF f
    <3>. QED BY <3>1, SameBehind
  <2>2. \A left \in 0 .. 0 : left = 0 /\ Len(tokens) - left = Len(tokens) - 0 /\ Len(tokens) = Len(tokens) - 0
    BY <1>0
  <2>3. Decodes(f, tokens, 0)
    BY <2>1, <2>2 DEF Decodes
  <2>. QED BY <2>3
<1>2. ASSUME NEW k \in Nat, k \in T PROVE k + 1 \in T
  <2>. SUFFICES ASSUME k + 1 <= Len(tokens) PROVE \E f : Decodes(f, tokens, k + 1)
    OBVIOUS
  <2>1. PICK f : Decodes(f, tokens, k)
    BY <1>0, <1>2
  <2> DEFINE g == [left \in 0 .. k + 1 |-> IF left = k + 1 THEN ChunksBehind(tokens, Len(tokens) - (k + 1), f)
                                           ELSE f[left]]
  <2>2. \A left \in 0 .. k : g[left] = f[left]
    OBVIOUS
  <2>3. ASSUME NEW left \in 0 .. k + 1
        PROVE  g[left] = ChunksBehind(tokens, Len(tokens) - left, g)
    <3>1. left \in 0 .. Len(tokens) /\ \A j \in 0 .. left - 1 : f[j] = g[j]
      BY <1>0, <2>2
    <3>2. ChunksBehind(tokens, Len(tokens) - left, f) = ChunksBehind(tokens, Len(tokens) - left, g)
      <4> HIDE DEF g
      <4>. QED BY <3>1, SameBehind
    <3>3. g[left] = ChunksBehind(tokens, Len(tokens) - left, f)
      <4>1. CASE left = k + 1
        BY <4>1
      <4>2. CASE left # k + 1
        <5>1. left \in 0 .. k
          BY <4>2
        <5>2. f[left] = ChunksBehind(tokens, Len(tokens) - left, f)
          BY <2>1, <5>1 DEF Decodes
        <5>. QED BY <2>2, <5>1, <5>2
      <4>. QED BY <4>1, <4>2
    <3>. QED BY <3>2, <3>3
  <2>4. Decodes(g, tokens, k + 1)
    BY <2>3 DEF Decodes
  <2> HIDE DEF g
  <2>. QED BY <2>4
<1> HIDE DEF T
<1>3. m \in T
  BY <1>0, <1>1, <1>2, Induction
<1>. QED BY <1>0, <1>3 DEF T

\* What the chunks behind a token stand for, in terms of what follows them.
LEMMA ChunksUnfold ==
  ASSUME NEW tokens \in Tokens, NEW i \in 0 .. Len(tokens)
  PROVE  Chunks(tokens)[Len(tokens) - i] = ChunksBehind(tokens, i, Chunks(tokens))
<1> DEFINE c == CHOOSE f : Decodes(f, tokens, Len(tokens))
<1>1. Len(tokens) \in Nat /\ Len(tokens) - i \in 0 .. Len(tokens) /\ Len(tokens) - (Len(tokens) - i) = i
  BY DEF Tokens
<1>2. Len(tokens) \in 0 .. Len(tokens)
  BY <1>1
<1>3. \E f : Decodes(f, tokens, Len(tokens))
  BY <1>2, DecoderExists
<1>4. c = [left \in 0 .. Len(tokens) |-> ChunksBehind(tokens, Len(tokens) - left, c)]
  BY <1>3 DEF Decodes
<1>5. Chunks(tokens) = c
  BY DEF Chunks, Decodes
<1> HIDE DEF c
<1>. QED BY <1>1, <1>4, <1>5

\* They stand for bytes or for nothing.
LEMMA ChunksType ==
  ASSUME NEW tokens \in Tokens, NEW i \in 0 .. Len(tokens)
  PROVE  Chunks(tokens)[Len(tokens) - i] \in Seq(Nat) \cup {None}
<1> DEFINE All == Seq(Nat) \cup {None}
           Bad == {k \in 0 .. Len(tokens) : Chunks(tokens)[k] \notin All}
<1>0. Len(tokens) \in Nat
  BY DEF Tokens
<1>1. ASSUME Bad # {} PROVE FALSE
  <2>1. PICK left \in Bad : \A y \in Bad : left <= y
    <3>1. Bad \in SUBSET Nat
      BY <1>0
    <3> HIDE DEF Bad
    <3>. QED BY <1>1, <3>1, LeastElement
  <2> DEFINE j == Len(tokens) - left
             n == tokens[j + 1].n
             next == j + n + 2
  <2>2. left \in 0 .. Len(tokens) /\ j \in 0 .. Len(tokens) /\ Len(tokens) - j = left
    BY <1>0
  <2>3. Chunks(tokens)[left] = ChunksBehind(tokens, j, Chunks(tokens))
    BY <2>2, ChunksUnfold
  <2>4. \A k \in 0 .. left - 1 : Chunks(tokens)[k] \in All
    BY <1>0, <2>1, <2>2
  <2>5. ChunksBehind(tokens, j, Chunks(tokens)) \in All
    <3>1. CASE j + 2 > Len(tokens) \/ tokens[j + 1].kind # "size"
      BY <3>1 DEF ChunksBehind
    <3>2. CASE ~(j + 2 > Len(tokens) \/ tokens[j + 1].kind # "size")
      <4>1. n \in Nat
        <5>1. j + 1 \in 1 .. Len(tokens)
          BY <1>0, <2>2, <3>2
        <5>. QED BY <5>1, TokenNumbers DEF Tokens
      <4>2. CASE n = 0
        <5>1. <<>> \in Seq(Nat)
          OBVIOUS
        <5>. QED BY <3>2, <4>2, <5>1 DEF ChunksBehind
      <4>3. CASE n # 0 /\ (next > Len(tokens) \/ tokens[next].kind # "crlf")
        BY <3>2, <4>3 DEF ChunksBehind
      <4>4. CASE n # 0 /\ ~(next > Len(tokens) \/ tokens[next].kind # "crlf")
        <5>1. Len(tokens) - next \in 0 .. left - 1 /\ (j + 1) + n <= Len(tokens) /\ j + 1 \in Nat
          BY <1>0, <2>2, <4>1, <4>4
        <5>2. Chunks(tokens)[Len(tokens) - next] \in All
          BY <2>4, <5>1
        <5>3. Bytes(tokens, j + 1, n) \in Seq(Nat)
          BY <4>1, <5>1, BytesType
        <5>4. ChunksBehind(tokens, j, Chunks(tokens))
                = Join(Bytes(tokens, j + 1, n), Chunks(tokens)[Len(tokens) - next])
          BY <3>2, <4>4 DEF ChunksBehind
        <5>. QED BY <5>2, <5>3, <5>4, JoinType
      <4>. QED BY <4>2, <4>3, <4>4
    <3>. QED BY <3>1, <3>2
  <2>. QED BY <2>1, <2>3, <2>5
<1>2. Len(tokens) - i \in 0 .. Len(tokens)
  BY <1>0
<1>. QED BY <1>1, <1>2

\* http_get starts with nothing read and nothing waited for.
LEMMA InitInv == Init => TransportInv
<1>. SUFFICES ASSUME Init PROVE TransportInv OBVIOUS
<1>1. message.tokens \in Seq([kind : STRING, n : Nat]) /\ Len(message.tokens) \in Nat
  BY TransportAssumption DEF Init, TransportAssumption
<1>2. TypeOK
  <2>1. body \in Seq(Nat) /\ at \in Places /\ result \in Outcomes \cup {None}
    BY DEF Init, Places
  <2>2. delivered \in 0 .. Len(message.tokens) /\ consumed \in 0 .. delivered
    BY <1>1 DEF Init
  <2>3. message \in Messages /\ closed \in BOOLEAN /\ cancelled_at \in Nat \cup {None}
          /\ clock \in Nat /\ until \in Nat \cup {None} /\ unsent \in Nat /\ need \in Nat
    BY TransportAssumption DEF Init, TransportAssumption
  <2>. QED BY <2>1, <2>2, <2>3 DEF TypeOK
<1>3. NeedFits
  BY TransportAssumption DEF Init, NeedFits, BodyBounded, TransportAssumption
<1>4. WaitsEndInTime
  BY TransportAssumption DEF Init, WaitsEndInTime, OnTime, TransportAssumption
<1>. QED BY <1>2, <1>3, <1>4 DEF TransportInv

\* A slice is a positive time that ends by the deadline and within one poll
\* interval, once `remaining` agreed.
LEMMA SliceBounds ==
  ASSUME TypeOK, RemainingError = None
  PROVE  /\ Slice \in Nat \ {0} /\ clock + Slice <= Limit /\ Slice <= IO_POLL_INTERVAL
         /\ cancelled_at = None
BY TransportAssumption DEF TypeOK, RemainingError, Slice, TransportAssumption, Outcomes

\* What leaves the body and the clock alone, between two waits or ending one.
LEMMA Between ==
  ASSUME TransportInv, UNCHANGED <<daemon, cancelled_at, clock, unsent, consumed, need, body>>,
         until' = until \/ until' = None, until' # None => at' = at,
         at' \in Unanswered => at \in Unanswered, at' \notin {"sized", "chunk"} \/ at' = at,
         at' \in Places, result' \in Outcomes \cup {None}
  PROVE  TransportInv'
BY DEF TransportInv, TypeOK, NeedFits, BodyBounded, WaitsEndInTime, OnTime, daemon

\* Reading a line keeps the body as it is.
LEMMA LineRead ==
  ASSUME TransportInv, NEW place \in Lines, ReadLine(place),
         \/ at' \in {"size", "trailer", "done", "crlf"} /\ need' = need
         \/ at' \in {"sized", "chunk"} /\ need' \in 1 .. Allowance - Len(body),
         result' \in Outcomes \cup {None}
  PROVE  TransportInv'
<1>1. consumed' \in 0 .. delivered /\ Len(body) \in Nat /\ need' \in Nat
  BY TransportAssumption DEF TransportInv, TypeOK, ReadLine, Available, TransportAssumption
<1>2. TypeOK'
  BY <1>1 DEF TransportInv, TypeOK, ReadLine, Places, Reading, Lines, daemon
<1>3. NeedFits'
  BY <1>1, TransportAssumption
     DEF TransportInv, TypeOK, NeedFits, BodyBounded, ReadLine, TransportAssumption, Unanswered
<1>4. WaitsEndInTime'
  BY DEF TransportInv, WaitsEndInTime, OnTime, ReadLine
<1>. QED BY <1>2, <1>3, <1>4 DEF TransportInv

\* Every step keeps the invariant, action by action.
LEMMA StepInv == TransportInv /\ [Next]_vars => TransportInv'
<1>. SUFFICES ASSUME TransportInv, [Next]_vars PROVE TransportInv' OBVIOUS
<1>. USE DEF Return, Goto
<1>0. RemainingError \in Outcomes \cup {None} /\ at \in Places /\ result \in Outcomes \cup {None}
  BY DEF RemainingError, Outcomes, TransportInv, TypeOK
<1>t. \A p \in {"connect", "connected", "sleep", "slept", "write", "done", "head", "size", "crlf",
              "trailer", "sized", "chunk"} : p \in Places
  BY DEF Places, Reading, Lines
<1>o. \A o \in {"Ok", "Io", "Protocol", "Bytes"} : o \in Outcomes \cup {None}
  BY DEF Outcomes
<1>1. CASE Connect
  <2>1. UNCHANGED <<daemon, cancelled_at, clock, unsent, consumed, need, body, until>> /\ until = None
    BY <1>1 DEF Connect, wire, TransportInv, WaitsEndInTime, Reading, Lines
  <2>2. at' \in {"connected", "sleep", "done"} /\ result' \in Outcomes \cup {None}
    BY <1>0, <1>1, <1>o DEF Connect
  <2>. QED BY <1>1, <1>t, <2>1, <2>2, Between DEF Connect, Unanswered
<1>2. ASSUME NEW from \in {"connected", "slept"}, NEW to \in {"write", "connect"}, Recheck(from, to)
      PROVE  TransportInv'
  <2>1. UNCHANGED <<daemon, cancelled_at, clock, unsent, consumed, need, body, until>> /\ until = None
    BY <1>2 DEF Recheck, wire, TransportInv, WaitsEndInTime, Reading, Lines
  <2>2. at' \in {"write", "connect", "done"} /\ result' \in Outcomes \cup {None}
    BY <1>0, <1>2 DEF Recheck
  <2>. QED BY <1>2, <1>t, <2>1, <2>2, Between DEF Recheck, Unanswered
<1>3. CASE Begin
  <2>1. CASE RemainingError # None
    <3>1. /\ UNCHANGED <<daemon, cancelled_at, clock, unsent, consumed, need, body, until>>
          /\ at' = "done" /\ result' \in Outcomes \cup {None} /\ until = None
      BY <1>0, <1>3, <2>1 DEF Begin, wire
    <3>. QED BY <1>t, <3>1, Between DEF Unanswered
  <2>2. CASE RemainingError = None
    <3>1. until' = clock + Slice /\ UNCHANGED <<daemon, cancelled_at, clock, wire, at, result>>
      BY <1>3, <2>2 DEF Begin
    <3>2. Slice \in Nat \ {0} /\ clock + Slice <= Limit /\ Slice <= IO_POLL_INTERVAL
            /\ cancelled_at = None
      BY <2>2, SliceBounds DEF TransportInv
    <3>3. clock \in Nat /\ until' \in Nat /\ clock <= until'
      BY <3>1, <3>2 DEF TransportInv, TypeOK
    <3>4. TypeOK'
      BY <3>1, <3>3 DEF TransportInv, TypeOK, daemon, wire
    <3>5. NeedFits'
      BY <3>1 DEF TransportInv, NeedFits, BodyBounded, wire
    <3>6. WaitsEndInTime'
      BY <1>3, <3>1, <3>2, <3>3, TransportAssumption
         DEF TransportInv, WaitsEndInTime, OnTime, Begin, TransportAssumption
    <3>. QED BY <3>4, <3>5, <3>6 DEF TransportInv
  <2>. QED BY <2>1, <2>2
<1>4. CASE Slept
  <2>1. UNCHANGED <<daemon, cancelled_at, clock, unsent, consumed, need, body, result>>
          /\ until' = None /\ at' = "slept"
    BY <1>4 DEF Slept, wire
  <2>. QED BY <1>4, <1>0, <1>t, <2>1, Between DEF Slept, Unanswered
<1>5. CASE Again
  <2>1. UNCHANGED <<daemon, cancelled_at, clock, unsent, consumed, need, body, result, at>>
          /\ until' = None
    BY <1>5 DEF Again, wire
  <2>. QED BY <1>0, <2>1, Between
<1>6. ASSUME UNCHANGED <<daemon, cancelled_at, clock, wire>>, until' = None, at' = "done",
             result' \in {"Io", "Protocol"}
      PROVE  TransportInv'
  <2>1. UNCHANGED <<unsent, consumed, need, body>>
    BY <1>6 DEF wire
  <2>. QED BY <1>6, <1>t, <1>o, <2>1, Between DEF Unanswered
<1>7. CASE Write
  <2>1. /\ unsent' \in Nat /\ UNCHANGED <<daemon, cancelled_at, clock, consumed, need, body, result>>
        /\ until' = None /\ at' \in {"write", "head"}
    BY <1>7 DEF Write, TransportInv, TypeOK
  <2>2. TypeOK'
    BY <1>t, <2>1 DEF TransportInv, TypeOK, daemon
  <2>3. NeedFits' /\ WaitsEndInTime'
    BY <1>7, <2>1 DEF Write, Unanswered, TransportInv, NeedFits, BodyBounded, WaitsEndInTime, OnTime
  <2>. QED BY <2>2, <2>3 DEF TransportInv
<1>8. CASE End
  BY <1>6, <1>8 DEF End
<1>9. CASE ReadHead
  <2>1. \/ at' \in {"size", "done"} /\ need' = need
        \/ at' = "sized" /\ need' \in 1 .. Allowance /\ Len(body) = 0
    BY <1>9 DEF ReadHead, TransportInv, NeedFits, ReadLine, Unanswered
  <2>2. result' \in Outcomes \cup {None}
    BY <1>0, <1>9, <1>o DEF ReadHead
  <2>3. ReadLine("head") /\ "head" \in Lines
    BY <1>9 DEF ReadHead, Lines
  <2>4. \/ at' \in {"size", "trailer", "done", "crlf"} /\ need' = need
        \/ at' \in {"sized", "chunk"} /\ need' \in 1 .. Allowance - Len(body)
    BY <2>1, TransportAssumption DEF TransportAssumption
  <2>. QED BY <2>2, <2>3, <2>4, LineRead
<1>10. CASE ReadSize
  <2>1. \/ at' \in {"trailer", "done"} /\ need' = need
        \/ at' = "chunk" /\ need' \in 1 .. Allowance - Len(body)
    BY <1>10 DEF ReadSize
  <2>2. result' \in Outcomes \cup {None}
    BY <1>0, <1>10, <1>o DEF ReadSize
  <2>3. ReadLine("size") /\ "size" \in Lines
    BY <1>10 DEF ReadSize, Lines
  <2>. QED BY <2>1, <2>2, <2>3, LineRead
<1>11. CASE ReadCrlf
  <2>1. ReadLine("crlf") /\ "crlf" \in Lines /\ need' = need
    BY <1>11 DEF ReadCrlf, Lines
  <2>2. at' \in {"size", "done"} /\ result' \in Outcomes \cup {None}
    BY <1>0, <1>11, <1>o DEF ReadCrlf
  <2>. QED BY <2>1, <2>2, LineRead
<1>12. CASE ReadTrailer
  <2>1. ReadLine("trailer") /\ "trailer" \in Lines /\ need' = need
    BY <1>12 DEF ReadTrailer, Lines
  <2>2. at' \in {"size", "done"} /\ result' \in Outcomes \cup {None}
    BY <1>0, <1>12, <1>o DEF ReadTrailer
  <2>. QED BY <2>1, <2>2, LineRead
<1>13. CASE ReadData
  <2>1. PICK n \in 1 .. need :
          /\ n <= Available
          /\ body' = body \o Bytes(message.tokens, consumed, n)
          /\ consumed' = consumed + n /\ need' = need - n
    BY <1>13 DEF ReadData
  <2>2. /\ UNCHANGED <<daemon, cancelled_at, clock, unsent>> /\ until' = None
        /\ at \in {"sized", "chunk"} /\ at' \in {at, "crlf", "done"} /\ result' \in Outcomes \cup {None}
    BY <1>0, <1>13, <1>o DEF ReadData
  <2>3. n \in Nat /\ need' \in Nat /\ consumed' \in 0 .. delivered
    BY <2>1 DEF TransportInv, TypeOK, Available
  <2>4. message.tokens \in Tokens /\ consumed \in Nat /\ consumed + n <= Len(message.tokens)
    BY <2>1, <2>3, TransportAssumption DEF TransportInv, TypeOK, TransportAssumption, Available, Tokens
  <2>5. Bytes(message.tokens, consumed, n) \in Seq(Nat) /\ Len(Bytes(message.tokens, consumed, n)) = n
    BY <2>3, <2>4, BytesType
  <2>6. body' \in Seq(Nat) /\ Len(body') = Len(body) + n
    <3>1. body \in Seq(Nat)
      BY DEF TransportInv, TypeOK
    <3>. QED BY <2>1, <2>5, <3>1, Concatenated
  <2>7. TypeOK'
    BY <1>0, <1>t, <2>2, <2>3, <2>6 DEF TransportInv, TypeOK, daemon
  <2>8. NeedFits'
    <3>1. Len(body) \in Nat /\ need \in Nat /\ Len(body) + need <= Allowance /\ Allowance \in Nat
      BY <2>2, TransportAssumption DEF TransportInv, TypeOK, NeedFits, TransportAssumption
    <3>2. Len(body') + need' <= Allowance /\ Len(body') <= Allowance
      BY <2>1, <2>3, <2>6, <3>1
    <3>3. at' \notin Unanswered
      BY <2>2 DEF Unanswered
    <3>. QED BY <3>2, <3>3 DEF NeedFits, BodyBounded
  <2>9. WaitsEndInTime'
    BY <2>2 DEF TransportInv, WaitsEndInTime, OnTime
  <2>. QED BY <2>7, <2>8, <2>9 DEF TransportInv
<1>14. CASE Deliver
  <2>1. TypeOK'
    BY <1>14, TransportAssumption DEF Deliver, TransportInv, TypeOK, wire, TransportAssumption
  <2>2. NeedFits' /\ WaitsEndInTime'
    BY <1>14 DEF Deliver, TransportInv, NeedFits, BodyBounded, WaitsEndInTime, OnTime, wire
  <2>. QED BY <2>1, <2>2 DEF TransportInv
<1>15. CASE Close
  BY <1>15 DEF Close, TransportInv, TypeOK, NeedFits, BodyBounded, WaitsEndInTime, OnTime, wire
<1>16. CASE Cancel
  <2>1. TypeOK' /\ NeedFits'
    BY <1>16 DEF Cancel, TransportInv, TypeOK, NeedFits, BodyBounded, wire, daemon
  <2>. QED BY <1>16, <2>1, TransportAssumption
           DEF Cancel, TransportInv, TypeOK, WaitsEndInTime, OnTime, TransportAssumption
<1>17. CASE Tick
  <2>1. TypeOK' /\ NeedFits'
    BY <1>17 DEF Tick, TransportInv, TypeOK, NeedFits, BodyBounded, wire, daemon
  <2>. QED BY <1>17, <2>1, TransportAssumption
           DEF Tick, TransportInv, TypeOK, WaitsEndInTime, OnTime, TransportAssumption
<1>18. CASE UNCHANGED vars
  BY <1>18 DEF vars, daemon, wire, TransportInv, TypeOK, NeedFits, BodyBounded, WaitsEndInTime, OnTime,
     Available
<1>. QED
  BY <1>1, <1>2, <1>3, <1>4, <1>5, <1>6, <1>7, <1>8, <1>9, <1>10, <1>11, <1>12, <1>13, <1>14, <1>15,
     <1>16, <1>17, <1>18
     DEF Next, Client, Progress, Fails

(***************************************************************************)
(* Whole or refused for a cause.  Wherever http_get stands, the sender's   *)
(* body is what it holds and what is still to come of the tokens it has    *)
(* not read.                                                               *)
(***************************************************************************)
Rest(i) == Chunks(message.tokens)[Len(message.tokens) - i]
Coming(n) == Bytes(message.tokens, consumed, n)
EmptyLine(i) == i <= Len(message.tokens) /\ message.tokens[i].kind = "crlf"

ReadInv ==
  /\ at \in Unanswered => consumed = 0
  /\ at = "sized" =>
       /\ need # 0
       /\ message.payload = IF consumed + need <= Len(message.tokens) THEN body \o Coming(need) ELSE None
  /\ at = "size" => message.payload = Join(body, Rest(consumed))
  /\ at \in {"chunk", "crlf"} =>
       message.payload = IF EmptyLine(consumed + need + 1)
                         THEN Join(body \o Coming(need), Rest(consumed + need + 1)) ELSE None
  /\ at = "crlf" => need = 0
  /\ at = "trailer" => message.payload = IF EmptyLine(consumed + 1) THEN body ELSE None
  /\ result # None => at = "done"
  /\ WholeOrNothing /\ RefusedForCause

\* What the proofs below use of a state: its tokens and where it stands in them.
LEMMA Standing ==
  ASSUME TransportInv
  PROVE  /\ message.tokens \in Tokens /\ Len(message.tokens) \in Nat
         /\ message.payload = Payload(message.tokens)
         /\ delivered \in Nat /\ delivered <= Len(message.tokens)
         /\ consumed \in Nat /\ consumed <= delivered
         /\ need \in Nat /\ body \in Seq(Nat) /\ Len(body) \in Nat /\ Allowance \in Nat
         /\ None \notin Seq(Nat) /\ None \notin Outcomes
<1>1. /\ message.tokens \in Tokens /\ message.payload = Payload(message.tokens)
      /\ None \notin Seq(Nat) /\ None \notin Outcomes /\ Allowance \in Nat
  BY TransportAssumption DEF TransportInv, TypeOK, TransportAssumption, Tokens
<1>2. Len(message.tokens) \in Nat
  BY <1>1 DEF Tokens
<1>. QED BY <1>1, <1>2 DEF TransportInv, TypeOK

\* What the chunks behind a token that was sent stand for, by its kind.
LEMMA BehindToken ==
  ASSUME NEW tokens \in Tokens, NEW i \in Nat, i + 1 <= Len(tokens)
  PROVE  LET t == tokens[i + 1]
             all == Chunks(tokens)[Len(tokens) - i]
             next == i + t.n + 2
         IN /\ t.n \in Nat
            /\ t.kind # "size" => all = None
            /\ t.kind = "size" /\ t.n = 0 =>
                 all = IF i + 2 <= Len(tokens) /\ tokens[i + 2].kind = "crlf" THEN <<>> ELSE None
            /\ t.kind = "size" /\ t.n # 0 =>
                 all = IF next <= Len(tokens) /\ tokens[next].kind = "crlf"
                       THEN Join(Bytes(tokens, i + 1, t.n), Chunks(tokens)[Len(tokens) - next]) ELSE None
<1> DEFINE t == tokens[i + 1]
           all == Chunks(tokens)[Len(tokens) - i]
           next == i + t.n + 2
<1>1. Len(tokens) \in Nat /\ i \in 0 .. Len(tokens) /\ i + 1 \in 1 .. Len(tokens)
  BY DEF Tokens
<1>2. t.n \in Nat
  BY <1>1, TokenNumbers DEF Tokens
<1>3. all = ChunksBehind(tokens, i, Chunks(tokens))
  BY <1>1, ChunksUnfold
<1>4. t.kind # "size" => all = None
  BY <1>3 DEF ChunksBehind
<1>5. ASSUME t.kind = "size", t.n = 0
      PROVE  all = IF i + 2 <= Len(tokens) /\ tokens[i + 2].kind = "crlf" THEN <<>> ELSE None
  <2>1. CASE i + 2 > Len(tokens)
    <3>1. ~(i + 2 <= Len(tokens))
      BY <1>1, <2>1
    <3>. QED BY <1>3, <2>1, <3>1 DEF ChunksBehind
  <2>2. CASE ~(i + 2 > Len(tokens))
    <3>1. i + 2 <= Len(tokens)
      BY <1>1, <2>2
    <3>. QED BY <1>3, <1>5, <2>2, <3>1 DEF ChunksBehind
  <2>. QED BY <2>1, <2>2
<1>6. ASSUME t.kind = "size", t.n # 0
      PROVE  all = IF next <= Len(tokens) /\ tokens[next].kind = "crlf"
                   THEN Join(Bytes(tokens, i + 1, t.n), Chunks(tokens)[Len(tokens) - next]) ELSE None
  <2>1. CASE next > Len(tokens)
    <3>1. ~(next <= Len(tokens))
      BY <1>1, <1>2, <2>1
    <3>. QED BY <1>3, <1>6, <2>1, <3>1 DEF ChunksBehind
  <2>2. CASE ~(next > Len(tokens))
    <3>1. next <= Len(tokens) /\ ~(i + 2 > Len(tokens))
      BY <1>1, <1>2, <2>2
    <3>. QED BY <1>3, <1>6, <2>2, <3>1 DEF ChunksBehind
  <2>. QED BY <2>1, <2>2
<1>. QED BY <1>2, <1>4, <1>5, <1>6

\* Nothing is sent, so nothing was read.
LEMMA ReadInit == Init => ReadInv
BY TransportAssumption
   DEF Init, ReadInv, WholeOrNothing, RefusedForCause, Unanswered, TransportAssumption, Outcomes

\* Steps that read nothing: they stay, go on before the head, or give up.
LEMMA NothingRead ==
  ASSUME TransportInv, ReadInv, UNCHANGED <<message, delivered, closed, consumed, need, body>>,
         \/ at' = at /\ result' = result
         \/ at' \in Unanswered /\ at \in Unanswered /\ result' = result /\ result = None
         \/ at' = "done" /\ result' \in {"Io", "Cancelled", "Deadline"}
  PROVE  ReadInv'
<1>1. CASE at' = at /\ result' = result
  BY <1>1 DEF ReadInv, WholeOrNothing, RefusedForCause, Rest, Coming, EmptyLine
<1>2. CASE at' \in Unanswered /\ at \in Unanswered /\ result' = result /\ result = None
  BY <1>2 DEF ReadInv, WholeOrNothing, RefusedForCause, Unanswered
<1>3. CASE at' = "done" /\ result' \in {"Io", "Cancelled", "Deadline"}
  BY <1>3 DEF ReadInv, WholeOrNothing, RefusedForCause, Unanswered
<1>. QED BY <1>1, <1>2, <1>3

\* A daemon that sends, or closes, while http_get reads.
LEMMA DaemonRead ==
  ASSUME TransportInv, ReadInv, at \in Reading,
         UNCHANGED <<message, consumed, need, body, at, result>>
  PROVE  ReadInv'
<1>1. result = None /\ result' = None /\ None \notin Outcomes
  BY Standing DEF ReadInv, Reading, Lines
<1>2. WholeOrNothing' /\ RefusedForCause'
  BY <1>1 DEF WholeOrNothing, RefusedForCause, Outcomes
<1>. QED BY <1>1, <1>2 DEF ReadInv, Rest, Coming, EmptyLine

\* The answer is accepted, or refused for a cause.
LEMMA Answered ==
  ASSUME at' = "done", result' \in {"Ok", "Protocol", "Bytes"}, WholeOrNothing', RefusedForCause'
  PROVE  ReadInv'
BY DEF ReadInv, Unanswered

\* Reading goes on.
LEMMA GoesOn ==
  ASSUME TransportInv, ReadInv, at \in Reading, at' \in Reading \ {"head"}, result' = result
  PROVE  result' = None /\ at' \notin Unanswered /\ at' # "done" /\ WholeOrNothing' /\ RefusedForCause'
<1>1. result = None /\ None \notin Outcomes
  BY Standing DEF ReadInv, Reading, Lines
<1>. QED BY <1>1 DEF WholeOrNothing, RefusedForCause, Outcomes, Reading, Lines, Unanswered

\* The stream ends: before the answer did, or the answer is no response.
LEMMA EndRead == ASSUME TransportInv, ReadInv, End PROVE ReadInv'
<1>1. /\ at \in Reading /\ consumed = delivered /\ closed /\ at' = "done" /\ result' = "Protocol"
      /\ UNCHANGED <<message, delivered, closed>>
  BY Standing DEF End, Available, Return, daemon
<1>2. ASSUME delivered = Len(message.tokens) PROVE message.payload = None
  <2>1. consumed = Len(message.tokens) /\ Len(message.tokens) \in Nat /\ need \in Nat
    BY <1>1, <1>2, Standing
  <2>2. CASE at = "head"
    <3>1. message.tokens = <<>>
      BY <2>1, <2>2, Standing DEF ReadInv, Unanswered, Tokens
    <3>. QED BY <3>1, Standing DEF Payload
  <2>3. CASE at = "sized"
    BY <2>1, <2>3 DEF ReadInv
  <2>4. CASE at = "size"
    <3>1. consumed \in 0 .. Len(message.tokens)
      BY <2>1
    <3>2. Rest(consumed) = None
      BY <2>1, <3>1, ChunksUnfold, Standing DEF Rest, ChunksBehind
    <3>. QED BY <2>4, <3>2 DEF ReadInv, Join
  <2>5. CASE at \in {"chunk", "crlf"}
    <3>1. ~EmptyLine(consumed + need + 1)
      BY <2>1 DEF EmptyLine
    <3>. QED BY <2>5, <3>1 DEF ReadInv
  <2>6. CASE at = "trailer"
    <3>1. ~EmptyLine(consumed + 1)
      BY <2>1 DEF EmptyLine
    <3>. QED BY <2>6, <3>1 DEF ReadInv
  <2>. QED BY <1>1, <2>2, <2>3, <2>4, <2>5, <2>6 DEF Reading, Lines
<1>3. message.payload = None \/ delivered < Len(message.tokens)
  BY <1>2, Standing
<1>4. WholeOrNothing' /\ RefusedForCause'
  BY <1>1, <1>3 DEF WholeOrNothing, RefusedForCause
<1>. QED BY <1>1, <1>4, Answered

\* A line that is read was sent.
LEMMA LineSent ==
  ASSUME TransportInv, NEW place \in Lines, ReadLine(place)
  PROVE  /\ at = place /\ consumed + 1 <= Len(message.tokens) /\ consumed' = consumed + 1
         /\ UNCHANGED <<message, delivered, closed, body>>
         /\ Token = message.tokens[consumed + 1] /\ Token.n \in Nat
<1>1. consumed + 1 <= Len(message.tokens) /\ consumed + 1 \in 1 .. Len(message.tokens)
  BY Standing DEF ReadLine, Available
<1>2. Token.n \in Nat
  BY <1>1, Standing, TokenNumbers DEF Token, Tokens
<1>. QED BY <1>1, <1>2 DEF ReadLine, daemon, Token

\* The empty body in front of anything.
LEMMA JoinEmpty ==
  ASSUME NEW r \in Seq(Nat) \cup {None}
  PROVE  Join(<<>>, r) = r
<1>1. \A s \in Seq(Nat) : <<>> \o s = s
  BY ConcatEmptySeq
<1>. QED BY <1>1 DEF Join

\* The head says how the rest is to be read.
LEMMA HeadRead == ASSUME TransportInv, ReadInv, ReadHead PROVE ReadInv'
<1> DEFINE T == message.tokens
           P == message.payload
<1>1. /\ at = "head" /\ consumed = 0 /\ body = <<>> /\ consumed' = 1 /\ body' = <<>>
      /\ 1 <= Len(T) /\ Token = T[1] /\ Token.n \in Nat
      /\ UNCHANGED <<message, delivered, closed>>
  <2>1. ReadLine("head") /\ "head" \in Lines
    BY DEF ReadHead, Lines
  <2>2. at = "head" /\ consumed' = consumed + 1 /\ consumed + 1 <= Len(T) /\ Token = T[consumed + 1]
          /\ Token.n \in Nat /\ UNCHANGED <<message, delivered, closed, body>>
    BY <2>1, LineSent
  <2>3. consumed = 0 /\ body = <<>>
    BY <2>2 DEF ReadInv, TransportInv, NeedFits, Unanswered
  <2>. QED BY <2>2, <2>3
<1>2. T \in Tokens /\ Len(T) \in Nat /\ T # <<>> /\ P = Payload(T) /\ Allowance \in Nat /\ None \notin Seq(Nat)
  BY <1>1, Standing
<1>3. CASE Token.kind = "chunked" /\ Goto("size")
  <2>1. P = Chunks(T)[Len(T) - 1]
    BY <1>1, <1>2, <1>3 DEF Payload
  <2>2. P \in Seq(Nat) \cup {None}
    <3>1. 1 \in 0 .. Len(T)
      BY <1>1, <1>2
    <3>. QED BY <1>2, <2>1, <3>1, ChunksType
  <2>3. P = Join(<<>>, Chunks(T)[Len(T) - 1])
    BY <2>1, <2>2, JoinEmpty
  <2>4. at' = "size" /\ message'.payload = Join(body', Rest(1)')
    BY <1>1, <1>3, <2>3 DEF Goto, Rest
  <2>5. result' = None /\ at' \notin Unanswered /\ at' # "done" /\ WholeOrNothing' /\ RefusedForCause'
    BY <1>1, <1>3, <2>4, GoesOn DEF Goto, Reading, Lines
  <2>. QED BY <1>1, <2>4, <2>5 DEF ReadInv, Rest
<1>4. CASE Token.kind = "sized"
  <2>1. P = IF Token.n < Len(T) THEN Bytes(T, 1, Token.n) ELSE None
    BY <1>1, <1>2, <1>4 DEF Payload
  <2>2. ASSUME Token.n < Len(T)
        PROVE  Bytes(T, 1, Token.n) \in Seq(Nat) /\ Len(Bytes(T, 1, Token.n)) = Token.n
    <3>1. 1 + Token.n <= Len(T) /\ 1 \in Nat
      BY <1>1, <1>2, <2>2
    <3>. QED BY <1>1, <1>2, <3>1, BytesType
  <2>3. CASE Token.n > Allowance /\ Return("Bytes")
    <3>1. P = None \/ Len(P) > Allowance
      BY <2>1, <2>2, <2>3
    <3>2. at' = "done" /\ result' = "Bytes" /\ WholeOrNothing' /\ RefusedForCause'
      BY <1>1, <2>3, <3>1 DEF Return, WholeOrNothing, RefusedForCause
    <3>. QED BY <3>2, Answered
  <2>4. CASE Token.n = 0 /\ Return("Ok")
    <3>1. P \in Seq(Nat) /\ Len(P) = 0
      BY <1>1, <1>2, <2>1, <2>2, <2>4
    <3>2. P = <<>> /\ P # None
      BY <1>2, <3>1
    <3>3. at' = "done" /\ result' = "Ok" /\ WholeOrNothing' /\ RefusedForCause'
      BY <1>1, <1>2, <2>4, <3>2 DEF Return, WholeOrNothing, RefusedForCause
    <3>. QED BY <3>3, Answered
  <2>5. CASE Token.n \in 1 .. Allowance /\ Goto("sized") /\ need' = Token.n
    <3>1. Token.n < Len(T) => Bytes(T, 1, Token.n) = <<>> \o Bytes(T, 1, Token.n)
      <4>1. \A s \in Seq(Nat) : <<>> \o s = s
        BY ConcatEmptySeq
      <4>. QED BY <2>2, <4>1
    <3>2. Token.n < Len(T) <=> 1 + Token.n <= Len(T)
      BY <1>1, <1>2
    <3>3. P = IF 1 + Token.n <= Len(T) THEN <<>> \o Bytes(T, 1, Token.n) ELSE None
      BY <2>1, <3>1, <3>2
    <3>4. at' = "sized" /\ need' # 0
            /\ message'.payload = IF consumed' + need' <= Len(message'.tokens)
                                  THEN body' \o Bytes(message'.tokens, consumed', need') ELSE None
      BY <1>1, <2>5, <3>3 DEF Goto
    <3>5. result' = None /\ at' \notin Unanswered /\ at' # "done" /\ WholeOrNothing' /\ RefusedForCause'
      BY <1>1, <2>5, <3>4, GoesOn DEF Goto, Reading, Lines
    <3>. QED BY <3>4, <3>5 DEF ReadInv, Coming
  <2>. QED BY <1>4, <2>3, <2>4, <2>5 DEF ReadHead
<1>5. CASE Token.kind \notin {"chunked", "sized"} /\ Return("Protocol")
  <2>1. P = None
    BY <1>1, <1>2, <1>5 DEF Payload
  <2>2. at' = "done" /\ result' = "Protocol" /\ WholeOrNothing' /\ RefusedForCause'
    BY <1>1, <1>5, <2>1 DEF Return, WholeOrNothing, RefusedForCause
  <2>. QED BY <2>2, Answered
<1>. QED BY <1>3, <1>4, <1>5 DEF ReadHead

\* The size of a chunk says how much of the body follows.
LEMMA SizeRead == ASSUME TransportInv, ReadInv, ReadSize PROVE ReadInv'
<1> DEFINE T == message.tokens
           P == message.payload
           next == consumed + Token.n + 2
           data == Bytes(T, consumed + 1, Token.n)
           rest == Chunks(T)[Len(T) - next]
<1>1. /\ at = "size" /\ consumed' = consumed + 1 /\ consumed + 1 <= Len(T)
      /\ Token = T[consumed + 1] /\ Token.n \in Nat
      /\ UNCHANGED <<message, delivered, closed, body>>
  <2>1. ReadLine("size") /\ "size" \in Lines
    BY DEF ReadSize, Lines
  <2>. QED BY <2>1, LineSent
<1>2. /\ T \in Tokens /\ Len(T) \in Nat /\ consumed \in Nat /\ body \in Seq(Nat) /\ Len(body) \in Nat
      /\ Allowance \in Nat /\ None \notin Seq(Nat)
  BY Standing
<1>3. P = Join(body, Chunks(T)[Len(T) - consumed])
  BY <1>1 DEF ReadInv, Rest
<1>4. /\ Token.kind # "size" => Chunks(T)[Len(T) - consumed] = None
      /\ Token.kind = "size" /\ Token.n = 0 =>
           Chunks(T)[Len(T) - consumed]
             = IF consumed + 2 <= Len(T) /\ T[consumed + 2].kind = "crlf" THEN <<>> ELSE None
      /\ Token.kind = "size" /\ Token.n # 0 =>
           Chunks(T)[Len(T) - consumed]
             = IF next <= Len(T) /\ T[next].kind = "crlf" THEN Join(data, rest) ELSE None
  BY <1>1, <1>2, BehindToken
<1>5. ASSUME next <= Len(T)
      PROVE  data \in Seq(Nat) /\ Len(data) = Token.n /\ rest \in Seq(Nat) \cup {None}
  <2>1. consumed + 1 \in Nat /\ (consumed + 1) + Token.n <= Len(T) /\ next \in 0 .. Len(T)
    BY <1>1, <1>2, <1>5
  <2>2. data \in Seq(Nat) /\ Len(data) = Token.n
    BY <1>1, <1>2, <2>1, BytesType
  <2>3. rest \in Seq(Nat) \cup {None}
    BY <1>2, <2>1, ChunksType
  <2>. QED BY <2>2, <2>3
<1> HIDE DEF data, rest
<1>6. CASE Token.kind = "size" /\ Token.n = 0 /\ Goto("trailer")
  <2>1. body \o <<>> = body
    BY <1>2, ConcatEmptySeq
  <2>2. <<>> # None
    <3>1. <<>> \in Seq(Nat)
      OBVIOUS
    <3>. QED BY <1>2, <3>1
  <2>3. P = IF consumed + 2 <= Len(T) /\ T[consumed + 2].kind = "crlf" THEN body ELSE None
    BY <1>3, <1>4, <1>6, <2>1, <2>2 DEF Join
  <2>4. consumed' + 1 = consumed + 2
    BY <1>1, <1>2
  <2>5. at' = "trailer" /\ message'.payload = IF EmptyLine(consumed + 1)' THEN body' ELSE None
    BY <1>1, <1>6, <2>3, <2>4 DEF Goto, EmptyLine
  <2>6. result' = None /\ at' \notin Unanswered /\ at' # "done" /\ WholeOrNothing' /\ RefusedForCause'
    BY <1>1, <1>6, <2>5, GoesOn DEF Goto, Reading, Lines
  <2>. QED BY <2>5, <2>6 DEF ReadInv, EmptyLine
<1>7. CASE Token.kind = "size" /\ Token.n # 0
  <2>1. P = IF next <= Len(T) /\ T[next].kind = "crlf" THEN Join(body \o data, rest) ELSE None
    <3>1. P = IF next <= Len(T) /\ T[next].kind = "crlf" THEN Join(body, Join(data, rest)) ELSE None
      BY <1>3, <1>4, <1>7 DEF Join
    <3>2. next <= Len(T) => Join(body, Join(data, rest)) = Join(body \o data, rest)
      BY <1>2, <1>5, JoinTwice
    <3>. QED BY <3>1, <3>2
  <2>2. CASE Token.n > Allowance - Len(body) /\ Return("Bytes")
    <3>1. ASSUME P # None PROVE Len(P) > Allowance
      <4>1. next <= Len(T) /\ P = Join(body \o data, rest) /\ rest # None
        BY <2>1, <3>1 DEF Join
      <4>2. data \in Seq(Nat) /\ Len(data) = Token.n /\ rest \in Seq(Nat)
        BY <1>5, <4>1
      <4>3. body \o data \in Seq(Nat) /\ Len(body \o data) = Len(body) + Token.n
        BY <1>2, <4>2, Concatenated
      <4>4. P = (body \o data) \o rest
        BY <4>1 DEF Join
      <4>5. Len(P) = Len(body \o data) + Len(rest) /\ Len(rest) \in Nat
        BY <4>2, <4>3, <4>4, Concatenated
      <4>. QED BY <1>1, <1>2, <2>2, <4>3, <4>5
    <3>2. at' = "done" /\ result' = "Bytes" /\ WholeOrNothing' /\ RefusedForCause'
      BY <1>1, <2>2, <3>1 DEF Return, WholeOrNothing, RefusedForCause
    <3>. QED BY <3>2, Answered
  <2>3. CASE Token.n \in 1 .. Allowance - Len(body) /\ Goto("chunk") /\ need' = Token.n
    <3>1. consumed' + need' + 1 = next
      <4>1. consumed' + need' + 1 = (consumed + 1) + Token.n + 1
        BY Zenon, <1>1, <2>3
      <4>2. \A c \in Nat : \A n \in Nat : (c + 1) + n + 1 = c + n + 2
        OBVIOUS
      <4>. QED BY Zenon, <1>1, <1>2, <4>1, <4>2
    <3>2. at' = "chunk"
            /\ message'.payload = IF EmptyLine(consumed + need + 1)'
                                  THEN Join(body' \o Bytes(message'.tokens, consumed', need'),
                                            Rest(consumed + need + 1)') ELSE None
      BY <1>1, <2>1, <2>3, <3>1 DEF Goto, EmptyLine, Rest, data, rest
    <3>3. result' = None /\ at' \notin Unanswered /\ at' # "done" /\ WholeOrNothing' /\ RefusedForCause'
      BY <1>1, <2>3, <3>2, GoesOn DEF Goto, Reading, Lines
    <3>. QED BY <3>2, <3>3 DEF ReadInv, EmptyLine, Rest, Coming
  <2>. QED BY <1>7, <2>2, <2>3 DEF ReadSize
<1>8. CASE Token.kind # "size" /\ Return("Protocol")
  <2>1. P = None
    BY <1>3, <1>4, <1>8 DEF Join
  <2>2. at' = "done" /\ result' = "Protocol" /\ WholeOrNothing' /\ RefusedForCause'
    BY <1>1, <1>8, <2>1 DEF Return, WholeOrNothing, RefusedForCause
  <2>. QED BY <2>2, Answered
<1>9. Token.n > Allowance - Len(body) => Token.n # 0
  <2>1. Len(body) <= Allowance
    BY DEF TransportInv, NeedFits, BodyBounded
  <2>. QED BY <1>1, <1>2, <2>1
<1>10. Token.n \in 1 .. Allowance - Len(body) => Token.n # 0
  OBVIOUS
<1>. QED BY Zenon, <1>6, <1>7, <1>8, <1>9, <1>10 DEF ReadSize

\* Part of a sized body or of a chunk comes in.
LEMMA DataRead == ASSUME TransportInv, ReadInv, ReadData PROVE ReadInv'
<1> DEFINE T == message.tokens
           P == message.payload
<1>0. PICK n \in 1 .. need : n <= Available /\ body' = body \o Bytes(T, consumed, n)
                             /\ consumed' = consumed + n /\ need' = need - n
  BY DEF ReadData
<1> DEFINE m == need - n
<1>1. body' = body \o Bytes(T, consumed, n) /\ consumed' = consumed + n /\ need' = m
  BY <1>0
<1>2. UNCHANGED <<message, delivered, closed>> /\ at \in {"sized", "chunk"}
  BY DEF ReadData, daemon
<1>3. /\ T \in Tokens /\ Len(T) \in Nat /\ consumed \in Nat /\ need \in Nat /\ body \in Seq(Nat)
      /\ consumed + n <= Len(T) /\ n \in Nat /\ m \in Nat /\ n + m = need
      /\ (consumed + n) + m = consumed + need /\ None \notin Seq(Nat)
  <2>1. /\ T \in Tokens /\ Len(T) \in Nat /\ consumed \in Nat /\ need \in Nat /\ body \in Seq(Nat)
        /\ delivered \in Nat /\ delivered <= Len(T) /\ None \notin Seq(Nat)
    BY Standing
  <2>2. n \in Nat /\ n <= need /\ n <= delivered - consumed
    BY <1>0, <2>1 DEF Available
  <2>3. m \in Nat /\ n + m = need /\ (consumed + n) + m = consumed + need
    BY <2>1, <2>2
  <2>4. consumed + n <= Len(T)
    BY <2>1, <2>2
  <2>. QED BY <2>1, <2>2, <2>3, <2>4
<1> HIDE DEF m
<1>p. consumed' + need' = consumed + need
  BY Zenon, <1>1, <1>3
<1>4. ASSUME consumed + need <= Len(T)
      PROVE  body' \o Bytes(T, consumed', need') = body \o Bytes(T, consumed, need)
  <2>1. consumed + n + m <= Len(T)
    BY <1>3, <1>4
  <2>2. (body \o Bytes(T, consumed, n)) \o Bytes(T, consumed + n, m) = body \o Bytes(T, consumed, n + m)
    <3>1. T \in Tokens /\ consumed \in Nat /\ n \in Nat /\ m \in Nat /\ body \in Seq(Nat)
      BY <1>3
    <3> HIDE DEF T
    <3>. QED BY <2>1, <3>1, BytesSplit
  <2>. QED BY Zenon, <1>1, <1>3, <2>2
<1>5. CASE at = "sized"
  <2>1. P = IF consumed + need <= Len(T) THEN body \o Bytes(T, consumed, need) ELSE None
    BY <1>5 DEF ReadInv, Coming
  <2>2. CASE need' > 0
    <3>1. at' = "sized" /\ result' = result /\ need' # 0
      BY <1>3, <1>5, <2>2 DEF ReadData
    <3>2. message'.payload = IF consumed' + need' <= Len(message'.tokens)
                             THEN body' \o Bytes(message'.tokens, consumed', need') ELSE None
      BY Zenon, <1>2, <1>p, <1>4, <2>1
    <3>3. result' = None /\ at' \notin Unanswered /\ at' # "done" /\ WholeOrNothing' /\ RefusedForCause'
      BY <1>5, <3>1, GoesOn DEF Reading, Lines
    <3>. QED BY <3>1, <3>2, <3>3 DEF ReadInv, Coming
  <2>3. CASE ~(need' > 0)
    <3>1. n = need /\ at' = "done" /\ result' = "Ok"
      <4>1. m = 0
        BY <1>1, <1>3, <2>3
      <4>. QED BY <1>3, <1>5, <2>3, <4>1 DEF ReadData, Return
    <3>2. P = body'
      <4>1. consumed + need <= Len(T) /\ body' = body \o Bytes(T, consumed, need)
        BY <1>1, <1>3, <3>1
      <4>. QED BY <2>1, <4>1
    <3>3. body' \in Seq(Nat) /\ Len(body') <= Allowance
      <4>1. Bytes(T, consumed, n) \in Seq(Nat) /\ Len(Bytes(T, consumed, n)) = n
        BY <1>3, BytesType
      <4>2. body' \in Seq(Nat) /\ Len(body') = Len(body) + n
        BY <1>1, <1>3, <4>1, Concatenated
      <4>3. Len(body) + need <= Allowance
        BY <1>5 DEF TransportInv, NeedFits
      <4>. QED BY <3>1, <4>2, <4>3
    <3>4. WholeOrNothing' /\ RefusedForCause'
      BY <1>2, <1>3, <3>1, <3>2, <3>3 DEF WholeOrNothing, RefusedForCause
    <3>. QED BY <3>1, <3>4, Answered
  <2>. QED BY <2>2, <2>3
<1>6. CASE at = "chunk"
  <2>1. P = IF EmptyLine(consumed + need + 1)
            THEN Join(body \o Bytes(T, consumed, need), Rest(consumed + need + 1)) ELSE None
    BY <1>6 DEF ReadInv, Coming
  <2>2. consumed' + need' + 1 = consumed + need + 1
    BY Zenon, <1>p
  <2>3. EmptyLine(consumed + need + 1) => consumed + need <= Len(T)
    BY <1>3 DEF EmptyLine
  <2>4. message'.payload = IF EmptyLine(consumed + need + 1)'
                           THEN Join(body' \o Bytes(message'.tokens, consumed', need'),
                                     Rest(consumed + need + 1)') ELSE None
    <3>1. EmptyLine(consumed + need + 1)' <=> EmptyLine(consumed + need + 1)
      BY Zenon, <1>2, <2>2 DEF EmptyLine
    <3>2. Rest(consumed + need + 1)' = Rest(consumed + need + 1)
      BY Zenon, <1>2, <2>2 DEF Rest
    <3>. QED BY Zenon, <1>2, <1>4, <2>1, <2>3, <3>1, <3>2
  <2>5. result' = result /\ (at' = "chunk" \/ (at' = "crlf" /\ need' = 0))
    <3>1. CASE need' > 0
      <4>1. at' = at /\ result' = result
        BY Zenon, <3>1 DEF ReadData
      <4>. QED BY <1>6, <4>1
    <3>2. CASE ~(need' > 0)
      <4>1. need' = 0
        BY <1>1, <1>3, <3>2
      <4>2. at' = "crlf" /\ result' = result
        BY <1>6, <3>2 DEF ReadData, Goto
      <4>. QED BY <4>1, <4>2
    <3>. QED BY <3>1, <3>2
  <2>6. result' = None /\ at' \notin Unanswered /\ at' # "done" /\ WholeOrNothing' /\ RefusedForCause'
    BY <1>6, <2>5, GoesOn DEF Reading, Lines
  <2>. QED BY <2>4, <2>5, <2>6 DEF ReadInv, Coming, Rest, EmptyLine
<1>. QED BY <1>2, <1>5, <1>6

\* The empty line behind a chunk.
LEMMA CrlfRead == ASSUME TransportInv, ReadInv, ReadCrlf PROVE ReadInv'
<1> DEFINE T == message.tokens
           P == message.payload
<1>1. /\ at = "crlf" /\ consumed' = consumed + 1 /\ consumed + 1 <= Len(T)
      /\ Token = T[consumed + 1] /\ UNCHANGED <<message, delivered, closed, body>>
  <2>1. ReadLine("crlf") /\ "crlf" \in Lines
    BY DEF ReadCrlf, Lines
  <2>. QED BY <2>1, LineSent
<1>2. T \in Tokens /\ Len(T) \in Nat /\ consumed \in Nat /\ body \in Seq(Nat)
  BY Standing
<1>3. body \o Bytes(T, consumed, 0) = body
  <2>1. Bytes(T, consumed, 0) \in Seq(Nat) /\ Len(Bytes(T, consumed, 0)) = 0
    <3>1. 0 \in Nat /\ consumed + 0 <= Len(T)
      BY <1>1, <1>2
    <3>. QED BY <1>2, <3>1, BytesType
  <2>2. Bytes(T, consumed, 0) = <<>>
    BY <2>1
  <2>. QED BY <1>2, <2>2, ConcatEmptySeq
<1>4. P = IF EmptyLine(consumed + 1) THEN Join(body, Rest(consumed + 1)) ELSE None
  <2>1. need = 0 /\ consumed + need + 1 = consumed + 1
    BY <1>1, <1>2 DEF ReadInv
  <2>. QED BY <1>1, <1>3, <2>1 DEF ReadInv, Coming
<1>5. EmptyLine(consumed + 1) <=> Token.kind = "crlf"
  BY <1>1 DEF EmptyLine
<1>6. CASE Token.kind = "crlf" /\ Goto("size")
  <2>1. at' = "size" /\ message'.payload = Join(body', Rest(consumed)')
    BY <1>1, <1>4, <1>5, <1>6 DEF Goto, Rest
  <2>2. result' = None /\ at' \notin Unanswered /\ at' # "done" /\ WholeOrNothing' /\ RefusedForCause'
    BY <1>1, <1>6, <2>1, GoesOn DEF Goto, Reading, Lines
  <2>. QED BY <2>1, <2>2 DEF ReadInv, Rest
<1>7. CASE Token.kind # "crlf" /\ Return("Protocol")
  <2>1. at' = "done" /\ result' = "Protocol" /\ WholeOrNothing' /\ RefusedForCause'
    BY <1>1, <1>4, <1>5, <1>7 DEF Return, WholeOrNothing, RefusedForCause
  <2>. QED BY <2>1, Answered
<1>. QED BY <1>6, <1>7 DEF ReadCrlf

\* The empty line behind the last chunk.
LEMMA TrailerRead == ASSUME TransportInv, ReadInv, ReadTrailer PROVE ReadInv'
<1>1. /\ at = "trailer" /\ consumed + 1 <= Len(message.tokens)
      /\ Token = message.tokens[consumed + 1] /\ UNCHANGED <<message, delivered, closed, body>>
  <2>1. ReadLine("trailer") /\ "trailer" \in Lines
    BY DEF ReadTrailer, Lines
  <2>. QED BY <2>1, LineSent
<1>2. message.payload = IF Token.kind = "crlf" THEN body ELSE None
  BY <1>1 DEF ReadInv, EmptyLine
<1>3. body \in Seq(Nat) /\ None \notin Seq(Nat) /\ Len(body) <= Allowance
  BY Standing DEF TransportInv, NeedFits, BodyBounded
<1>4. at' = "done" /\ result' \in {"Ok", "Protocol", "Bytes"} /\ WholeOrNothing' /\ RefusedForCause'
  BY <1>1, <1>2, <1>3 DEF ReadTrailer, Return, WholeOrNothing, RefusedForCause
<1>. QED BY <1>4, Answered

\* Every step keeps what is held and what is to come together the sender's body.
LEMMA ReadStep == TransportInv /\ ReadInv /\ [Next]_vars => ReadInv'
<1>. SUFFICES ASSUME TransportInv, ReadInv, [Next]_vars PROVE ReadInv' OBVIOUS
<1>0. RemainingError \in {"Cancelled", "Deadline", None}
  BY DEF RemainingError
<1>r. at # "done" => result = None
  BY DEF ReadInv
<1>1. CASE Connect \/ Recheck("connected", "write") \/ Recheck("slept", "connect") \/ Begin
  <2>1. UNCHANGED <<message, delivered, closed, consumed, need, body>>
    BY <1>1 DEF Connect, Recheck, Begin, daemon, wire
  <2>2. \/ at' = at /\ result' = result
        \/ at' \in Unanswered /\ at \in Unanswered /\ result' = result /\ result = None
        \/ at' = "done" /\ result' \in {"Io", "Cancelled", "Deadline"}
    BY <1>0, <1>1, <1>r DEF Connect, Recheck, Begin, Return, Goto, Unanswered
  <2>. QED BY <2>1, <2>2, NothingRead
<1>2. CASE Slept \/ Again \/ Fails \/ Write \/ Cancel \/ Tick \/ UNCHANGED vars
  <2>1. UNCHANGED <<message, delivered, closed, consumed, need, body>>
    BY <1>2 DEF Slept, Again, Fails, Write, Cancel, Tick, vars, daemon, wire
  <2>2. \/ at' = at /\ result' = result
        \/ at' \in Unanswered /\ at \in Unanswered /\ result' = result /\ result = None
        \/ at' = "done" /\ result' \in {"Io", "Cancelled", "Deadline"}
    BY <1>2, <1>r DEF Slept, Again, Fails, Write, Cancel, Tick, vars, wire, Return, Goto, Unanswered
  <2>. QED BY <2>1, <2>2, NothingRead
<1>3. CASE Deliver \/ Close
  BY <1>3, DaemonRead DEF Deliver, Close, wire
<1>. QED
  BY <1>1, <1>2, <1>3, EndRead, HeadRead, SizeRead, DataRead, CrlfRead, TrailerRead
     DEF Next, Client, Progress

\* In every reachable state of the transport the types hold, what is still to
\* be read fits, and the wait in progress ends in time.
THEOREM TransportInvariant == Spec => []TransportInv
BY InitInv, StepInv, PTL DEF Spec

\* http_get never holds more than its allowance, for any sizes a daemon declares.
THEOREM BodyIsBounded == Spec => []BodyBounded
<1>1. TransportInv => BodyBounded
  BY DEF TransportInv, NeedFits
<1>. QED BY <1>1, TransportInvariant, PTL

\* http_get ends by its deadline and within a poll interval of a cancellation.
THEOREM TransportIsOnTime == Spec => []OnTime
<1>1. TransportInv => OnTime
  BY DEF TransportInv, WaitsEndInTime
<1>. QED BY <1>1, TransportInvariant, PTL

\* Held and to come are the sender's body throughout.
LEMMA ReadInvariant == Spec => []ReadInv
BY TransportInvariant, ReadInit, ReadStep, PTL DEF Spec

\* A body http_get accepts is the one the daemon framed, whole and in order,
\* for any message and however it was cut into chunks, reads and waits.
THEOREM BodiesAreWhole == Spec => []WholeOrNothing
<1>1. ReadInv => WholeOrNothing
  BY DEF ReadInv
<1>. QED BY <1>1, ReadInvariant, PTL

\* A response sent whole, framed as it should be and within the allowance is
\* never refused as malformed or too long.
THEOREM RefusalsHaveCause == Spec => []RefusedForCause
<1>1. ReadInv => RefusedForCause
  BY DEF ReadInv
<1>. QED BY <1>1, ReadInvariant, PTL
=============================================================================
