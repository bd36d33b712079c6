----------------------------- MODULE Transport ------------------------------
(***************************************************************************)
(* http_get of src/acquisition.rs with connect and Wire: one GET over a    *)
(* fresh Unix socket, every wait cut into slices of the poll interval so   *)
(* that the caller's cancellation and the deadline are seen, and a body    *)
(* framed by Content-Length or in chunks, held to an allowance.            *)
(*                                                                         *)
(* The Linux build is modelled: connect does not block, and a full listener*)
(* queue is retried with a new socket after a sleep.  A line (the head, a  *)
(* chunk's size, an empty line) is one token: the code reads it byte by    *)
(* byte, and the end of the stream inside it is the end before it.         *)
(* Instructions take no time, and a wait ends when its time is up.         *)
(***************************************************************************)
EXTENDS Integers, Sequences

CONSTANTS
  Messages,    \* [tokens, payload]: what the daemon may set out to answer, and
               \* the body that stands for, None if it is not a response
  RequestLen,  \* the length of the request
  Allowance,   \* the bytes the budget leaves this response
  Limit,       \* max_elapsed
  IO_POLL_INTERVAL,
  None

(***************************************************************************)
(* A token is [kind, n]: a head of `kind` "sized" and length n, "chunked",  *)
(* or "unframed" when it has both framings, neither, or does not parse; a  *)
(* chunk's "size" n; a byte of "data", n; an empty line, "crlf"; any other *)
(* line, "junk".                                                           *)
(***************************************************************************)

\* `exact` takes what is there as bytes, whatever it was meant to be.
Byte(t) == IF t.kind = "data" THEN t.n ELSE 0
Bytes(tokens, i, n) == [j \in 1 .. n |-> Byte(tokens[i + j])]

\* The sender's side.  What the chunks behind the first i tokens stand for, None
\* unless they end as chunks should; f has the same for fewer tokens left.
Join(bytes, rest) == IF rest = None THEN None ELSE bytes \o rest
ChunksBehind(tokens, i, f) ==
  LET n == tokens[i + 1].n
      next == i + n + 2
  IN IF i + 2 > Len(tokens) \/ tokens[i + 1].kind # "size" THEN None
     ELSE IF n = 0 THEN IF tokens[i + 2].kind = "crlf" THEN <<>> ELSE None
     ELSE IF next > Len(tokens) \/ tokens[next].kind # "crlf" THEN None
     ELSE Join(Bytes(tokens, i + 1, n), f[Len(tokens) - next])
Chunks(tokens) ==
  LET f[left \in 0 .. Len(tokens)] == ChunksBehind(tokens, Len(tokens) - left, f) IN f

\* The body a message stands for.
Payload(tokens) ==
  IF tokens = <<>> THEN None
  ELSE IF tokens[1].kind = "sized"
  THEN IF tokens[1].n < Len(tokens) THEN Bytes(tokens, 1, tokens[1].n) ELSE None
  ELSE IF tokens[1].kind = "chunked" THEN Chunks(tokens)[Len(tokens) - 1]
  ELSE None

Outcomes == {"Ok", "Cancelled", "Deadline", "Io", "Protocol", "Bytes"}

ASSUME TransportAssumption ==
  /\ RequestLen \in Nat \ {0} /\ Allowance \in Nat
  /\ Limit \in Nat \ {0} /\ IO_POLL_INTERVAL \in Nat \ {0}
  /\ None \notin Nat \cup Outcomes /\ None \notin Seq(Nat)
  /\ \A m \in Messages :
       m.tokens \in Seq([kind : STRING, n : Nat]) /\ m.payload = Payload(m.tokens)

VARIABLES
  message, delivered, closed,   \* the daemon: how much it has sent, whether it closed
  cancelled_at,                 \* when the caller cancelled, or None
  clock,                        \* the time since the acquisition started
  until,                        \* when the wait in progress ends, or None
  at,                           \* where http_get is
  unsent,                       \* what is left of the request
  consumed,                     \* the tokens read
  need,                         \* what is left of the sized body or the chunk
  body,
  result                        \* "Ok" or the error, None while http_get runs

daemon == <<message, delivered, closed>>
wire == <<unsent, consumed, need, body>>
vars == <<daemon, cancelled_at, clock, until, at, wire, result>>

Lines == {"head", "size", "crlf", "trailer"}
Reading == Lines \cup {"sized", "chunk"}

Unanswered == {"connect", "connected", "sleep", "slept", "write", "head"}
Places == {"connect", "connected", "sleep", "slept", "write", "done"} \cup Reading

\* `remaining`: cancellation first, then the deadline.
RemainingError_NoDeadline == IF cancelled_at # None THEN "Cancelled" ELSE None     \* mutant
RemainingError ==
  IF cancelled_at # None THEN "Cancelled"
  ELSE IF clock >= Limit THEN "Deadline"
  ELSE None

Slice_Unpolled == Limit - clock     \* mutant: only the deadline cuts a wait
Slice == IF Limit - clock < IO_POLL_INTERVAL THEN Limit - clock ELSE IO_POLL_INTERVAL

Return(r) == result' = r /\ at' = "done"
Goto(place) == at' = place /\ UNCHANGED result
-----------------------------------------------------------------------------
Init ==
  /\ message \in Messages /\ delivered = 0 /\ closed = FALSE
  /\ cancelled_at = None /\ clock = 0 /\ until = None
  /\ at = "connect" /\ result = None
  /\ unsent = RequestLen /\ consumed = 0 /\ need = 0 /\ body = <<>>

\* One attempt to connect: established, the queue is full, or refused.
Connect ==
  /\ at = "connect"
  /\ IF RemainingError # None THEN Return(RemainingError)
     ELSE Goto("connected") \/ Goto("sleep") \/ Return("Io")
  /\ UNCHANGED <<daemon, cancelled_at, clock, until, wire>>

\* What looks at `remaining` once more before it goes on.
Recheck(from, to) ==
  /\ at = from
  /\ IF RemainingError # None THEN Return(RemainingError) ELSE Goto(to)
  /\ UNCHANGED <<daemon, cancelled_at, clock, until, wire>>

\* Start a sleep, a read or a write, no longer than a slice.
Begin ==
  /\ at \in {"sleep", "write"} \cup Reading /\ until = None
  /\ IF RemainingError # None THEN Return(RemainingError) /\ UNCHANGED until
     ELSE until' = clock + Slice /\ UNCHANGED <<at, result>>
  /\ UNCHANGED <<daemon, cancelled_at, clock, wire>>

Slept ==
  /\ at = "sleep" /\ until = clock
  /\ until' = None /\ Goto("slept")
  /\ UNCHANGED <<daemon, cancelled_at, clock, wire>>

\* The wait timed out, or a signal interrupted it: the loop starts it anew.
Again ==
  /\ at \in {"write"} \cup Reading /\ until # None
  /\ until' = None
  /\ UNCHANGED <<daemon, cancelled_at, clock, at, wire, result>>

\* The socket fails, or takes nothing.
Fails ==
  /\ at \in {"write"} \cup Reading /\ until # None
  /\ until' = None /\ Return("Io")
  /\ UNCHANGED <<daemon, cancelled_at, clock, wire>>

Write ==
  /\ at = "write" /\ until # None
  /\ unsent' \in 0 .. unsent - 1
  /\ IF unsent' = 0 THEN Goto("head") ELSE UNCHANGED <<at, result>>
  /\ until' = None
  /\ UNCHANGED <<daemon, cancelled_at, clock, consumed, need, body>>
-----------------------------------------------------------------------------
Available == delivered - consumed

\* The stream ends inside a response.
End_Accepted ==     \* mutant: it ends the body
  /\ at \in Reading /\ until # None /\ Available = 0 /\ closed
  /\ until' = None /\ Return(IF at = "sized" THEN "Ok" ELSE "Protocol")
  /\ UNCHANGED <<daemon, cancelled_at, clock, wire>>
End ==
  /\ at \in Reading /\ until # None /\ Available = 0 /\ closed
  /\ until' = None /\ Return("Protocol")
  /\ UNCHANGED <<daemon, cancelled_at, clock, wire>>

Token == message.tokens[consumed + 1]

ReadLine(place) ==
  /\ at = place /\ until # None /\ Available > 0
  /\ consumed' = consumed + 1 /\ until' = None
  /\ UNCHANGED <<daemon, cancelled_at, clock, unsent, body>>

ReadHead ==
  /\ ReadLine("head")
  /\ \/ Token.kind = "chunked" /\ Goto("size") /\ UNCHANGED need
     \/ Token.kind = "sized" /\ Token.n > Allowance /\ Return("Bytes") /\ UNCHANGED need
     \/ Token.kind = "sized" /\ Token.n = 0 /\ Return("Ok") /\ UNCHANGED need
     \/ Token.kind = "sized" /\ Token.n \in 1 .. Allowance /\ Goto("sized") /\ need' = Token.n
     \/ Token.kind \notin {"chunked", "sized"} /\ Return("Protocol") /\ UNCHANGED need

ReadSize_PerChunk ==     \* mutant: each chunk is held to the allowance alone
  /\ ReadLine("size")
  /\ \/ Token.kind = "size" /\ Token.n = 0 /\ Goto("trailer") /\ UNCHANGED need
     \/ Token.kind = "size" /\ Token.n > Allowance /\ Return("Bytes") /\ UNCHANGED need
     \/ Token.kind = "size" /\ Token.n \in 1 .. Allowance /\ Goto("chunk") /\ need' = Token.n
     \/ Token.kind # "size" /\ Return("Protocol") /\ UNCHANGED need
ReadSize_Full ==     \* mutant: a chunk that fills the allowance is one too many
  /\ ReadLine("size")
  /\ \/ Token.kind = "size" /\ Token.n = 0 /\ Goto("trailer") /\ UNCHANGED need
     \/ Token.kind = "size" /\ Token.n >= Allowance - Len(body) /\ Return("Bytes") /\ UNCHANGED need
     \/ Token.kind = "size" /\ Token.n \in 1 .. Allowance - Len(body) - 1 /\ Goto("chunk") /\ need' = Token.n
     \/ Token.kind # "size" /\ Return("Protocol") /\ UNCHANGED need
ReadSize ==
  /\ ReadLine("size")
  /\ \/ Token.kind = "size" /\ Token.n = 0 /\ Goto("trailer") /\ UNCHANGED need
     \/ Token.kind = "size" /\ Token.n > Allowance - Len(body) /\ Return("Bytes") /\ UNCHANGED need
     \/ Token.kind = "size" /\ Token.n \in 1 .. Allowance - Len(body) /\ Goto("chunk") /\ need' = Token.n
     \/ Token.kind # "size" /\ Return("Protocol") /\ UNCHANGED need

\* `exact`: some of what is there.
ReadData ==
  /\ at \in {"sized", "chunk"} /\ until # None
  /\ \E n \in 1 .. need :
       /\ n <= Available
       /\ body' = body \o Bytes(message.tokens, consumed, n)
       /\ consumed' = consumed + n /\ need' = need - n
  /\ IF need' > 0 THEN UNCHANGED <<at, result>>
     ELSE IF at = "chunk" THEN Goto("crlf")
     ELSE Return("Ok")
  /\ until' = None
  /\ UNCHANGED <<daemon, cancelled_at, clock, unsent>>

ReadCrlf ==
  /\ ReadLine("crlf") /\ UNCHANGED need
  /\ IF Token.kind = "crlf" THEN Goto("size") ELSE Return("Protocol")

ReadTrailer ==
  /\ ReadLine("trailer") /\ UNCHANGED need
  /\ IF Token.kind = "crlf" THEN Return("Ok") ELSE Return("Protocol")
-----------------------------------------------------------------------------
\* The daemon sends the next token, or closes, early or not.
Deliver ==
  /\ at \in Reading /\ ~closed /\ delivered < Len(message.tokens)
  /\ delivered' = delivered + 1
  /\ UNCHANGED <<message, closed, cancelled_at, clock, until, at, wire, result>>

Close ==
  /\ at \in Reading /\ ~closed
  /\ closed' = TRUE
  /\ UNCHANGED <<message, delivered, cancelled_at, clock, until, at, wire, result>>

Cancel ==
  /\ result = None /\ cancelled_at = None
  /\ cancelled_at' = clock
  /\ UNCHANGED <<daemon, clock, until, at, wire, result>>

\* Time passes inside a wait.
Tick ==
  /\ until # None /\ clock < until
  /\ clock' = clock + 1
  /\ UNCHANGED <<daemon, cancelled_at, until, at, wire, result>>

Client ==
  \/ Connect \/ Recheck("connected", "write") \/ Recheck("slept", "connect")
  \/ Begin \/ Slept
Progress ==
  Write \/ End \/ ReadHead \/ ReadSize \/ ReadData \/ ReadCrlf \/ ReadTrailer
Next == Client \/ Progress \/ Again \/ Fails \/ Deliver \/ Close \/ Cancel \/ Tick

Spec == Init /\ [][Next]_vars

\* The thread runs, a wait that is over ends, and time passes however often
\* waits are interrupted; nothing is assumed of the daemon.
FairSpec ==
  Spec /\ WF_vars(Client) /\ WF_vars(Again /\ until = clock) /\ SF_vars(Tick)
-----------------------------------------------------------------------------
(***************************************************************************)
(* Properties.                                                             *)
(***************************************************************************)
TypeOK ==
  /\ message \in Messages
  /\ delivered \in 0 .. Len(message.tokens) /\ closed \in BOOLEAN
  /\ cancelled_at \in Nat \cup {None} /\ clock \in Nat /\ until \in Nat \cup {None}
  /\ at \in Places
  /\ unsent \in Nat /\ consumed \in 0 .. delivered /\ need \in Nat /\ body \in Seq(Nat)
  /\ result \in Outcomes \cup {None}

\* An accepted body is the one the daemon framed, whole, in order and within
\* the allowance, however it was cut into chunks, reads and waits.
WholeOrNothing ==
  result = "Ok" => message.payload # None /\ body = message.payload /\ Len(body) <= Allowance

\* A response is refused for a cause: one that was sent whole, is framed as it
\* should be and fits the allowance to the last byte is not refused.
RefusedForCause ==
  /\ result = "Protocol" => message.payload = None \/ (closed /\ delivered < Len(message.tokens))
  /\ result = "Bytes" => message.payload = None \/ Len(message.payload) > Allowance

\* No more than the allowance is ever held, whatever sizes the daemon declares
\* and whether or not the body is accepted in the end.
BodyBounded == Len(body) <= Allowance

\* http_get outlives neither its deadline nor, by more than one poll interval,
\* its cancellation, whatever it waits for and however the daemon drips.
OnTime ==
  /\ clock <= Limit
  /\ cancelled_at # None => clock <= cancelled_at + IO_POLL_INTERVAL

\* The inductive invariant behind the last two: what is still to be read fits,
\* and a wait in progress ends in time.
NeedFits ==
  /\ at \in Unanswered => body = <<>>
  /\ at \in {"sized", "chunk"} => Len(body) + need <= Allowance
  /\ BodyBounded
WaitsEndInTime ==
  /\ OnTime
  /\ cancelled_at # None => cancelled_at <= clock
  /\ until # None =>
       /\ at \in {"sleep", "write"} \cup Reading
       /\ clock <= until /\ until <= Limit /\ until <= clock + IO_POLL_INTERVAL
       /\ cancelled_at # None => until <= cancelled_at + IO_POLL_INTERVAL

\* However silent the daemon, http_get returns.
Ends == <>(result # None)
=============================================================================
