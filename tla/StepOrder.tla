----------------------------- MODULE StepOrder ------------------------------
(***************************************************************************)
(* What an operation graph promises whoever replays its artifact: every    *)
(* step once, and none before the steps it depends on (OperationStep's     *)
(* depends_on).  Which of the ready steps comes next is nobody's promise.  *)
(***************************************************************************)
VARIABLES
  plan,      \* step -> the steps it depends on
  done       \* the steps taken

Init == done = {}

Take(s) ==
  /\ s \in DOMAIN plan \ done
  /\ plan[s] \subseteq done
  /\ done' = done \cup {s}
  /\ UNCHANGED plan

Next == \E s \in DOMAIN plan : Take(s)

Spec == Init /\ [][Next]_<<plan, done>>
=============================================================================
