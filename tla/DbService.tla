----------------------------- MODULE DbService -----------------------------
(***************************************************************************)
(* What CDbConnectionPool promises the main thread: queries are answered   *)
(* one at a time in the order they were submitted, and OnShutdown returns  *)
(* only when each of them was answered.                                    *)
(***************************************************************************)
EXTENDS Naturals, Sequences

CONSTANT Queries

VARIABLES
  submitted,  \* the queries, in the order of the calls
  answered,   \* how many of them are answered
  closed      \* OnShutdown has returned

Init == submitted = <<>> /\ answered = 0 /\ closed = FALSE

Submit(q) ==
  /\ ~closed
  /\ submitted' = Append(submitted, q)
  /\ UNCHANGED <<answered, closed>>

Answer ==
  /\ ~closed
  /\ answered < Len(submitted)
  /\ answered' = answered + 1
  /\ UNCHANGED <<submitted, closed>>

Close ==
  /\ answered = Len(submitted)
  /\ closed' = TRUE
  /\ UNCHANGED <<submitted, answered>>

Next == Answer \/ Close \/ \E q \in Queries : Submit(q)

Spec == Init /\ [][Next]_<<submitted, answered, closed>>
=============================================================================
