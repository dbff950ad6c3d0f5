------------------------------ MODULE ExactlyOnce ------------------------------
(***************************************************************************)
(* What an operation identifier promises to whoever repeats a request: the *)
(* operation is executed at most once, by one user, and every answer that  *)
(* reports its success goes to that user and carries the result of that    *)
(* one execution, however late it is given.                                *)
(***************************************************************************)
CONSTANTS
  Op, User, Result,
  None  \* no user

VARIABLES
  done,    \* who executed each operation, and with what result
  answers  \* successes on their way to a user

Nothing == [user |-> None, result |-> None]
Success(o, d) == [op |-> o, user |-> d.user, result |-> d.result]

Init == done = [o \in Op |-> Nothing] /\ answers = {}

Execute(o, u, x) ==
  LET d == [user |-> u, result |-> x] IN
  /\ done[o] = Nothing
  /\ done' = [done EXCEPT ![o] = d]
  /\ answers' \in {answers, answers \cup {Success(o, d)}}

Answer(o) ==
  /\ done[o] # Nothing
  /\ answers' = answers \cup {Success(o, done[o])}
  /\ UNCHANGED done

\* Answers arrive, or are lost.
Arrive == answers' \in SUBSET answers /\ UNCHANGED done

Next == Arrive \/ \E o \in Op : Answer(o) \/ \E u \in User, x \in Result : Execute(o, u, x)

Spec == Init /\ [][Next]_<<done, answers>>
===============================================================================
