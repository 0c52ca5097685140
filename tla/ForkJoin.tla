----------------------------- MODULE ForkJoin ------------------------------
(***************************************************************************)
(* What a program that forks workers and waits for them promises: it gets  *)
(* past the wait only when every worker it answers for has finished.       *)
(***************************************************************************)
CONSTANT Workers    \* everything that could be a worker

VARIABLES
  obliged,   \* the workers the program answers for; none before the fork
  finished,  \* those that have finished
  joined     \* is the program past its wait?

vars == <<obliged, finished, joined>>

Init == obliged = {} /\ finished = {} /\ joined = FALSE

Fork ==
  /\ obliged = {} /\ ~joined
  /\ obliged' \in SUBSET Workers
  /\ obliged' # {}
  /\ UNCHANGED <<finished, joined>>

Finish ==
  /\ ~joined
  /\ \E w \in obliged \ finished : finished' = finished \cup {w}
  /\ UNCHANGED <<obliged, joined>>

Join ==
  /\ obliged # {} /\ finished = obliged /\ ~joined
  /\ joined' = TRUE
  /\ UNCHANGED <<obliged, finished>>

Next == Fork \/ Finish \/ Join

Spec == Init /\ [][Next]_vars
============================================================================
