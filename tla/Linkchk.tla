------------------------------- MODULE Linkchk -----------------------------
(***************************************************************************)
(* linkchk of src/fswaste.c: tells for one file after the other whether it *)
(* has come by before, by the name of another link.  The table of what has *)
(* come by grows by a number of entries at a time.  (calc_usage does not   *)
(* call it yet.)                                                           *)
(***************************************************************************)
EXTENDS Integers, Sequences, FiniteSets

CONSTANTS
  Step,      \* how many entries the table grows by: 128
  Memory     \* how many entries realloc can provide

Empty == [files |-> << >>, maxfiles |-> 0, answers |-> << >>, dead |-> FALSE]

\* Mutant: only the inode is compared.
SameInode(id, of) == id.inode = of.inode

Same(id, of) == id.inode = of.inode /\ id.dev = of.dev

\* linkchk, and Error() if realloc fails.
Check(s, id) ==
  IF s.dead THEN s
  ELSE IF \E k \in DOMAIN s.files : Same(s.files[k], id)
    THEN [s EXCEPT !.answers = Append(@, 1)]
  ELSE LET max == IF Len(s.files) = s.maxfiles THEN s.maxfiles + Step ELSE s.maxfiles IN
    IF max > Memory THEN [s EXCEPT !.maxfiles = max, !.dead = TRUE]
    ELSE [s EXCEPT !.files = Append(@, id), !.maxfiles = max, !.answers = Append(@, 0)]

\* The table after each call.
After(ids) ==
  LET s[n \in 0..Len(ids)] == IF n = 0 THEN Empty ELSE Check(s[n - 1], ids[n])
  IN s

----------------------------------------------------------------------------

Different(ids, n) == Cardinality({ids[k] : k \in 1..n})

\* Every file is answered with 0 once, the first time, and with 1 from then
\* on: there are as many zeros as different files.  No entry lies behind the
\* table, and only a file for which there is no memory ends the program.
LinksCountedOnce(ids) ==
  \A n \in 0..Len(ids) :
    LET s == After(ids)[n] IN
    /\ Len(s.files) <= s.maxfiles
    /\ s.dead <=> Different(ids, n) > (Memory \div Step) * Step
    /\ ~s.dead =>
         /\ Cardinality({k \in 1..n : s.answers[k] = 0}) = Different(ids, n)
         /\ n > 0 => (s.answers[n] = 1 <=> Different(ids, n) = Different(ids, n - 1))
============================================================================
