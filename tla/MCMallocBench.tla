--------------------------- MODULE MCMallocBench ---------------------------
(***************************************************************************)
(* Command lines for TLC: shares that are no batch, part of one and more   *)
(* than one; direct mode alone, with threads beside it, and without work.  *)
(***************************************************************************)
EXTENDS MallocBench

Line(z, t, n) == [argc |-> 3, zero |-> z, nthrd |-> t, num |-> n]

ThreadLines == {Line(FALSE, 1, 3), Line(FALSE, 2, 1), Line(FALSE, 2, 5), Line(FALSE, 3, 4)}
DirectLines == {Line(TRUE, 0, 3), Line(TRUE, 2, 2), Line(TRUE, 0, 0)}
BadLines    == {Line(FALSE, -1, 5), Line(FALSE, 2, 0), [Line(FALSE, 1, 1) EXCEPT !.argc = 2]}
AllLines    == ThreadLines \cup DirectLines \cup BadLines
FairLines   == {Line(FALSE, 1, 3), Line(FALSE, 2, 4), Line(TRUE, 0, 3)}
============================================================================
