------------------------------ MODULE MCPsort ------------------------------
(* Control files for TLC: no pattern, one, patterns that overlap, and one  *)
(* that is covered by the one before it.                                   *)
EXTENDS Psort

TestControls == { << >>, <<{2}>>, <<{2, 3}, {1, 2}>>, <<{1, 3}, {3}>>, <<{3}, {}, {1}>> }
============================================================================
