----------------------------- MODULE MCFswaste -----------------------------
(***************************************************************************)
(* Small file systems for TLC: an empty one; an empty subdirectory; a file *)
(* with two names beside a subdirectory; directories one deeper than can   *)
(* be open.                                                                *)
(***************************************************************************)
EXTENDS Fswaste

CONSTANTS r, d1, d2, f1, f2

Bare == {<<r, d1>>}
Flat == {<<r, f1>>, <<r, d1>>, <<d1, f1>>}
Deep == {<<r, d1>>, <<d1, d2>>, <<d2, f2>>, <<d1, f1>>}

\* One file that may not be looked at, one directory that may not be opened.
TestUnstatable == {<<d1, f1>>}
TestUnreadable == {<<d1, d2>>}

TestTrees == {{}, Bare, Flat, Deep}
TestArgs  == {<< >>, <<r>>, <<r, r>>, <<Absent, r>>}
============================================================================
