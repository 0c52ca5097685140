--------------------------- MODULE MCMmapTests -----------------------------
(***************************************************************************)
(* Kernels for TLC: the two whose results the source lists (Linux 2.0 and  *)
(* FreeBSD 2.2), and two on which mappings are not what they should be.    *)
(***************************************************************************)
EXTENDS MmapTests

FreeBSD == <<"private", "shared", "private", "shared", "private", "shared">>
Linux   == <<"private", "shared", "private", "refused", "private", "refused">>
Broken  == <<"shared", "private", "fresh", "private", "refused", "fresh">>
Sparse  == <<"refused", "refused", "private", "refused", "shared", "refused">>

AllKernels  == {FreeBSD, Linux, Broken, Sparse}
============================================================================
