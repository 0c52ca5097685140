------------------------------- MODULE ElfLdd ------------------------------
(***************************************************************************)
(* src/elf-ldd.pl: looks for the shared libraries that a program needs,    *)
(* and that those need, and reports the ones it cannot find.               *)
(*                                                                         *)
(* A system is a record: needed[f] is what the file that the name f leads  *)
(* to needs, in order; here are the names that are files seen from the     *)
(* working directory; found are those that are in some directory of the    *)
(* search path.  The hash of the libraries already checked is left out: it *)
(* is looked up by the library and written under the constant key "lib".   *)
(***************************************************************************)
EXTENDS Integers, Sequences, FiniteSets

\* Mutant: the name itself is not tried.
CheckRpathOnly(s, lib) == lib \in s.found

\* checkFile: an absolute path or a file in "." will do as well.
CheckFile(s, lib) == lib \in s.here \/ lib \in s.found

\* getDepends runs objdump on the bare name: for a library that was only
\* found along the search path it gets nothing to read.
GetDepends(s, lib) == IF lib \in s.here THEN s.needed[lib] ELSE << >>

\* What is in a sequence, and one sequence after the other.
Elements(seq) == {seq[k] : k \in DOMAIN seq}

Joined(outs) ==
  LET all[k \in 0..Len(outs)] == IF k = 0 THEN << >> ELSE all[k - 1] \o outs[k]
  IN all[Len(outs)]

Names(s) == DOMAIN s.needed

\* The arguments of checkAllDeps: $msg and $lib.
Calls(s) == Names(s) \X Names(s)

\* checkAllDeps before its loop: the line, if there is one.
Check(s, call) == IF CheckFile(s, call[2]) THEN << >> ELSE <<call>>

\* checkAllDeps: the lines printed, given those that its own calls print.
Visit(s, printed) ==
  [call \in Calls(s) |->
     LET deps == GetDepends(s, call[2]) IN
     Check(s, call) \o Joined([k \in DOMAIN deps |-> printed[<<call[2], deps[k]>>]])]

\* checkAllDeps, to a certain depth of the recursion.
CheckAllDeps(s, depth) ==
  LET print[n \in 0..depth] ==
        IF n = 0 THEN [call \in Calls(s) |-> Check(s, call)] ELSE Visit(s, print[n - 1])
  IN print

\* How deep the recursion gets, if it ends: it does not with a cycle.
Depth(s) == Cardinality(Names(s))

\* The names for which there is anything left to do below a depth.
Deep(s) ==
  LET deep[n \in 0..Depth(s)] ==
        IF n = 0 THEN Names(s)
        ELSE {lib \in Names(s) : Elements(GetDepends(s, lib)) \cap deep[n - 1] # {}}
  IN deep

Unfinished(s, lib) == lib \in Deep(s)[Depth(s)]

Output(s, lib) == CheckAllDeps(s, Depth(s))[Depth(s)][<<lib, lib>>]

----------------------------------------------------------------------------

\* The net of dependencies of lib: what it needs, what the files found for
\* those names need, and so on.
Spread(s, set) == set \cup UNION {Elements(s.needed[f]) : f \in set \cap (s.here \cup s.found)}

Net(s, lib) ==
  LET net[n \in 0..Depth(s)] == IF n = 0 THEN {lib} ELSE Spread(s, net[n - 1])
  IN net

Reached(s, lib) == Net(s, lib)[Depth(s)]

\* Does f need itself, in the end?
OnCycle(s, f) ==
  /\ f \in s.here \cup s.found
  /\ \E i \in Elements(s.needed[f]) : f \in Reached(s, i)

\* Whatever needs something is seen from the working directory, by its name
\* or as an absolute path.
NeedySeen(s) == \A f \in s.found \ s.here : s.needed[f] = << >>

\* On such a system the program comes back if there is no cycle in the net,
\* and its lines name exactly the missing libraries of the net, each with
\* every file that needs it.
LddReports(s, lib) ==
  NeedySeen(s) /\ (\A f \in Reached(s, lib) : ~OnCycle(s, f)) =>
    /\ ~Unfinished(s, lib)
    /\ Elements(Output(s, lib)) =
         {line \in Reached(s, lib) \X Reached(s, lib) :
            LET f == line[1] g == line[2] IN
            /\ g \notin s.here \cup s.found
            /\ \/ f \in s.here \cup s.found /\ g \in Elements(s.needed[f])
               \/ f = g /\ g = lib}

\* "The equivalent of ldd", "useful for tracking down which shlib of a whole
\* net of dependencies is responsible": for a program that is there itself it
\* comes back, and every missing library of the net is in a line.
LddWholeNet(s, lib) ==
  lib \in s.here =>
    /\ ~Unfinished(s, lib)
    /\ \A g \in Reached(s, lib) \ (s.here \cup s.found) :
         \E line \in Elements(Output(s, lib)) : line[2] = g

\* "After we're through, register this lib (found or not)": a library that has
\* been checked counts as found, so that it is reported once at most.
ReportedOnce(s, lib) ==
  LET out == Output(s, lib) IN
  ~Unfinished(s, lib) => \A j, k \in DOMAIN out : out[j][2] = out[k][2] => j = k
============================================================================
