------------------------------ MODULE Perfmon ------------------------------
(***************************************************************************)
(* src/tr7/perfmon.c: runs a command a number of times and reports, from a *)
(* performance counter of the CPU, how many events each run of it caused.  *)
(* The counter is stopped, read, reset and started again between two runs. *)
(*                                                                         *)
(* The commands' events are the only ones counted here; the few that the   *)
(* program itself causes while the counter runs are left out.              *)
(***************************************************************************)
EXTENDS Integers, Functions

CONSTANTS
  LoopArgs,    \* the values of -l that are tried
  MaxLoops,    \* the largest -l that getnum accepts (INT_MAX - 1)
  QuadSize,    \* sizeof (quad_t)
  SizeMod,     \* 2^w, for a size_t of w bits
  MaxEvents,   \* bound: how many events one run of the command causes
  MaxOld,      \* bound: what the counter holds before it is set up
  IoctlMayFail \* may the driver refuse a request?

ASSUME PerfmonAssumption ==
  /\ LoopArgs \subseteq Int
  /\ {MaxLoops, QuadSize, SizeMod} \subseteq Nat \ {0}
  /\ MaxEvents \in Nat /\ MaxOld \in Nat
  /\ IoctlMayFail \in BOOLEAN

VARIABLES
  loops,    \* the number of runs asked for
  request,  \* the request or command that comes next
  i,        \* the loop variable
  slots,    \* how many elements of buf were allocated
  buf,      \* the readings stored in buf
  counter,  \* the counter: what it shows, and whether it counts
  clock,    \* the time stamp counter
  then,     \* its value at the start
  now,      \* its value at the end
  ran,      \* history: the events of each run of the command
  total     \* the reported total

perfmonVars == <<loops, request, i, slots, buf, counter, clock, then, now, ran, total>>

PerfmonInit ==
  /\ loops \in LoopArgs
  /\ request = "args"
  /\ i = 0
  /\ slots = 0
  /\ buf = << >>
  /\ counter \in [value : 0..MaxOld, counts : {FALSE}]
  /\ clock = 0 /\ then = 0 /\ now = 0
  /\ ran = << >>
  /\ total = 0

AfterRequest(from, to) == request = from /\ request' = to

\* getnum: a number outside 1..MaxLoops ends the program
GetNum ==
  /\ AfterRequest("args", IF loops \in 1..MaxLoops THEN "malloc" ELSE "failure")
  /\ UNCHANGED <<loops, i, slots, buf, counter, clock, then, now, ran, total>>

\* getopt and getnum: an unknown option, another number that is none or out of
\* its range, more or fewer counters than one.  malloc: no memory.
GiveUp ==
  /\ request \in {"args", "malloc"}
  /\ request' = "failure"
  /\ UNCHANGED <<loops, i, slots, buf, counter, clock, then, now, ran, total>>

\* Mutant: the reading after the loop is forgotten.
MallocOneLess ==
  /\ AfterRequest("malloc", "setup")
  /\ slots' = ((loops * QuadSize) % SizeMod) \div QuadSize
  /\ UNCHANGED <<loops, i, buf, counter, clock, then, now, ran, total>>

\* malloc((loops + 1) * sizeof *buf), with the arithmetic of size_t
Malloc ==
  /\ AfterRequest("malloc", "setup")
  /\ slots' = (((loops + 1) * QuadSize) % SizeMod) \div QuadSize
  /\ UNCHANGED <<loops, i, buf, counter, clock, then, now, ran, total>>

\* Every request that fails ends the program with err().
Fail ==
  /\ IoctlMayFail
  /\ request \in {"setup", "stamp", "start", "stop", "read", "reset", "restart", "laststop",
                  "lastread", "laststamp"}
  /\ request' = "failure"
  /\ UNCHANGED <<loops, i, slots, buf, counter, clock, then, now, ran, total>>

\* open and PMIOSETUP: the counter is made ours and cleared
Setup ==
  /\ AfterRequest("setup", "stamp")
  /\ counter' = [value |-> 0, counts |-> FALSE]
  /\ UNCHANGED <<loops, i, slots, buf, clock, then, now, ran, total>>

Stamp ==
  /\ AfterRequest("stamp", "start")
  /\ then' = clock
  /\ UNCHANGED <<loops, i, slots, buf, counter, clock, now, ran, total>>

\* the test "i < loops"
LoopHead(k) == IF k < loops THEN "stop" ELSE "laststop"

Start(from, to) ==
  /\ AfterRequest(from, to)
  /\ counter' = [counter EXCEPT !.counts = TRUE]
  /\ UNCHANGED <<loops, i, slots, buf, clock, then, now, ran, total>>

Stop(from, to) ==
  /\ AfterRequest(from, to)
  /\ counter' = [counter EXCEPT !.counts = FALSE]
  /\ UNCHANGED <<loops, i, slots, buf, clock, then, now, ran, total>>

\* PMIOREAD; buf[i] = value.pmcd_value
ReadCounter(from, to) ==
  /\ AfterRequest(from, to)
  /\ buf' = [k \in DOMAIN buf \cup {i} |-> IF k = i THEN counter.value ELSE buf[k]]
  /\ UNCHANGED <<loops, i, slots, counter, clock, then, now, ran, total>>

\* Mutant: the counter goes on from where it was.
ResetForgotten ==
  /\ AfterRequest("reset", "restart")
  /\ UNCHANGED <<loops, i, slots, buf, counter, clock, then, now, ran, total>>

Reset ==
  /\ AfterRequest("reset", "restart")
  /\ counter' = [counter EXCEPT !.value = 0]
  /\ UNCHANGED <<loops, i, slots, buf, clock, then, now, ran, total>>

\* sleep and system(cmd): takes time and causes events; then ++i
Command ==
  /\ AfterRequest("command", LoopHead(i + 1))
  /\ \E e \in 0..MaxEvents :
       /\ counter' = [counter EXCEPT !.value = IF counter.counts THEN @ + e ELSE @]
       /\ ran' = [k \in DOMAIN ran \cup {i + 1} |-> IF k = i + 1 THEN e ELSE ran[k]]
  /\ clock' = clock + 1
  /\ i' = i + 1
  /\ UNCHANGED <<loops, slots, buf, then, now, total>>

LastStamp ==
  /\ AfterRequest("laststamp", "report")
  /\ now' = clock
  /\ UNCHANGED <<loops, i, slots, buf, counter, clock, then, ran, total>>

Added(f) == FoldFunction(LAMBDA a, b : a + b, 0, f)

\* The readings from 1 to loops are printed and added up.
Report ==
  /\ AfterRequest("report", "end")
  /\ total' = Added([k \in 1..loops |-> buf[k]])
  /\ UNCHANGED <<loops, i, slots, buf, counter, clock, then, now, ran>>

PerfmonNext ==
  \/ GetNum \/ GiveUp \/ Malloc \/ Fail \/ Setup \/ Stamp
  \/ Start("start", LoopHead(0))
  \/ Stop("stop", "read") \/ ReadCounter("read", "reset") \/ Reset \/ Start("restart", "command")
  \/ Command
  \/ Stop("laststop", "lastread") \/ ReadCounter("lastread", "laststamp") \/ LastStamp \/ Report

PerfmonSpec == PerfmonInit /\ [][PerfmonNext]_perfmonVars

----------------------------------------------------------------------------
(* Properties.                                                             *)

\* The types of the program's variables and of the driver's state.
PerfmonTypeOK ==
  /\ loops \in LoopArgs
  /\ request \in {"args", "malloc", "setup", "stamp", "start", "stop", "read", "reset", "restart",
                  "command", "laststop", "lastread", "laststamp", "report", "end", "failure"}
  /\ i \in Nat /\ slots \in Nat
  /\ DOMAIN buf \subseteq Nat /\ \A k \in DOMAIN buf : buf[k] \in Nat
  /\ counter \in [value : Nat, counts : BOOLEAN]
  /\ {clock, then, now} \subseteq Nat

\* No reading lies behind the end of buf, the one after the loop included:
\* for every number of runs for which the size of buf does not wrap around.
ReadingsFit ==
  (loops + 1) * QuadSize < SizeMod => \A k \in DOMAIN buf : k < slots

\* The report covers every run of the command, once; each line is what that
\* run has caused, not the events of the run before it, nor what the counter
\* held at the start; the reading before the first run is left out.
ReportComplete ==
  request = "end" =>
    /\ DOMAIN ran = 1..loops
    /\ \A k \in 1..loops : buf[k] = ran[k]
    /\ total = Added([k \in 1..loops |-> ran[k]])
    /\ now - then = loops
============================================================================
