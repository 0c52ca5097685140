-------------------------------- MODULE Psio -------------------------------
(***************************************************************************)
(* src/tr7/psio.pl: runs ps every few seconds and prints the processes     *)
(* with the most I/O since the last time.                                  *)
(*                                                                         *)
(* A sample is what one ps shows: for each pid the process behind it and   *)
(* its I/O count, or Gone.  The reads and the writes are taken together,   *)
(* as the sort does.                                                       *)
(***************************************************************************)
EXTENDS Integers, Sequences, FiniteSets

CONSTANT Gone    \* "there is no process with this pid"

\* Mutant: the pids that ps does not show any more are forgotten as zeros.
NewOfSampleOnly(new, sample) ==
  [pid \in DOMAIN sample |-> IF sample[pid] = Gone THEN 0 ELSE sample[pid].io]

\* getProcs: NEW is overwritten pid by pid and never emptied.
NewOf(new, sample) ==
  [pid \in DOMAIN sample |-> IF sample[pid] = Gone THEN new[pid] ELSE sample[pid].io]

\* The hash NEW after each sample; Gone: the key does not exist.
New(samples) ==
  LET new[n \in 0..Len(samples)] ==
        IF n = 0 THEN [pid \in DOMAIN samples[1] |-> Gone] ELSE NewOf(new[n - 1], samples[n])
  IN new

\* The hash RW of the n-th round: OLD is NEW of the round before.
RW(samples, n) ==
  LET old   == New(samples)[n - 1]
      new   == New(samples)[n]
      known == {pid \in DOMAIN samples[1] : old[pid] # Gone /\ new[pid] # Gone}
  IN [pid \in known |-> new[pid] - old[pid]]

\* Sorted downwards, cut off at the first zero and after TOP lines.  Equal
\* counts come in any order: the sets of pids that may be printed.
Printed(rw, top) ==
  LET before == IF \E pid \in DOMAIN rw : rw[pid] = 0 THEN {pid \in DOMAIN rw : rw[pid] > 0}
                ELSE DOMAIN rw
  IN {S \in SUBSET before :
        /\ Cardinality(S) = (IF Cardinality(before) < top THEN Cardinality(before) ELSE top)
        /\ \A p \in S, q \in before \ S : rw[p] >= rw[q]}

----------------------------------------------------------------------------

\* What the samples may show of one pid: counts never fall while a process
\* lives, and processes do not come back.
IsHistory(h) ==
  \A j, k \in DOMAIN h : j < k /\ h[j] # Gone /\ h[k] # Gone =>
    \/ h[j].process < h[k].process
    \/ /\ h[j].process = h[k].process /\ h[j].io <= h[k].io
       /\ \A m \in j..k : h[m] # Gone /\ h[m].process = h[j].process

\* pid has been one process at most up to the n-th sample.
OneProcess(samples, pid, n) ==
  \A j, k \in 1..n : samples[j][pid] # Gone /\ samples[k][pid] # Gone =>
    samples[j][pid].process = samples[k][pid].process

\* What the process behind pid really did between two samples.
Done(samples, pid, n) ==
  IF samples[n][pid] = Gone \/ samples[n - 1][pid] = Gone THEN 0
  ELSE samples[n][pid].io - samples[n - 1][pid].io

\* As long as no pid is used again: what is printed is true, what has gone is
\* not printed any more, and nobody is left out who did more than one that is
\* printed, or anything while there is room.
TopReported(samples, top) ==
  \A n \in 2..Len(samples) :
    (\A pid \in DOMAIN samples[1] : OneProcess(samples, pid, n)) =>
      LET rw   == RW(samples, n)
          done == [pid \in DOMAIN samples[1] |-> Done(samples, pid, n)] IN
      \A S \in Printed(rw, top) :
        /\ \A pid \in S : done[pid] = rw[pid] /\ done[pid] > 0
        /\ \A q \in DOMAIN samples[1] \ S :
             /\ \A p \in S : done[p] >= done[q]
             /\ done[q] > 0 => Cardinality(S) = top
============================================================================
