---------------------------- MODULE MallocBench ----------------------------
(***************************************************************************)
(* src/tr7/malloc-bench.cc: main launches worker threads that each do      *)
(* their share of malloc/free pairs, then waits on a condition variable    *)
(* until a counter says that the last of them is done.  With a first       *)
(* argument that starts with 0 it does the work itself instead.            *)
(*                                                                         *)
(* The steps are the accesses to shared state: the timers, the mutex, the  *)
(* counter and the condition variable.  Thread 0 is main.                  *)
(***************************************************************************)
EXTENDS Integers, FiniteSets

CONSTANTS
  CommandLines,   \* the argument lists to consider (see IsCommandLine)
  Loop,           \* how many pairs a batch of work() has (10*1024)
  CreateMayFail   \* may pthread_create fail?  Run() drops its result

\* argc; does argv[1] start with '0'?; atoi of argv[1] and of argv[2].
\* atoi of something that starts with 0 is not negative.
IsCommandLine(c) ==
  /\ c \in [argc : Nat, zero : BOOLEAN, nthrd : Int, num : Int]
  /\ c.zero => c.nthrd >= 0

ASSUME MallocBenchAssumption ==
  /\ \A c \in CommandLines : IsCommandLine(c)
  /\ Loop \in Nat \ {0}
  /\ CreateMayFail \in BOOLEAN

VARIABLES
  cmd,      \* the command line of this execution
  mpc,      \* what main does next
  i,        \* the variable of main's for loops
  tpc,      \* what each thread does next in work(); "none" before it runs
  left,     \* per thread, the variable N of work()
  pairs,    \* history: per thread, the malloc/free pairs it has done
  held,     \* per thread, the blocks it has allocated and not freed
  timers,   \* the vector _timers
  lock,     \* who holds _lock: a thread, or Free
  running,  \* _running
  early,    \* history: how many threads were done when _running was set
  report    \* per thread, the state of the timer that main printed

shared  == <<lock, running, early>>
threads == <<tpc, left, pairs, held>>
vars    == <<cmd, mpc, i, threads, timers, shared, report>>

Free == -1

do_threads == ~cmd.zero
nthrd      == cmd.nthrd
Launched   == 1..nthrd
Indices    == {0} \cup Launched

\* Joining covers what main does inside the wait, Joined what comes after.
Waiting    == {"test", "block", "wait", "relock"}
Joined     == {"unlock", "stop", "report", "exit"}
MainStates == {"args", "usage", "launch", "lock", "set", "direct"} \cup Waiting \cup Joined
WorkStates == {"none", "start", "malloc", "free", "stop", "lock", "decrement",
               "signal", "unlock", "done"}

Init ==
  /\ cmd \in CommandLines
  /\ mpc = "args"
  /\ i = 1
  /\ tpc = [t \in Indices |-> "none"]
  /\ left = [t \in Indices |-> 0]
  /\ pairs = [t \in Indices |-> 0]
  /\ held = [t \in Indices |-> 0]
  /\ timers = [t \in Indices |-> "zero"]
  /\ lock = Free
  /\ running = 0
  /\ early = 0
  /\ report = [t \in Launched |-> "nothing"]

----------------------------------------------------------------------------
(* main: the arguments and the launch.                                     *)

BadArgs == cmd.argc # 3 \/ (do_threads /\ (nthrd <= 0 \/ cmd.num <= 0))

Usage ==
  /\ mpc = "args" /\ BadArgs
  /\ mpc' = "usage"
  /\ UNCHANGED <<cmd, i, threads, timers, shared, report>>

\* _timers.resize, _timers[0].Start()
Begin ==
  /\ mpc = "args" /\ ~BadArgs
  /\ mpc' = "launch"
  /\ timers' = [timers EXCEPT ![0] = "started"]
  /\ UNCHANGED <<cmd, i, threads, shared, report>>

Share == cmd.num \div nthrd

\* Mutant: one thread too many.
LaunchOneMore ==
  /\ mpc = "launch" /\ i <= nthrd + 1
  /\ i' = i + 1
  /\ tpc' = [tpc EXCEPT ![i] = "start"]
  /\ left' = [left EXCEPT ![i] = Share]
  /\ UNCHANGED <<cmd, mpc, pairs, held, timers, shared, report>>

Launch ==
  /\ mpc = "launch" /\ i <= nthrd
  /\ i' = i + 1
  /\ \/ /\ tpc' = [tpc EXCEPT ![i] = "start"]
        /\ left' = [left EXCEPT ![i] = Share]
     \/ CreateMayFail /\ UNCHANGED <<tpc, left>>
  /\ UNCHANGED <<cmd, mpc, pairs, held, timers, shared, report>>

\* In direct mode main calls work() itself, as thread 0 and with all of N.
EndLaunch ==
  /\ mpc = "launch" /\ i > nthrd
  /\ IF do_threads
     THEN mpc' = "lock" /\ UNCHANGED <<tpc, left>>
     ELSE /\ mpc' = "direct"
          /\ tpc' = [tpc EXCEPT ![0] = "start"]
          /\ left' = [left EXCEPT ![0] = cmd.num]
  /\ UNCHANGED <<cmd, i, pairs, held, timers, shared, report>>

----------------------------------------------------------------------------
(* main: the wait.                                                         *)

Acquire(t) == lock = Free /\ lock' = t
Release(t) == lock = t /\ lock' = Free

MainLock ==
  /\ mpc = "lock" /\ mpc' = "set"
  /\ Acquire(0)
  /\ UNCHANGED <<cmd, i, threads, timers, running, early, report>>

\* The threads that have counted themselves out.
Out == {t \in Launched : tpc[t] \in {"signal", "unlock", "done"}}

\* Mutant: main does not count the last thread.
SetRunningOneLess ==
  /\ mpc = "set" /\ mpc' = "test"
  /\ running' = nthrd - 1
  /\ early' = Cardinality(Out)
  /\ UNCHANGED <<cmd, i, threads, timers, lock, report>>

\* _running = nthrd, whatever the threads have made of it so far
SetRunning ==
  /\ mpc = "set" /\ mpc' = "test"
  /\ running' = nthrd
  /\ early' = Cardinality(Out)
  /\ UNCHANGED <<cmd, i, threads, timers, lock, report>>

\* Mutant: "if" for "while", so that any wake-up will do.
TestOnce ==
  /\ mpc = "test"
  /\ mpc' \in IF running > 0 THEN {"block", "unlock"} ELSE {"unlock"}
  /\ UNCHANGED <<cmd, i, threads, timers, shared, report>>

\* while (_running > 0)
Test ==
  /\ mpc = "test"
  /\ mpc' = IF running > 0 THEN "block" ELSE "unlock"
  /\ UNCHANGED <<cmd, i, threads, timers, shared, report>>

\* pthread_cond_wait gives up the lock and starts to wait in one step
Block ==
  /\ mpc = "block" /\ mpc' = "wait"
  /\ Release(0)
  /\ UNCHANGED <<cmd, i, threads, timers, running, early, report>>

\* POSIX lets pthread_cond_wait return without a signal.
SpuriousWakeup ==
  /\ mpc = "wait" /\ mpc' = "relock"
  /\ UNCHANGED <<cmd, i, threads, timers, shared, report>>

Relock ==
  /\ mpc = "relock" /\ mpc' = "test"
  /\ Acquire(0)
  /\ UNCHANGED <<cmd, i, threads, timers, running, early, report>>

MainUnlock ==
  /\ mpc = "unlock" /\ mpc' = "stop"
  /\ Release(0)
  /\ UNCHANGED <<cmd, i, threads, timers, running, early, report>>

Return ==
  /\ mpc = "direct" /\ tpc[0] = "done"
  /\ mpc' = "stop"
  /\ UNCHANGED <<cmd, i, threads, timers, shared, report>>

----------------------------------------------------------------------------
(* main: the results.  Returning from main ends every thread.              *)

StopTimer ==
  /\ mpc = "stop" /\ mpc' = "report"
  /\ timers' = [timers EXCEPT ![0] = "stopped"]
  /\ i' = 1
  /\ UNCHANGED <<cmd, threads, shared, report>>

Report ==
  /\ mpc = "report" /\ i <= nthrd
  /\ report' = [report EXCEPT ![i] = timers[i]]
  /\ i' = i + 1
  /\ UNCHANGED <<cmd, mpc, threads, timers, shared>>

Exit ==
  /\ mpc = "report" /\ i > nthrd
  /\ mpc' = "exit"
  /\ UNCHANGED <<cmd, i, threads, timers, shared, report>>

----------------------------------------------------------------------------
(* work().                                                                 *)

Goto(t, from, to) ==
  /\ mpc # "exit"
  /\ tpc[t] = from /\ tpc' = [tpc EXCEPT ![t] = to]

\* Mutant: one batch too many when the share is a number of whole batches.
LoopHeadLate(n) == IF n >= 0 THEN "malloc" ELSE "stop"

\* the test of "while (N > 0)"
LoopHead(n) == IF n > 0 THEN "malloc" ELSE "stop"

StartWork(t) ==
  /\ Goto(t, "start", LoopHead(left[t]))
  /\ timers' = [timers EXCEPT ![t] = "started"]
  /\ UNCHANGED <<cmd, mpc, i, left, pairs, held, shared, report>>

MallocBatch(t) ==
  /\ Goto(t, "malloc", "free")
  /\ held' = [held EXCEPT ![t] = Loop]
  /\ UNCHANGED <<cmd, mpc, i, left, pairs, timers, shared, report>>

\* Each free counts N down, so that N may end below zero.
FreeBatch(t) ==
  /\ Goto(t, "free", LoopHead(left[t] - Loop))
  /\ held' = [held EXCEPT ![t] = 0]
  /\ left' = [left EXCEPT ![t] = @ - Loop]
  /\ pairs' = [pairs EXCEPT ![t] = @ + Loop]
  /\ UNCHANGED <<cmd, mpc, i, timers, shared, report>>

StopWork(t) ==
  /\ Goto(t, "stop", "lock")
  /\ timers' = [timers EXCEPT ![t] = "stopped"]
  /\ UNCHANGED <<cmd, mpc, i, left, pairs, held, shared, report>>

WorkLock(t) ==
  /\ Goto(t, "lock", "decrement")
  /\ Acquire(t)
  /\ UNCHANGED <<cmd, mpc, i, left, pairs, held, timers, running, early, report>>

\* Mutant: "_running--" for "--_running".
DecrementAfter(t) ==
  /\ Goto(t, "decrement", IF running = 0 THEN "signal" ELSE "unlock")
  /\ running' = running - 1
  /\ UNCHANGED <<cmd, mpc, i, left, pairs, held, timers, lock, early, report>>

\* if (--_running == 0)
Decrement(t) ==
  /\ Goto(t, "decrement", IF running = 1 THEN "signal" ELSE "unlock")
  /\ running' = running - 1
  /\ UNCHANGED <<cmd, mpc, i, left, pairs, held, timers, lock, early, report>>

\* Mutant: the signal goes to another condition variable.
SignalElsewhere(t) ==
  /\ Goto(t, "signal", "unlock")
  /\ UNCHANGED <<cmd, mpc, i, left, pairs, held, timers, shared, report>>

\* pthread_cond_signal: wakes main if main waits, and is lost otherwise
Signal(t) ==
  /\ Goto(t, "signal", "unlock")
  /\ mpc' = IF mpc = "wait" THEN "relock" ELSE mpc
  /\ UNCHANGED <<cmd, i, left, pairs, held, timers, shared, report>>

WorkUnlock(t) ==
  /\ Goto(t, "unlock", "done")
  /\ Release(t)
  /\ UNCHANGED <<cmd, mpc, i, left, pairs, held, timers, running, early, report>>

----------------------------------------------------------------------------

Main ==
  \/ Usage \/ Begin \/ Launch \/ EndLaunch \/ MainLock \/ SetRunning \/ Test
  \/ Block \/ Relock \/ MainUnlock \/ Return \/ StopTimer \/ Report \/ Exit

Work(t) ==
  \/ StartWork(t) \/ MallocBatch(t) \/ FreeBatch(t) \/ StopWork(t)
  \/ WorkLock(t) \/ Decrement(t) \/ Signal(t) \/ WorkUnlock(t)

Next == Main \/ SpuriousWakeup \/ \E t \in Indices : Work(t)

Spec == Init /\ [][Next]_vars

AllIndices == UNION {0..c.nthrd : c \in CommandLines}

\* The scheduler runs every thread that can run, and waits do not return
\* without a reason for ever.  The mutex then needs no fairness of its own:
\* each thread asks for it once.
Fairness ==
  /\ <>[][~SpuriousWakeup]_vars
  /\ WF_vars(Main)
  /\ \A t \in AllIndices : WF_vars(t \in Indices /\ Work(t))

FairSpec == Spec /\ Fairness

----------------------------------------------------------------------------
(* Properties.                                                             *)

\* The types of what parent and threads share and of what each keeps.
TypeOK ==
  /\ cmd \in CommandLines
  /\ mpc \in MainStates
  /\ i \in 1..(IF nthrd < 0 THEN 1 ELSE nthrd + 1)
  /\ tpc \in [Indices -> WorkStates]
  /\ left \in [Indices -> Int]
  /\ pairs \in [Indices -> Nat]
  /\ held \in [Indices -> {0, Loop}]
  /\ timers \in [Indices -> {"zero", "started", "stopped"}]
  /\ lock \in Indices \cup {Free}
  /\ running \in Int
  /\ early \in Nat
  /\ report \in [Launched -> {"nothing", "zero", "started", "stopped"}]

\* The results that main prints after the wait ("wait for all to finish")
\* are those of threads that have stopped their timer.
ResultsComplete ==
  do_threads => \A t \in Launched : report[t] \in {"nothing", "stopped"}

\* The threads that are past the decrement and the signal after it.
Through == {t \in Launched : tpc[t] \in {"unlock", "done"}}

\* The wake-up is never lost: if main waits although every thread is past
\* its signal, then some had counted itself out before _running was set.
NoLostWakeup ==
  mpc = "wait" /\ Through = Launched => early > 0

Asked(t) == IF t = 0 THEN cmd.num ELSE Share

\* A thread that leaves its loop has freed all it allocated and done the
\* pairs it was asked for, rounded up to whole batches, and no batch more.
WorkDone ==
  \A t \in Indices : tpc[t] \notin {"none", "start", "malloc", "free"} =>
    /\ held[t] = 0
    /\ IF Asked(t) <= 0 THEN pairs[t] = 0
                        ELSE pairs[t] >= Asked(t) /\ pairs[t] < Asked(t) + Loop

\* The threads main answers for, and those of them that are through.
Obliged  == IF mpc \in {"args", "usage"} THEN {} ELSE IF do_threads THEN Launched ELSE {0}
Finished == {t \in Obliged : timers[t] = "stopped"}

FJ == INSTANCE ForkJoin WITH
  Workers <- Int, obliged <- Obliged, finished <- Finished, joined <- mpc \in Joined

\* main gets past the wait only when everything it answers for is done, and
\* every thread is done once: the detailed program is a fork and a join.
ForksAndJoins == FJ!Spec

\* If every thread was created and none counted itself out before _running
\* was set, the wait ends and main returns.
MainGetsOut ==
  mpc = "test" /\ early = 0 /\ (\A t \in Launched : tpc[t] # "none") ~> mpc = "exit"

\* "wait for all to finish": the wait ends.
WaitEnds == mpc = "lock" ~> mpc = "stop"
============================================================================
