----------------------------- MODULE MCThreads -----------------------------
(***************************************************************************)
(* The programs of several threads or processes: malloc-bench, mmap-tests  *)
(* and suspend.  They share nothing with each other: a behaviour is a run  *)
(* of one of them, while the other two are over, and do nothing.           *)
(***************************************************************************)
EXTENDS MCMallocBench, MCMmapTests, Suspend

VARIABLE program   \* the program that is run

\* malloc-bench after it has shown its usage, mmap-tests after its exit, and
\* suspend after pthread_suspend_np has failed.
MallocOver ==
  /\ cmd = Line(FALSE, 2, 0)
  /\ mpc = "usage"
  /\ i = 1
  /\ tpc = [t \in Indices |-> "none"]
  /\ left = [t \in Indices |-> 0]
  /\ pairs = [t \in Indices |-> 0]
  /\ held = [t \in Indices |-> 0]
  /\ timers = [t \in Indices |-> "zero"]
  /\ lock = Free
  /\ running = 0
  /\ early = 0
  /\ report = [t \in Launched |-> "nothing"]

MmapOver ==
  /\ kernel = Linux
  /\ tail = "zero"
  /\ round = 1
  /\ pc = [parent |-> "gone", child |-> "none"]
  /\ mode = [p \in Procs |-> "running"]
  /\ caught = [p \in Procs |-> 0]
  /\ pending = {}
  /\ page = [p \in Procs |-> "nothing"]
  /\ file = "nothing"
  /\ buf = [p \in Procs |-> << >>]
  /\ out = << >>
  /\ forked = {}

SuspendOver ==
  /\ doing = [main |-> "failed", bg1 |-> "none", bg2 |-> "none"]
  /\ holder = "nobody"
  /\ suspended = FALSE
  /\ typed = 1 /\ read = 1 /\ toggles = 0

ThreadsInit ==
  /\ program \in {"malloc-bench", "mmap-tests", "suspend"}
  /\ IF program = "malloc-bench" THEN Init ELSE MallocOver
  /\ IF program = "mmap-tests" THEN MmapInit ELSE MmapOver
  /\ IF program = "suspend" THEN SuspendInit ELSE SuspendOver

ThreadsNext ==
  /\ \/ Next        /\ UNCHANGED <<mmapVars, suspendVars>>
     \/ MmapNext    /\ UNCHANGED <<vars, suspendVars>>
     \/ SuspendNext /\ UNCHANGED <<vars, mmapVars>>
  /\ UNCHANGED program

\* The scheduling that each module states; for those that are over it asks
\* for nothing, as they have no step left.
ThreadsSpec ==
  /\ ThreadsInit /\ [][ThreadsNext]_<<program, vars, mmapVars, suspendVars>>
  /\ Fairness /\ MmapFairness /\ SuspendFairness
============================================================================
