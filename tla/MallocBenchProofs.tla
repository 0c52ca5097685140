------------------------- MODULE MallocBenchProofs -------------------------
(***************************************************************************)
(* Proofs about MallocBench, for every command line and batch size: it is  *)
(* type correct, prints complete results, loses no wake-up, does the work  *)
(* it was asked for, and implements ForkJoin.                              *)
(***************************************************************************)
EXTENDS MallocBench, FiniteSetTheorems, TLAPS

Critical  == {"decrement", "signal", "unlock"}    \* work() holds _lock
MainHolds == {"set", "test", "block", "unlock"}   \* main holds _lock
AfterSet  == Waiting \cup Joined
Stopped   == {"lock", "decrement", "signal", "unlock", "done"}
Looping   == {"start", "malloc", "free", "stop"}

\* main goes on only with sound arguments, and only one of its two ways.
ModeInv ==
  /\ mpc \notin {"args", "usage"} => ~BadArgs
  /\ do_threads => tpc[0] = "none" /\ mpc # "direct"
  /\ ~do_threads => mpc \notin MainHolds \cup Waiting \cup {"lock"}

LaunchInv ==
  /\ mpc = "args" => i = 1
  /\ mpc \in {"args", "launch"} =>
       \A t \in Indices : t = 0 \/ t >= i => tpc[t] = "none"

TimerInv ==
  /\ mpc = "args" => \A t \in Launched : timers[t] = "zero"
  /\ \A t \in Indices : tpc[t] \in Stopped => timers[t] = "stopped"
  /\ \A t \in Launched : tpc[t] \in {"none"} \cup Looping => timers[t] # "stopped"
  /\ mpc \notin Joined /\ tpc[0] \in {"none"} \cup Looping => timers[0] # "stopped"

LockInv ==
  /\ \A t \in Indices : tpc[t] \in Critical => lock = t
  /\ mpc \in MainHolds => lock = 0

\* Once _running is set, it counts the threads that are not out, and those
\* that were out too early.
CountInv ==
  do_threads /\ mpc \in AfterSet => running = nthrd - Cardinality(Out) + early

WaitInv ==
  /\ mpc = "block" => running > 0
  /\ mpc = "wait" => running > 0 \/ \E t \in Launched : tpc[t] = "signal"

JoinInv ==
  mpc \in Joined => IF do_threads THEN Out = Launched ELSE tpc[0] = "done"

IInv ==
  /\ TypeOK /\ ModeInv /\ LaunchInv /\ TimerInv /\ LockInv
  /\ CountInv /\ WaitInv /\ JoinInv

----------------------------------------------------------------------------

\* The arguments of main are integers, and at least one thread is launched
\* where the launch loop is entered.
LEMMA CmdType ==
  ASSUME TypeOK
  PROVE  /\ cmd.argc \in Nat /\ cmd.zero \in BOOLEAN
         /\ nthrd \in Int /\ cmd.num \in Int
         /\ cmd.zero => nthrd >= 0
         /\ (nthrd > 0 => Share \in Int)
  BY MallocBenchAssumption DEF TypeOK, IsCommandLine, nthrd, Share

\* The threads that are out can be counted; they are all of them when there
\* are as many as were launched.
LEMMA OutFinite ==
  ASSUME nthrd \in Int
  PROVE  /\ IsFiniteSet(Out) /\ Cardinality(Out) \in Nat
         /\ nthrd >= 0 => Cardinality(Out) <= nthrd
         /\ nthrd >= 0 /\ Cardinality(Out) = nthrd => Out = Launched
<1>1. Out \subseteq Launched
  BY DEF Out
<1>2. IsFiniteSet(Launched) /\ (nthrd >= 0 => Cardinality(Launched) = nthrd)
  <2> DEFINE n == nthrd
  <2>1. n \in Int
    OBVIOUS
  <2> HIDE DEF n
  <2>2. IsFiniteSet(1..n) /\ (n >= 0 => Cardinality(1..n) = n)
    BY <2>1, FS_Interval
  <2> QED
    BY <2>2 DEF n, Launched
<1>3. /\ IsFiniteSet(Out)
      /\ Cardinality(Out) <= Cardinality(Launched)
      /\ Cardinality(Out) = Cardinality(Launched) => Out = Launched
  BY <1>1, <1>2, FS_Subset
<1>4. Cardinality(Out) \in Nat
  BY <1>3, FS_CardinalityType
<1> QED
  BY <1>2, <1>3, <1>4

\* main enters with every variable of its type.
LEMMA InitType == Init => TypeOK
<1> SUFFICES ASSUME Init PROVE TypeOK
  OBVIOUS
<1>1. nthrd \in Int
  BY MallocBenchAssumption DEF Init, IsCommandLine, nthrd
<1>2. i \in 1..(IF nthrd < 0 THEN 1 ELSE nthrd + 1)
  BY <1>1 DEF Init
<1> QED
  BY <1>2 DEF Init, TypeOK, MainStates, WorkStates, Indices, Launched, Free

\* Every step keeps the types: no index leaves the vector _timers.
LEMMA NextType == TypeOK /\ [Next]_vars => TypeOK'
<1> SUFFICES ASSUME TypeOK, [Next]_vars PROVE TypeOK'
  OBVIOUS
<1>c. /\ nthrd \in Int /\ cmd.num \in Int /\ (nthrd > 0 => Share \in Int)
  BY CmdType
<1>k. Loop \in Nat \ {0}
  BY MallocBenchAssumption
<1> USE DEF TypeOK, Indices, Launched, nthrd, threads, shared
<1>1. CASE Usage
  BY <1>1 DEF Usage, MainStates
<1>2. CASE Begin
  BY <1>2 DEF Begin, MainStates
<1>3. CASE Launch
  BY <1>3, <1>c DEF Launch, WorkStates
<1>4. CASE EndLaunch
  BY <1>4, <1>c DEF EndLaunch, WorkStates, MainStates
<1>5. CASE MainLock
  BY <1>5 DEF MainLock, Acquire, MainStates
<1>6. CASE SetRunning
  BY <1>6, <1>c, OutFinite DEF SetRunning, MainStates, Waiting
<1>7. CASE Test
  BY <1>7 DEF Test, MainStates, Waiting, Joined
<1>8. CASE Block
  BY <1>8 DEF Block, Release, MainStates, Waiting
<1>9. CASE Relock
  BY <1>9 DEF Relock, Acquire, MainStates, Waiting
<1>10. CASE MainUnlock
  BY <1>10 DEF MainUnlock, Release, MainStates, Joined
<1>11. CASE Return
  BY <1>11 DEF Return, MainStates, Joined
<1>12. CASE StopTimer
  BY <1>12, <1>c DEF StopTimer, MainStates, Joined
<1>13. CASE Report
  BY <1>13, <1>c DEF Report
<1>14. CASE Exit
  BY <1>14 DEF Exit, MainStates, Joined
<1>15. CASE SpuriousWakeup
  BY <1>15 DEF SpuriousWakeup, MainStates, Waiting
<1>16. ASSUME NEW t \in Indices, Work(t) PROVE TypeOK'
  <2>1. CASE StartWork(t)
    BY <2>1 DEF StartWork, Goto, LoopHead, WorkStates
  <2>2. CASE MallocBatch(t)
    BY <2>2 DEF MallocBatch, Goto, WorkStates
  <2>3. CASE FreeBatch(t)
    <3>1. left[t] \in Int /\ pairs[t] \in Nat
      OBVIOUS
    <3>2. left[t] - Loop \in Int /\ pairs[t] + Loop \in Nat
      BY <3>1, <1>k
    <3>3. left' \in [Indices' -> Int] /\ pairs' \in [Indices' -> Nat]
      BY <2>3, <3>2 DEF FreeBatch
    <3>4. tpc' \in [Indices' -> WorkStates] /\ held' \in [Indices' -> {0, Loop}]
      BY <2>3 DEF FreeBatch, Goto, LoopHead, WorkStates
    <3> QED
      BY <2>3, <3>3, <3>4 DEF FreeBatch
  <2>4. CASE StopWork(t)
    BY <2>4 DEF StopWork, Goto, WorkStates
  <2>5. CASE WorkLock(t)
    BY <2>5 DEF WorkLock, Goto, Acquire, WorkStates
  <2>6. CASE Decrement(t)
    BY <2>6 DEF Decrement, Goto, WorkStates
  <2>7. CASE Signal(t)
    BY <2>7 DEF Signal, Goto, WorkStates, MainStates, Waiting
  <2>8. CASE WorkUnlock(t)
    BY <2>8 DEF WorkUnlock, Goto, Release, WorkStates
  <2> QED
    BY <1>16, <2>1, <2>2, <2>3, <2>4, <2>5, <2>6, <2>7, <2>8 DEF Work
<1>17. CASE UNCHANGED vars
  BY <1>17 DEF vars
<1> QED
  BY <1>1, <1>2, <1>3, <1>4, <1>5, <1>6, <1>7, <1>8, <1>9, <1>10, <1>11,
     <1>12, <1>13, <1>14, <1>15, <1>16, <1>17 DEF Next, Main

\* The program never leaves its types.
THEOREM TypeCorrect == Spec => []TypeOK
  BY InitType, NextType, PTL DEF Spec

----------------------------------------------------------------------------
(* The parts of the inductive invariant, one lemma each.                   *)

\* Direct mode and thread mode do not mix.
LEMMA ModeNext == TypeOK /\ ModeInv /\ [Next]_vars => ModeInv'
<1> SUFFICES ASSUME TypeOK, ModeInv, [Next]_vars PROVE ModeInv'
  OBVIOUS
<1>c. nthrd \in Int
  BY CmdType
<1> USE DEF TypeOK, Indices, Launched, nthrd, do_threads, threads, shared,
           ModeInv, MainHolds, Waiting, BadArgs
<1>1. CASE Usage
  BY <1>1 DEF Usage
<1>2. CASE Begin
  BY <1>2 DEF Begin
<1>3. CASE Launch
  BY <1>3 DEF Launch
<1>4. CASE EndLaunch
  BY <1>4 DEF EndLaunch
<1>5. CASE MainLock
  BY <1>5 DEF MainLock, Acquire
<1>6. CASE SetRunning
  BY <1>6 DEF SetRunning
<1>7. CASE Test
  BY <1>7 DEF Test
<1>8. CASE Block
  BY <1>8 DEF Block, Release
<1>9. CASE Relock
  BY <1>9 DEF Relock, Acquire
<1>10. CASE MainUnlock
  BY <1>10 DEF MainUnlock, Release
<1>11. CASE Return
  BY <1>11 DEF Return
<1>12. CASE StopTimer
  BY <1>12 DEF StopTimer
<1>13. CASE Report
  BY <1>13 DEF Report
<1>14. CASE Exit
  BY <1>14 DEF Exit
<1>15. CASE SpuriousWakeup
  BY <1>15 DEF SpuriousWakeup
<1>16. ASSUME NEW t \in Indices, Work(t) PROVE ModeInv'
  <2>1. CASE StartWork(t)
    BY <2>1 DEF StartWork, Goto, LoopHead
  <2>2. CASE MallocBatch(t)
    BY <2>2 DEF MallocBatch, Goto
  <2>3. CASE FreeBatch(t)
    BY <2>3 DEF FreeBatch, Goto, LoopHead
  <2>4. CASE StopWork(t)
    BY <2>4 DEF StopWork, Goto
  <2>5. CASE WorkLock(t)
    BY <2>5 DEF WorkLock, Goto, Acquire
  <2>6. CASE Decrement(t)
    BY <2>6 DEF Decrement, Goto
  <2>7. CASE Signal(t)
    BY <2>7 DEF Signal, Goto
  <2>8. CASE WorkUnlock(t)
    BY <2>8 DEF WorkUnlock, Goto, Release
  <2> QED
    BY <1>16, <2>1, <2>2, <2>3, <2>4, <2>5, <2>6, <2>7, <2>8 DEF Work
<1>17. CASE UNCHANGED vars
  BY <1>17 DEF vars
<1> QED
  BY <1>1, <1>2, <1>3, <1>4, <1>5, <1>6, <1>7, <1>8, <1>9, <1>10, <1>11,
     <1>12, <1>13, <1>14, <1>15, <1>16, <1>17 DEF Next, Main

\* No thread runs before it is launched.
LEMMA LaunchNext == TypeOK /\ ModeInv /\ LaunchInv /\ [Next]_vars => LaunchInv'
<1> SUFFICES ASSUME TypeOK, ModeInv, LaunchInv, [Next]_vars PROVE LaunchInv'
  OBVIOUS
<1>c. nthrd \in Int
  BY CmdType
<1> USE DEF TypeOK, Indices, Launched, nthrd, do_threads, threads, shared,
           ModeInv, LaunchInv
<1>1. CASE Usage
  BY <1>1 DEF Usage
<1>2. CASE Begin
  BY <1>2 DEF Begin
<1>3. CASE Launch
  BY <1>3 DEF Launch
<1>4. CASE EndLaunch
  BY <1>4 DEF EndLaunch
<1>5. CASE MainLock
  BY <1>5 DEF MainLock, Acquire
<1>6. CASE SetRunning
  BY <1>6 DEF SetRunning
<1>7. CASE Test
  BY <1>7 DEF Test
<1>8. CASE Block
  BY <1>8 DEF Block, Release
<1>9. CASE Relock
  BY <1>9 DEF Relock, Acquire
<1>10. CASE MainUnlock
  BY <1>10 DEF MainUnlock, Release
<1>11. CASE Return
  BY <1>11 DEF Return
<1>12. CASE StopTimer
  BY <1>12 DEF StopTimer
<1>13. CASE Report
  BY <1>13 DEF Report
<1>14. CASE Exit
  BY <1>14 DEF Exit
<1>15. CASE SpuriousWakeup
  BY <1>15 DEF SpuriousWakeup
<1>16. ASSUME NEW t \in Indices, Work(t) PROVE LaunchInv'
  <2>1. CASE StartWork(t)
    BY <2>1 DEF StartWork, Goto, LoopHead
  <2>2. CASE MallocBatch(t)
    BY <2>2 DEF MallocBatch, Goto
  <2>3. CASE FreeBatch(t)
    BY <2>3 DEF FreeBatch, Goto, LoopHead
  <2>4. CASE StopWork(t)
    BY <2>4 DEF StopWork, Goto
  <2>5. CASE WorkLock(t)
    BY <2>5 DEF WorkLock, Goto, Acquire
  <2>6. CASE Decrement(t)
    BY <2>6 DEF Decrement, Goto
  <2>7. CASE Signal(t)
    BY <2>7 DEF Signal, Goto
  <2>8. CASE WorkUnlock(t)
    BY <2>8 DEF WorkUnlock, Goto, Release
  <2> QED
    BY <1>16, <2>1, <2>2, <2>3, <2>4, <2>5, <2>6, <2>7, <2>8 DEF Work
<1>17. CASE UNCHANGED vars
  BY <1>17 DEF vars
<1> QED
  BY <1>1, <1>2, <1>3, <1>4, <1>5, <1>6, <1>7, <1>8, <1>9, <1>10, <1>11,
     <1>12, <1>13, <1>14, <1>15, <1>16, <1>17 DEF Next, Main

\* _lock is held by one thread, inside its critical section only.
LEMMA LockNext == TypeOK /\ ModeInv /\ LockInv /\ [Next]_vars => LockInv'
<1> SUFFICES ASSUME TypeOK, ModeInv, LockInv, [Next]_vars PROVE LockInv'
  OBVIOUS
<1>c. nthrd \in Int
  BY CmdType
<1> USE DEF TypeOK, Indices, Launched, nthrd, do_threads, threads, shared,
           ModeInv, LockInv, Critical, MainHolds, Waiting, Free
<1>1. CASE Usage
  BY <1>1 DEF Usage
<1>2. CASE Begin
  BY <1>2 DEF Begin
<1>3. CASE Launch
  BY <1>3 DEF Launch
<1>4. CASE EndLaunch
  BY <1>4 DEF EndLaunch
<1>5. CASE MainLock
  BY <1>5 DEF MainLock, Acquire
<1>6. CASE SetRunning
  BY <1>6 DEF SetRunning
<1>7. CASE Test
  BY <1>7 DEF Test
<1>8. CASE Block
  BY <1>8 DEF Block, Release
<1>9. CASE Relock
  BY <1>9 DEF Relock, Acquire
<1>10. CASE MainUnlock
  BY <1>10 DEF MainUnlock, Release
<1>11. CASE Return
  BY <1>11 DEF Return
<1>12. CASE StopTimer
  BY <1>12 DEF StopTimer
<1>13. CASE Report
  BY <1>13 DEF Report
<1>14. CASE Exit
  BY <1>14 DEF Exit
<1>15. CASE SpuriousWakeup
  BY <1>15 DEF SpuriousWakeup
<1>16. ASSUME NEW t \in Indices, Work(t) PROVE LockInv'
  <2>1. CASE StartWork(t)
    BY <2>1 DEF StartWork, Goto, LoopHead
  <2>2. CASE MallocBatch(t)
    BY <2>2 DEF MallocBatch, Goto
  <2>3. CASE FreeBatch(t)
    BY <2>3 DEF FreeBatch, Goto, LoopHead
  <2>4. CASE StopWork(t)
    BY <2>4 DEF StopWork, Goto
  <2>5. CASE WorkLock(t)
    BY <2>5 DEF WorkLock, Goto, Acquire
  <2>6. CASE Decrement(t)
    BY <2>6 DEF Decrement, Goto
  <2>7. CASE Signal(t)
    BY <2>7 DEF Signal, Goto
  <2>8. CASE WorkUnlock(t)
    BY <2>8 DEF WorkUnlock, Goto, Release
  <2> QED
    BY <1>16, <2>1, <2>2, <2>3, <2>4, <2>5, <2>6, <2>7, <2>8 DEF Work
<1>17. CASE UNCHANGED vars
  BY <1>17 DEF vars
<1> QED
  BY <1>1, <1>2, <1>3, <1>4, <1>5, <1>6, <1>7, <1>8, <1>9, <1>10, <1>11,
     <1>12, <1>13, <1>14, <1>15, <1>16, <1>17 DEF Next, Main

\* The timer of a thread is stopped exactly when it has left its loop.
LEMMA TimerNext == TypeOK /\ ModeInv /\ LaunchInv /\ JoinInv /\ TimerInv /\ [Next]_vars => TimerInv'
<1> SUFFICES ASSUME TypeOK, ModeInv, LaunchInv, JoinInv, TimerInv, [Next]_vars PROVE TimerInv'
  OBVIOUS
<1>c. nthrd \in Int
  BY CmdType
<1> USE DEF TypeOK, Indices, Launched, nthrd, do_threads, threads, shared,
           ModeInv, LaunchInv, JoinInv, TimerInv, Stopped, Looping, Joined
<1>1. CASE Usage
  BY <1>1 DEF Usage
<1>2. CASE Begin
  BY <1>2 DEF Begin
<1>3. CASE Launch
  <2>1. i \in Launched /\ tpc[i] = "none" /\ timers[i] # "stopped"
    BY <1>3, <1>c DEF Launch
  <2>2. \A t \in Indices : tpc'[t] = tpc[t] \/ (t = i /\ tpc'[t] = "start")
    BY <1>3 DEF Launch
  <2>3. UNCHANGED <<cmd, mpc, timers>> /\ mpc \notin {"args", "report", "exit", "stop", "unlock"}
    BY <1>3 DEF Launch
  <2> QED
    BY <2>1, <2>2, <2>3
<1>4. CASE EndLaunch
  <2>1. tpc[0] = "none" /\ timers[0] # "stopped"
    BY <1>4 DEF EndLaunch
  <2>2. \A t \in Indices : tpc'[t] = tpc[t] \/ (t = 0 /\ tpc'[t] = "start")
    BY <1>4 DEF EndLaunch
  <2>3. UNCHANGED <<cmd, timers>> /\ mpc = "launch" /\ mpc' \in {"lock", "direct"}
    BY <1>4 DEF EndLaunch
  <2> QED
    BY <2>1, <2>2, <2>3
<1>5. CASE MainLock
  BY <1>5 DEF MainLock, Acquire
<1>6. CASE SetRunning
  BY <1>6 DEF SetRunning
<1>7. CASE Test
  BY <1>7 DEF Test
<1>8. CASE Block
  BY <1>8 DEF Block, Release
<1>9. CASE Relock
  BY <1>9 DEF Relock, Acquire
<1>10. CASE MainUnlock
  BY <1>10 DEF MainUnlock, Release
<1>11. CASE Return
  BY <1>11 DEF Return
<1>12. CASE StopTimer
  BY <1>12 DEF StopTimer
<1>13. CASE Report
  BY <1>13 DEF Report
<1>14. CASE Exit
  BY <1>14 DEF Exit
<1>15. CASE SpuriousWakeup
  BY <1>15 DEF SpuriousWakeup
<1>16. ASSUME NEW t \in Indices, Work(t) PROVE TimerInv'
  <2>1. CASE StartWork(t)
    <3>1. \A u \in Indices : IF u = t THEN tpc'[u] \in {"malloc", "stop"} /\ timers'[u] = "started"
                                       ELSE tpc'[u] = tpc[u] /\ timers'[u] = timers[u]
      BY <2>1 DEF StartWork, Goto, LoopHead
    <3>2. UNCHANGED <<cmd, mpc>> /\ (mpc = "args" => t = 0)
      BY <2>1 DEF StartWork, Goto
    <3> QED
      BY <3>1, <3>2
  <2>2. CASE MallocBatch(t)
    BY <2>2 DEF MallocBatch, Goto
  <2>3. CASE FreeBatch(t)
    <3>1. \A u \in Indices : tpc'[u] = tpc[u] \/ (u = t /\ tpc'[u] \in {"malloc", "stop"})
      BY <2>3 DEF FreeBatch, Goto, LoopHead
    <3>2. UNCHANGED <<cmd, mpc, timers>> /\ tpc[t] = "free"
      BY <2>3 DEF FreeBatch, Goto
    <3> QED
      BY <3>1, <3>2
  <2>4. CASE StopWork(t)
    BY <2>4 DEF StopWork, Goto
  <2>5. CASE WorkLock(t)
    BY <2>5 DEF WorkLock, Goto, Acquire
  <2>6. CASE Decrement(t)
    BY <2>6 DEF Decrement, Goto
  <2>7. CASE Signal(t)
    BY <2>7 DEF Signal, Goto
  <2>8. CASE WorkUnlock(t)
    BY <2>8 DEF WorkUnlock, Goto, Release
  <2> QED
    BY <1>16, <2>1, <2>2, <2>3, <2>4, <2>5, <2>6, <2>7, <2>8 DEF Work
<1>17. CASE UNCHANGED vars
  BY <1>17 DEF vars
<1> QED
  BY <1>1, <1>2, <1>3, <1>4, <1>5, <1>6, <1>7, <1>8, <1>9, <1>10, <1>11,
     <1>12, <1>13, <1>14, <1>15, <1>16, <1>17 DEF Next, Main

\* main leaves its wait only when every thread has counted itself out.
LEMMA JoinNext == TypeOK /\ ModeInv /\ CountInv /\ JoinInv /\ [Next]_vars => JoinInv'
<1> SUFFICES ASSUME TypeOK, ModeInv, CountInv, JoinInv, [Next]_vars PROVE JoinInv'
  OBVIOUS
<1>c. nthrd \in Int
  BY CmdType
<1> USE DEF TypeOK, Indices, Launched, nthrd, do_threads, threads, shared,
           ModeInv, JoinInv, Joined, Waiting, MainHolds
<1>1. CASE Usage
  BY <1>1 DEF Usage
<1>2. CASE Begin
  BY <1>2 DEF Begin
<1>3. CASE Launch
  BY <1>3 DEF Launch
<1>4. CASE EndLaunch
  BY <1>4 DEF EndLaunch
<1>5. CASE MainLock
  BY <1>5 DEF MainLock, Acquire
<1>6. CASE SetRunning
  BY <1>6 DEF SetRunning
<1>7. CASE Test
  <2>1. CASE running > 0
    BY <1>7, <2>1 DEF Test
  <2>2. CASE running <= 0
    <3>1. do_threads /\ mpc' = "unlock" /\ UNCHANGED <<cmd, tpc>>
      BY <1>7, <2>2 DEF Test
    <3>2. running = nthrd - Cardinality(Out) + early /\ nthrd > 0
      BY <1>c, <1>7, <3>1 DEF Test, CountInv, AfterSet, BadArgs
    <3>3. Cardinality(Out) = nthrd
      BY <1>c, <2>2, <3>2, OutFinite
    <3>4. Out = Launched
      BY <1>c, <3>2, <3>3, OutFinite
    <3>5. Out' = Out
      BY <3>1 DEF Out
    <3> QED
      BY <3>1, <3>4, <3>5
  <2> QED
    BY <2>1, <2>2
<1>8. CASE Block
  BY <1>8 DEF Block, Release
<1>9. CASE Relock
  BY <1>9 DEF Relock, Acquire
<1>10. CASE MainUnlock
  BY <1>10 DEF MainUnlock, Out
<1>11. CASE Return
  BY <1>11 DEF Return, Out
<1>12. CASE StopTimer
  BY <1>12 DEF StopTimer, Out
<1>13. CASE Report
  BY <1>13 DEF Report, Out
<1>14. CASE Exit
  BY <1>14 DEF Exit, Out
<1>15. CASE SpuriousWakeup
  BY <1>15 DEF SpuriousWakeup
<1>16. ASSUME NEW t \in Indices, Work(t) PROVE JoinInv'
  <2>1. CASE StartWork(t)
    BY <2>1 DEF StartWork, Goto, LoopHead, Out
  <2>2. CASE MallocBatch(t)
    BY <2>2 DEF MallocBatch, Goto, Out
  <2>3. CASE FreeBatch(t)
    BY <2>3 DEF FreeBatch, Goto, LoopHead, Out
  <2>4. CASE StopWork(t)
    BY <2>4 DEF StopWork, Goto, Out
  <2>5. CASE WorkLock(t)
    BY <2>5 DEF WorkLock, Goto, Out
  <2>6. CASE Decrement(t)
    BY <2>6 DEF Decrement, Goto, Out
  <2>7. CASE Signal(t)
    BY <2>7 DEF Signal, Goto, Out
  <2>8. CASE WorkUnlock(t)
    BY <2>8 DEF WorkUnlock, Goto, Out
  <2> QED
    BY <1>16, <2>1, <2>2, <2>3, <2>4, <2>5, <2>6, <2>7, <2>8 DEF Work
<1>17. CASE UNCHANGED vars
  BY <1>17 DEF vars, Out
<1> QED
  BY <1>1, <1>2, <1>3, <1>4, <1>5, <1>6, <1>7, <1>8, <1>9, <1>10, <1>11,
     <1>12, <1>13, <1>14, <1>15, <1>16, <1>17 DEF Next, Main

\* Every decrement after _running was set takes one thread off the count.
LEMMA CountNext == TypeOK /\ ModeInv /\ CountInv /\ [Next]_vars => CountInv'
<1> SUFFICES ASSUME TypeOK, ModeInv, CountInv, [Next]_vars, do_threads', mpc' \in AfterSet
             PROVE  (running = nthrd - Cardinality(Out) + early)'
  BY DEF CountInv
<1>c. nthrd \in Int /\ running \in Int /\ early \in Int
  BY CmdType DEF TypeOK
<1>f. Cardinality(Out) \in Nat /\ IsFiniteSet(Out)
  BY <1>c, OutFinite
<1>1. CASE SetRunning
  <2>1. UNCHANGED <<cmd, tpc>> /\ running' = nthrd /\ early' = Cardinality(Out)
    BY <1>1 DEF SetRunning, threads
  <2>2. Out' = Out /\ nthrd' = nthrd
    BY <2>1 DEF Out, Launched, nthrd
  <2> QED
    BY <1>c, <1>f, <2>1, <2>2
<1>2. ASSUME NEW t \in Indices, Decrement(t)
      PROVE  (running = nthrd - Cardinality(Out) + early)'
  <2>1. UNCHANGED <<cmd, mpc, early>> /\ running' = running - 1
    BY <1>2 DEF Decrement
  <2>2. running = nthrd - Cardinality(Out) + early
    BY <2>1 DEF CountInv, do_threads
  <2>3. t \in Launched /\ t \notin Out
    BY <1>2, <2>1 DEF Decrement, Goto, ModeInv, do_threads, Indices, Out
  <2>4. Out' = Out \cup {t}
    BY <1>2, <2>1, <2>3 DEF Decrement, Goto, Out, TypeOK, Launched, nthrd, Indices
  <2>5. Cardinality(Out') = Cardinality(Out) + 1
    BY <1>f, <2>3, <2>4, FS_AddElement
  <2> QED
    BY <1>c, <1>f, <2>1, <2>2, <2>5 DEF nthrd
<1>3. ASSUME ~SetRunning, \A t \in Indices : ~Decrement(t)
      PROVE  (running = nthrd - Cardinality(Out) + early)'
  <2> DEFINE Same == /\ UNCHANGED <<cmd, running, early>> /\ mpc \in AfterSet
                     /\ \A t \in Launched : tpc[t] \in {"signal", "unlock", "done"}
                                          <=> tpc'[t] \in {"signal", "unlock", "done"}
  <2>1. Same
    <3> USE DEF AfterSet, Joined, Waiting, threads, shared, TypeOK, Indices, Launched, nthrd
    <3>1. CASE Main
      BY <1>3, <3>1 DEF Main, Usage, Begin, Launch, EndLaunch, MainLock, Test, Block, Relock,
                        MainUnlock, Return, StopTimer, Report, Exit, do_threads, ModeInv
    <3>2. CASE SpuriousWakeup
      BY <3>2 DEF SpuriousWakeup
    <3>3. ASSUME NEW t \in Indices, Work(t) PROVE Same
      <4>1. CASE StartWork(t)
        BY <4>1 DEF StartWork, Goto, LoopHead
      <4>2. CASE MallocBatch(t)
        BY <4>2 DEF MallocBatch, Goto
      <4>3. CASE FreeBatch(t)
        BY <4>3 DEF FreeBatch, Goto, LoopHead
      <4>4. CASE StopWork(t)
        BY <4>4 DEF StopWork, Goto
      <4>5. CASE WorkLock(t)
        BY <4>5 DEF WorkLock, Goto
      <4>6. CASE Signal(t)
        BY <4>6 DEF Signal, Goto
      <4>7. CASE WorkUnlock(t)
        BY <4>7 DEF WorkUnlock, Goto
      <4> QED
        BY <1>3, <3>3, <4>1, <4>2, <4>3, <4>4, <4>5, <4>6, <4>7 DEF Work
    <3>4. CASE UNCHANGED vars
      BY <3>4 DEF vars
    <3> QED
      BY <3>1, <3>2, <3>3, <3>4 DEF Next
  <2>2. Out' = Out /\ nthrd' = nthrd
    BY <2>1 DEF Out, Launched, nthrd
  <2> QED
    BY <2>1, <2>2 DEF CountInv, do_threads
<1> QED
  BY <1>1, <1>2, <1>3


\* main goes to sleep only while somebody is left to wake it.
LEMMA WaitNext == TypeOK /\ ModeInv /\ LockInv /\ WaitInv /\ [Next]_vars => WaitInv'
<1> SUFFICES ASSUME TypeOK, ModeInv, LockInv, WaitInv, [Next]_vars PROVE WaitInv'
  OBVIOUS
<1>c. nthrd \in Int
  BY CmdType
<1> USE DEF TypeOK, Indices, Launched, nthrd, do_threads, threads, shared,
           ModeInv, LockInv, WaitInv, Critical, MainHolds, Waiting
<1>1. CASE Usage
  BY <1>1 DEF Usage
<1>2. CASE Begin
  BY <1>2 DEF Begin
<1>3. CASE Launch
  BY <1>3 DEF Launch
<1>4. CASE EndLaunch
  BY <1>4 DEF EndLaunch
<1>5. CASE MainLock
  BY <1>5 DEF MainLock, Acquire
<1>6. CASE SetRunning
  BY <1>6 DEF SetRunning
<1>7. CASE Test
  BY <1>7 DEF Test
<1>8. CASE Block
  BY <1>8 DEF Block, Release
<1>9. CASE Relock
  BY <1>9 DEF Relock, Acquire
<1>10. CASE MainUnlock
  BY <1>10 DEF MainUnlock, Release
<1>11. CASE Return
  BY <1>11 DEF Return
<1>12. CASE StopTimer
  BY <1>12 DEF StopTimer
<1>13. CASE Report
  BY <1>13 DEF Report
<1>14. CASE Exit
  BY <1>14 DEF Exit
<1>15. CASE SpuriousWakeup
  BY <1>15 DEF SpuriousWakeup
<1>16. ASSUME NEW t \in Indices, Work(t) PROVE WaitInv'
  <2>1. CASE StartWork(t)
    BY <2>1 DEF StartWork, Goto, LoopHead
  <2>2. CASE MallocBatch(t)
    BY <2>2 DEF MallocBatch, Goto
  <2>3. CASE FreeBatch(t)
    BY <2>3 DEF FreeBatch, Goto, LoopHead
  <2>4. CASE StopWork(t)
    BY <2>4 DEF StopWork, Goto
  <2>5. CASE WorkLock(t)
    BY <2>5 DEF WorkLock, Goto, Acquire
  <2>6. CASE Decrement(t)
    BY <2>6 DEF Decrement, Goto
  <2>7. CASE Signal(t)
    BY <2>7 DEF Signal, Goto
  <2>8. CASE WorkUnlock(t)
    BY <2>8 DEF WorkUnlock, Goto, Release
  <2> QED
    BY <1>16, <2>1, <2>2, <2>3, <2>4, <2>5, <2>6, <2>7, <2>8 DEF Work
<1>17. CASE UNCHANGED vars
  BY <1>17 DEF vars
<1> QED
  BY <1>1, <1>2, <1>3, <1>4, <1>5, <1>6, <1>7, <1>8, <1>9, <1>10, <1>11,
     <1>12, <1>13, <1>14, <1>15, <1>16, <1>17 DEF Next, Main

----------------------------------------------------------------------------
(* The inductive invariant and what follows from it.                       *)

\* The program starts with every part of the inductive invariant true.
LEMMA InitIInv == Init => IInv
<1> SUFFICES ASSUME Init PROVE IInv
  OBVIOUS
<1>1. TypeOK
  BY InitType
<1>2. ModeInv /\ LaunchInv
  BY DEF Init, ModeInv, LaunchInv, Indices, MainHolds, Waiting
<1>3. TimerInv /\ LockInv
  BY DEF Init, TimerInv, LockInv, Indices, Launched, Stopped, Looping, Critical, MainHolds
<1>4. CountInv /\ WaitInv /\ JoinInv
  BY DEF Init, CountInv, WaitInv, JoinInv, AfterSet, Joined, Waiting
<1> QED
  BY <1>1, <1>2, <1>3, <1>4 DEF IInv

\* No step of the parent or of a thread breaks the inductive invariant.
LEMMA NextIInv == IInv /\ [Next]_vars => IInv'
  BY NextType, ModeNext, LaunchNext, TimerNext, LockNext, CountNext, WaitNext, JoinNext
     DEF IInv

\* The inductive invariant holds throughout every run of the program.
LEMMA Inductive == Spec => []IInv
  BY InitIInv, NextIInv, PTL DEF Spec

\* A thread that is out has stopped its timer, so that after the wait all have.
LEMMA JoinedFinished ==
  IInv /\ mpc \in Joined => Finished = Obliged /\ Obliged # {} /\ mpc \notin {"args", "usage"}
<1> SUFFICES ASSUME IInv, mpc \in Joined
             PROVE  Finished = Obliged /\ Obliged # {} /\ mpc \notin {"args", "usage"}
  OBVIOUS
<1>1. mpc \notin {"args", "usage"} /\ nthrd \in Int /\ ~BadArgs
  BY CmdType DEF IInv, Joined, ModeInv
<1>2. CASE do_threads
  <2>1. Obliged = Launched /\ Out = Launched /\ 1 \in Launched
    BY <1>1, <1>2 DEF Obliged, IInv, JoinInv, BadArgs, Launched
  <2>2. \A t \in Launched : timers[t] = "stopped"
    BY <2>1 DEF Out, IInv, TimerInv, Stopped, Indices
  <2> QED
    BY <1>1, <2>1, <2>2 DEF Finished
<1>3. CASE ~do_threads
  <2>1. Obliged = {0} /\ timers[0] = "stopped"
    BY <1>1, <1>3 DEF Obliged, IInv, JoinInv, TimerInv, Stopped, Indices
  <2> QED
    BY <1>1, <2>1 DEF Finished
<1> QED
  BY <1>2, <1>3

\* The same of the state after a step.
LEMMA JoinedFinishedNext ==
  (IInv /\ mpc \in Joined => Finished = Obliged /\ Obliged # {} /\ mpc \notin {"args", "usage"})'
  BY JoinedFinished, PTL

\* Whatever main prints after the wait is final.
THEOREM ResultsAreComplete == Spec => []ResultsComplete
<1>1. Init => ResultsComplete
  BY DEF Init, ResultsComplete
<1>2. IInv /\ ResultsComplete /\ [Next]_vars => ResultsComplete'
  <2> SUFFICES ASSUME IInv, ResultsComplete, [Next]_vars PROVE ResultsComplete'
    OBVIOUS
  <2>1. CASE Report
    <3>1. ASSUME do_threads PROVE \A t \in Launched : timers[t] = "stopped"
      BY <2>1, <3>1, JoinedFinished DEF Report, Joined, Finished, Obliged
    <3>2. /\ UNCHANGED cmd /\ report \in [Launched -> {"nothing", "zero", "started", "stopped"}]
          /\ report' = [report EXCEPT ![i] = timers[i]]
      BY <2>1 DEF Report, IInv, TypeOK
    <3> QED
      BY <3>1, <3>2 DEF ResultsComplete, do_threads, Launched, nthrd
  <2>2. CASE UNCHANGED <<cmd, report>>
    BY <2>2 DEF ResultsComplete, do_threads, Launched, nthrd
  <2>3. ~Report => UNCHANGED <<cmd, report>>
    BY DEF Next, Main, vars, Usage, Begin, Launch, EndLaunch, MainLock, SetRunning, Test, Block,
           Relock, MainUnlock, Return, StopTimer, Exit, SpuriousWakeup, Work, StartWork,
           MallocBatch, FreeBatch, StopWork, WorkLock, Decrement, Signal, WorkUnlock
  <2> QED
    BY <2>1, <2>2, <2>3
<1> QED
  BY <1>1, <1>2, Inductive, PTL DEF Spec

\* The wake-up protocol: a wait that nobody ends has an early thread.
THEOREM WakeupIsNotLost == Spec => []NoLostWakeup
<1>1. IInv => NoLostWakeup
  <2> SUFFICES ASSUME IInv, mpc = "wait", Through = Launched PROVE early > 0
    BY DEF NoLostWakeup
  <2>1. do_threads /\ nthrd \in Int /\ running \in Int /\ early \in Int
    BY CmdType DEF IInv, ModeInv, Waiting, TypeOK
  <2>2. Out = Launched /\ running > 0
    BY DEF Through, Out, IInv, WaitInv
  <2>3. running = nthrd - Cardinality(Out) + early
    BY <2>1 DEF IInv, CountInv, AfterSet, Waiting
  <2>4. nthrd > 0
    BY <2>1 DEF IInv, ModeInv, BadArgs
  <2>5. Cardinality(Launched) = nthrd
    <3> DEFINE n == nthrd
    <3>1. n \in Int /\ n > 0
      BY <2>1, <2>4
    <3> HIDE DEF n
    <3>2. Cardinality(1..n) = n
      BY <3>1, FS_Interval
    <3> QED
      BY <3>2 DEF n, Launched
  <2> QED
    BY <2>1, <2>2, <2>3, <2>5
<1> QED
  BY <1>1, Inductive, PTL

----------------------------------------------------------------------------
(* The fork and the join.                                                  *)

\* Most steps are none of ForkJoin's business.
LEMMA StutterStep ==
  ASSUME IInv, UNCHANGED cmd, mpc \in {"args", "usage"} <=> mpc' \in {"args", "usage"},
         mpc \in Joined <=> mpc' \in Joined,
         \A t \in Obliged : timers[t] = "stopped" <=> timers'[t] = "stopped"
  PROVE  UNCHANGED FJ!vars
<1>1. Obliged' = Obliged
  BY DEF Obliged, do_threads, Launched, nthrd
<1>2. Finished' = Finished
  BY <1>1 DEF Finished
<1> QED
  BY <1>1, <1>2 DEF FJ!vars

\* Leaving the wait is the abstract join.
LEMMA JoinStep ==
  ASSUME IInv, IInv', UNCHANGED <<cmd, timers>>, mpc \notin Joined, mpc' \in Joined,
         mpc \notin {"args", "usage"}
  PROVE  FJ!Join
<1>1. Finished' = Obliged' /\ Obliged' # {} /\ mpc' \notin {"args", "usage"}
  BY JoinedFinishedNext
<1>2. Obliged' = Obliged
  BY <1>1 DEF Obliged, do_threads, Launched, nthrd
<1>3. Finished' = Finished
  BY <1>2 DEF Finished
<1> QED
  BY <1>1, <1>2, <1>3 DEF FJ!Join

\* Each step of the program is a step of the fork and join, or is not seen there.
LEMMA ForkJoinStep == IInv /\ IInv' /\ [Next]_vars => [FJ!Next]_FJ!vars
<1> SUFFICES ASSUME IInv, IInv', [Next]_vars PROVE FJ!Next \/ UNCHANGED FJ!vars
  OBVIOUS
<1> USE DEF threads, shared
<1>1. CASE Begin
  <2>1. /\ mpc = "args" /\ mpc' = "launch" /\ ~BadArgs /\ UNCHANGED cmd
        /\ timers' = [timers EXCEPT ![0] = "started"]
    BY <1>1 DEF Begin
  <2>2. Obliged = {} /\ Finished = {} /\ mpc \notin Joined /\ mpc' \notin Joined
    BY <2>1 DEF Obliged, Finished, Joined
  <2>3. Obliged' = IF do_threads THEN Launched ELSE {0}
    BY <2>1 DEF Obliged, do_threads, Launched, nthrd
  <2>4. nthrd \in Int /\ (do_threads => nthrd > 0)
    BY <2>1, CmdType DEF IInv, BadArgs
  <2>5. Obliged' # {} /\ Obliged' \subseteq Int
    BY <2>3, <2>4 DEF Launched
  <2>6. \A t \in Obliged' : timers'[t] # "stopped"
    BY <2>1, <2>3, <2>4 DEF IInv, TimerInv, TypeOK, Indices, Launched
  <2>7. Finished' = {}
    BY <2>6 DEF Finished
  <2> QED
    BY <2>2, <2>5, <2>7 DEF FJ!Next, FJ!Fork
<1>2. CASE Test
  <2>1. CASE mpc' = "unlock"
    BY <1>2, <2>1, JoinStep DEF Test, FJ!Next, Joined
  <2>2. CASE mpc' = "block"
    BY <1>2, <2>2, StutterStep DEF Test, Joined
  <2> QED
    BY <1>2, <2>1, <2>2 DEF Test
<1>3. CASE Return
  BY <1>3, JoinStep DEF Return, FJ!Next, Joined
<1>4. CASE StopTimer
  <2>1. /\ mpc = "stop" /\ mpc' = "report" /\ UNCHANGED cmd
        /\ timers' = [timers EXCEPT ![0] = "stopped"]
    BY <1>4 DEF StopTimer
  <2>2. \A t \in Obliged : timers[t] = "stopped" /\ timers'[t] = "stopped"
    BY <2>1, JoinedFinished DEF Joined, Finished, IInv, TypeOK, Obliged, Indices
  <2> QED
    BY <2>1, <2>2, StutterStep DEF Joined
<1>5. ASSUME NEW t \in Indices, StartWork(t) PROVE UNCHANGED FJ!vars
  <2>1. /\ UNCHANGED <<cmd, mpc>> /\ tpc[t] = "start"
        /\ timers' = [timers EXCEPT ![t] = "started"]
    BY <1>5 DEF StartWork, Goto
  <2>2. t \in Obliged => timers[t] # "stopped"
    <3>1. CASE t \in Launched
      BY <2>1, <3>1 DEF IInv, TimerInv, Looping
    <3>2. CASE t = 0 /\ mpc \in Joined
      BY <2>1, <3>2 DEF IInv, JoinInv, Obliged, Launched
    <3>3. CASE t = 0 /\ mpc \notin Joined
      BY <2>1, <3>3 DEF IInv, TimerInv, Looping
    <3> QED
      BY <3>1, <3>2, <3>3 DEF Indices
  <2>3. \A u \in Obliged : timers[u] = "stopped" <=> timers'[u] = "stopped"
    BY <2>1, <2>2 DEF IInv, TypeOK, Obliged, Indices
  <2> QED
    BY <2>1, <2>3, StutterStep
<1>6. ASSUME NEW t \in Indices, StopWork(t) PROVE FJ!Next \/ UNCHANGED FJ!vars
  <2>1. /\ UNCHANGED <<cmd, mpc>> /\ tpc[t] = "stop"
        /\ timers' = [timers EXCEPT ![t] = "stopped"]
    BY <1>6 DEF StopWork, Goto
  <2>2. CASE t \notin Obliged
    <3>1. \A u \in Obliged : timers[u] = "stopped" <=> timers'[u] = "stopped"
      BY <2>1, <2>2 DEF IInv, TypeOK, Obliged, Indices
    <3> QED
      BY <2>1, <3>1, StutterStep
  <2>3. CASE t \in Obliged
    <3>1. mpc \notin Joined /\ t \notin Finished
      BY <2>1, <2>3 DEF IInv, JoinInv, TimerInv, Looping, Obliged, Out, Finished, Launched, Joined
    <3>2. Obliged' = Obliged
      BY <2>1 DEF Obliged, do_threads, Launched, nthrd
    <3>3. Finished' = Finished \cup {t}
      BY <2>1, <2>3, <3>2 DEF Finished, IInv, TypeOK, Obliged, Indices
    <3> QED
      BY <2>1, <2>3, <3>1, <3>2, <3>3 DEF FJ!Next, FJ!Finish
  <2> QED
    BY <2>2, <2>3
<1>7. ASSUME UNCHANGED <<cmd, timers>>, mpc \in {"args", "usage"} <=> mpc' \in {"args", "usage"},
             mpc \in Joined <=> mpc' \in Joined
      PROVE  UNCHANGED FJ!vars
  BY <1>7, StutterStep
<1>8. CASE Usage \/ Launch \/ EndLaunch \/ MainLock \/ SetRunning \/ Block \/ Relock
           \/ MainUnlock \/ Report \/ Exit \/ SpuriousWakeup \/ UNCHANGED vars
  BY <1>7, <1>8 DEF Usage, Launch, EndLaunch, MainLock, SetRunning, Block, Relock,
                    MainUnlock, Report, Exit, SpuriousWakeup, vars, Joined
<1>9. ASSUME NEW t \in Indices,
             MallocBatch(t) \/ FreeBatch(t) \/ WorkLock(t) \/ Decrement(t) \/ Signal(t)
               \/ WorkUnlock(t)
      PROVE  UNCHANGED FJ!vars
  BY <1>7, <1>9 DEF MallocBatch, FreeBatch, WorkLock, Decrement, Signal, WorkUnlock, Joined
<1> QED
  BY <1>1, <1>2, <1>3, <1>4, <1>5, <1>6, <1>8, <1>9 DEF Next, Main, Work

\* The program implements fork and join: main gets past its wait only when
\* every thread it answers for is finished.
THEOREM Implements == Spec => ForksAndJoins
<1>1. Init => FJ!Init
  BY DEF Init, FJ!Init, Obliged, Finished, Joined
<1> QED
  BY <1>1, ForkJoinStep, Inductive, PTL DEF Spec, ForksAndJoins, FJ!Spec

----------------------------------------------------------------------------
(* The work.                                                               *)

\* The account of a thread t: what it has done and what it has left to do.
Account(t) ==
  /\ tpc[t] = "none" => pairs[t] = 0 /\ held[t] = 0
  /\ tpc[t] # "none" => pairs[t] + left[t] = Asked(t) /\ (Asked(t) > 0 => left[t] > -Loop)
  /\ tpc[t] = "start" => pairs[t] = 0
  /\ tpc[t] # "free" => held[t] = 0
  /\ tpc[t] \in {"malloc", "free"} => left[t] > 0 /\ Asked(t) > 0
  /\ tpc[t] \in {"stop"} \cup Stopped => left[t] <= 0
  /\ Asked(t) <= 0 => pairs[t] = 0

Accounts == \A t \in Indices : Account(t)

\* A step that leaves the work of t alone leaves its account alone, and so
\* does one that only moves t among the states after the loop.
LEMMA SameAccount ==
  ASSUME NEW t \in Indices, TypeOK, Account(t), UNCHANGED <<cmd, left, pairs, held>>,
         \/ tpc'[t] = tpc[t]
         \/ tpc[t] \in {"stop"} \cup Stopped /\ tpc'[t] \in Stopped
  PROVE  Account(t)'
<1>1. UNCHANGED <<left[t], pairs[t], held[t], Asked(t)>>
  BY DEF Asked, Share, nthrd
<1> QED
  BY <1>1 DEF Account, Stopped

\* What a thread has counted and what is left of its share keep adding up.
LEMMA AccountNext == TypeOK /\ ModeInv /\ LaunchInv /\ Accounts /\ [Next]_vars => Accounts'
<1> SUFFICES ASSUME TypeOK, ModeInv, LaunchInv, Accounts, [Next]_vars PROVE Accounts'
  OBVIOUS
<1>c. nthrd \in Int /\ cmd.num \in Int /\ (nthrd > 0 => Share \in Int) /\ Loop \in Nat \ {0}
  BY CmdType, MallocBenchAssumption
<1> USE DEF threads, shared
<1>1. CASE Launch
  <2>1. /\ 1 <= i /\ i <= nthrd /\ i \in Launched /\ tpc[i] = "none"
        /\ UNCHANGED <<cmd, pairs, held>> /\ Indices' = Indices
    BY <1>1, <1>c DEF Launch, LaunchInv, TypeOK, Indices, Launched, nthrd
  <2>2. SUFFICES ASSUME NEW t \in Indices PROVE Account(t)'
    BY <2>1 DEF Accounts
  <2>3. Asked(t)' = Asked(t)
    BY <2>1 DEF Asked, Share, nthrd
  <2>4. CASE tpc'[t] = tpc[t] /\ left'[t] = left[t]
    BY <2>1, <2>3, <2>4 DEF Accounts, Account
  <2>5. CASE t = i /\ tpc'[t] = "start" /\ left'[t] = Share
    <3>1. Asked(t) = Share /\ pairs[t] = 0 /\ held[t] = 0 /\ Share \in Int
      BY <1>c, <2>1, <2>5 DEF Asked, Accounts, Account, Launched
    <3> QED
      BY <1>c, <2>1, <2>3, <2>5, <3>1 DEF Account, Stopped
  <2> QED
    BY <1>1, <2>1, <2>4, <2>5 DEF Launch, TypeOK
<1>2. CASE EndLaunch
  <2>1. /\ mpc = "launch" /\ tpc[0] = "none" /\ UNCHANGED <<cmd, pairs, held>> /\ Indices' = Indices
    BY <1>2 DEF EndLaunch, LaunchInv, Indices, Launched, nthrd
  <2>2. SUFFICES ASSUME NEW t \in Indices PROVE Account(t)'
    BY <2>1 DEF Accounts
  <2>3. Asked(t)' = Asked(t)
    BY <2>1 DEF Asked, Share, nthrd
  <2>4. CASE tpc'[t] = tpc[t] /\ left'[t] = left[t]
    BY <2>1, <2>3, <2>4 DEF Accounts, Account
  <2>5. CASE t = 0 /\ tpc'[t] = "start" /\ left'[t] = cmd.num
    <3>1. Asked(t) = cmd.num /\ pairs[t] = 0 /\ held[t] = 0
      BY <2>1, <2>5 DEF Asked, Accounts, Account
    <3> QED
      BY <1>c, <2>1, <2>3, <2>5, <3>1 DEF Account, Stopped
  <2> QED
    BY <1>2, <2>1, <2>4, <2>5 DEF EndLaunch, TypeOK
<1>3. ASSUME UNCHANGED <<cmd, threads>> PROVE Accounts'
  <2>1. Indices' = Indices
    BY <1>3 DEF Indices, Launched, nthrd
  <2> QED
    BY <1>3, <2>1, SameAccount DEF Accounts
<1>4. ASSUME NEW t \in Indices, Work(t) PROVE Accounts'
  <2>1. UNCHANGED cmd /\ Indices' = Indices
    BY <1>4 DEF Work, StartWork, MallocBatch, FreeBatch, StopWork, WorkLock, Decrement, Signal,
                WorkUnlock, Indices, Launched, nthrd
  <2>2. Asked(t)' = Asked(t) /\ Account(t)
    BY <2>1 DEF Asked, Share, nthrd, Accounts
  <2>3. ASSUME NEW u \in Indices, u # t PROVE Account(u)'
    <3>1. tpc'[u] = tpc[u] /\ left'[u] = left[u] /\ pairs'[u] = pairs[u] /\ held'[u] = held[u]
      BY <1>4, <2>3 DEF Work, StartWork, MallocBatch, FreeBatch, StopWork, WorkLock, Decrement,
                        Signal, WorkUnlock, Goto, TypeOK
    <3>2. Asked(u)' = Asked(u)
      BY <2>1 DEF Asked, Share, nthrd
    <3> QED
      BY <3>1, <3>2 DEF Accounts, Account
  <2>4. left[t] \in Int /\ pairs[t] \in Nat /\ t \in DOMAIN tpc /\ t \in DOMAIN left
        /\ t \in DOMAIN pairs /\ t \in DOMAIN held
    BY DEF TypeOK
  <2>5. Account(t)'
    <3>1. CASE StartWork(t)
      BY <2>2, <2>4, <3>1 DEF StartWork, Goto, LoopHead, Account, Stopped
    <3>2. CASE MallocBatch(t)
      BY <2>2, <2>4, <3>2 DEF MallocBatch, Goto, Account, Stopped
    <3>3. CASE FreeBatch(t)
      <4>1. /\ left'[t] = left[t] - Loop /\ pairs'[t] = pairs[t] + Loop /\ held'[t] = 0
            /\ tpc'[t] = IF left'[t] > 0 THEN "malloc" ELSE "stop"
            /\ tpc[t] = "free"
        BY <2>4, <3>3 DEF FreeBatch, Goto, LoopHead
      <4>2. left[t] > 0 /\ Asked(t) > 0 /\ pairs[t] + left[t] = Asked(t)
        BY <2>2, <4>1 DEF Account
      <4>3. left'[t] > -Loop /\ pairs'[t] + left'[t] = Asked(t)
        BY <1>c, <2>4, <4>1, <4>2
      <4>4. left'[t] \in Int /\ Asked(t) \in Int
        BY <1>c, <2>4, <4>1, <4>2
      <4> QED
        BY <2>2, <4>1, <4>2, <4>3, <4>4 DEF Account, Stopped
    <3>4. CASE StopWork(t)
      BY <2>4, <2>2, <3>4, SameAccount DEF StopWork, Goto, Stopped
    <3>5. CASE WorkLock(t)
      BY <2>4, <2>2, <3>5, SameAccount DEF WorkLock, Goto, Stopped
    <3>6. CASE Decrement(t)
      BY <2>4, <2>2, <3>6, SameAccount DEF Decrement, Goto, Stopped
    <3>7. CASE Signal(t)
      BY <2>4, <2>2, <3>7, SameAccount DEF Signal, Goto, Stopped
    <3>8. CASE WorkUnlock(t)
      BY <2>4, <2>2, <3>8, SameAccount DEF WorkUnlock, Goto, Stopped
    <3> QED
      BY <1>4, <3>1, <3>2, <3>3, <3>4, <3>5, <3>6, <3>7, <3>8 DEF Work
  <2> QED
    BY <2>1, <2>3, <2>5 DEF Accounts
<1>5. CASE UNCHANGED vars
  BY <1>3, <1>5 DEF vars
<1> QED
  BY <1>1, <1>2, <1>3, <1>4, <1>5 DEF Next, Main, Usage, Begin, MainLock, SetRunning, Test,
     Block, Relock, MainUnlock, Return, StopTimer, Report, Exit, SpuriousWakeup

\* Every thread that leaves its loop has done its share, up to the end of a
\* batch, and has freed what it allocated.
THEOREM WorkIsDone == Spec => []WorkDone
<1>1. Init => Accounts
  BY DEF Init, Accounts, Account, Stopped, Indices
<1>2. TypeOK /\ Accounts => WorkDone
  <2> SUFFICES ASSUME TypeOK, Accounts, NEW t \in Indices,
                      tpc[t] \notin {"none", "start", "malloc", "free"}
               PROVE  /\ held[t] = 0
                      /\ IF Asked(t) <= 0 THEN pairs[t] = 0
                         ELSE pairs[t] >= Asked(t) /\ pairs[t] < Asked(t) + Loop
    BY DEF WorkDone
  <2>1. tpc[t] \in {"stop"} \cup Stopped /\ left[t] \in Int /\ pairs[t] \in Nat
    BY DEF TypeOK, WorkStates, Stopped
  <2>2. /\ held[t] = 0 /\ left[t] <= 0 /\ pairs[t] + left[t] = Asked(t)
        /\ Asked(t) <= 0 => pairs[t] = 0
        /\ Asked(t) > 0 => left[t] > -Loop
    BY <2>1 DEF Accounts, Account, Stopped
  <2>3. Asked(t) \in Int /\ Loop \in Nat
    BY <2>1, <2>2, MallocBenchAssumption
  <2> QED
    BY <2>1, <2>2, <2>3
<1>3. IInv /\ Accounts /\ [Next]_vars => Accounts'
  BY AccountNext DEF IInv
<1> QED
  BY <1>1, <1>2, <1>3, Inductive, TypeCorrect, PTL DEF Spec

============================================================================
