--------------------------- MODULE PerfmonProofs ---------------------------
(***************************************************************************)
(* Theorems about Perfmon: types, that no reading lies behind the end of   *)
(* buf, and what each reading is, for any numbers of runs and events.      *)
(***************************************************************************)
EXTENDS Perfmon, TLAPS

Places ==
  {"args", "malloc", "setup", "stamp", "start", "stop", "read", "reset", "restart",
   "command", "laststop", "lastread", "laststamp", "report", "end", "failure"}

\* Where the arguments have been checked, and where buf has been allocated.
Checked   == Places \ {"args", "failure"}
Allocated == Checked \ {"malloc"}

\* The loop variable is below loops in the body of the loop, and the readings
\* so far are those of the runs before.
LoopInv ==
  /\ request \in Checked => loops \in 1..MaxLoops
  /\ request \in {"args", "malloc", "setup", "stamp", "start"} => i = 0 /\ buf = << >>
  /\ request \in {"stop", "read", "reset", "restart", "command"} => i < loops
  /\ request \in {"laststop", "lastread", "laststamp", "report", "end"} => i = loops
  /\ \A k \in DOMAIN buf : k <= i

\* buf has one element more than there are runs, unless its size wraps around;
\* a program that has failed may have made readings, too.
SlotsInv ==
  /\ request \in Allocated /\ (loops + 1) * QuadSize < SizeMod => slots = loops + 1
  /\ ReadingsFit

\* Where buf holds the readings up to the one before the current run, and
\* where the counter shows the events of the last run.
Unread == {"args", "malloc", "setup", "stamp", "start", "stop", "read", "laststop", "lastread"}
Fresh  == {"stop", "read", "laststop", "lastread"}

\* Each reading but the first is what its run has caused: the counter begins
\* every run with 0.
ReadingInv ==
  /\ DOMAIN ran = 1..i
  /\ \A k \in 1..i : ran[k] \in Nat
  /\ request # "failure" => DOMAIN buf = IF request \in Unread THEN 0..(i - 1) ELSE 0..i
  /\ \A k \in DOMAIN buf : k > 0 => buf[k] = ran[k]
  /\ request \in Fresh /\ i > 0 => counter.value = ran[i]
  /\ request \in {"restart", "command"} => counter.value = 0
  /\ request = "command" => counter.counts

\* Each run of the command takes some time, and nothing else does.
ClockInv ==
  /\ clock = i /\ then = 0
  /\ request \in {"report", "end"} => now = i

TotalInv == request = "end" => total = Added([k \in 1..loops |-> buf[k]])

IInv == PerfmonTypeOK /\ LoopInv /\ SlotsInv /\ ReadingInv /\ ClockInv /\ TotalInv

\* What malloc is asked for, as long as it does not wrap around.
LEMMA AskedFor ==
  ASSUME NEW n \in Nat, (n + 1) * QuadSize < SizeMod
  PROVE  (((n + 1) * QuadSize) % SizeMod) \div QuadSize = n + 1
<1>1. QuadSize \in Nat \ {0} /\ SizeMod \in Nat \ {0}
  BY PerfmonAssumption
<1> DEFINE product == (n + 1) * QuadSize
<1>2. product \in Nat /\ product < SizeMod
  BY <1>1
<1>3. product % SizeMod = product
  BY <1>1, <1>2
<1>4. product \div QuadSize = n + 1
  BY <1>1
<1> QED
  BY <1>3, <1>4

\* Whatever malloc is asked for, there is a number of elements that fit.
LEMMA SlotsType ==
  ASSUME NEW n \in Nat
  PROVE  (((n + 1) * QuadSize) % SizeMod) \div QuadSize \in Nat
<1>1. QuadSize \in Nat \ {0} /\ SizeMod \in Nat \ {0}
  BY PerfmonAssumption
<1>2. (n + 1) * QuadSize \in Nat
  BY <1>1
<1>3. ASSUME NEW m \in Nat PROVE m % SizeMod \in Nat /\ m \div QuadSize \in Nat
  BY <1>1
<1> QED
  BY <1>2, <1>3

LEMMA InitIInv == PerfmonInit => IInv
<1> SUFFICES ASSUME PerfmonInit PROVE IInv
  OBVIOUS
<1>1. /\ request = "args" /\ i = 0 /\ slots = 0 /\ buf = << >> /\ ran = << >>
      /\ clock = 0 /\ then = 0 /\ now = 0
  BY DEF PerfmonInit
<1>2. counter \in [value : Nat, counts : BOOLEAN]
  <2>1. counter \in [value : 0..MaxOld, counts : {FALSE}] /\ MaxOld \in Nat
    BY PerfmonAssumption DEF PerfmonInit
  <2>2. 0..MaxOld \subseteq Nat /\ {FALSE} \subseteq BOOLEAN
    BY <2>1
  <2> QED
    BY <2>1, <2>2
<1>3. DOMAIN buf = {} /\ DOMAIN ran = {}
  BY <1>1
<1>4. PerfmonTypeOK
  BY <1>1, <1>2, <1>3 DEF PerfmonInit, PerfmonTypeOK
<1> QED
  BY <1>1, <1>3, <1>4
  DEF IInv, LoopInv, SlotsInv, ReadingInv, ClockInv, TotalInv, Places, Checked, Allocated,
    Unread, Fresh, ReadingsFit

LEMMA StepIInv == IInv /\ [PerfmonNext]_perfmonVars => IInv'
<1> SUFFICES ASSUME IInv, [PerfmonNext]_perfmonVars PROVE IInv'
  OBVIOUS
<1> USE PerfmonAssumption
    DEF IInv, PerfmonTypeOK, LoopInv, SlotsInv, ReadingInv, ClockInv, TotalInv, Places, Checked,
        Allocated, Unread, Fresh, AfterRequest, ReadingsFit
<1>1. CASE GetNum
  BY <1>1 DEF GetNum
<1>2. CASE GiveUp
  BY <1>2 DEF GiveUp
<1>3. CASE Malloc
  <2>1. PerfmonTypeOK'
    <3>1. loops \in Nat
      BY <1>3 DEF Malloc
    <3>2. slots' \in Nat
      BY <1>3, <3>1, SlotsType DEF Malloc
    <3> QED
      BY <1>3, <3>2 DEF Malloc
  <2>2. LoopInv'
    BY <1>3, AskedFor DEF Malloc
  <2>3. SlotsInv'
    BY <1>3, AskedFor DEF Malloc
  <2>4. ReadingInv'
    BY <1>3, AskedFor DEF Malloc
  <2>5. ClockInv' /\ TotalInv'
    BY <1>3, AskedFor DEF Malloc
  <2> QED
    BY <2>1, <2>2, <2>3, <2>4, <2>5 DEF IInv
<1>4. CASE Fail
  BY <1>4 DEF Fail
<1>5. CASE Setup
  BY <1>5 DEF Setup
<1>6. CASE Stamp
  BY <1>6 DEF Stamp
<1>7. CASE Start("start", LoopHead(0))
  <2>1. PerfmonTypeOK'
    BY <1>7 DEF Start, LoopHead
  <2>2. LoopInv'
    BY <1>7 DEF Start, LoopHead
  <2>3. SlotsInv'
    BY <1>7 DEF Start, LoopHead
  <2>4. ReadingInv'
    BY <1>7 DEF Start, LoopHead
  <2>5. ClockInv' /\ TotalInv'
    BY <1>7 DEF Start, LoopHead
  <2> QED
    BY <2>1, <2>2, <2>3, <2>4, <2>5 DEF IInv
<1>8. CASE Stop("stop", "read")
  BY <1>8 DEF Stop
<1>9. CASE ReadCounter("read", "reset")
  BY <1>9 DEF ReadCounter
<1>10. CASE Reset
  BY <1>10 DEF Reset
<1>11. CASE Start("restart", "command")
  BY <1>11 DEF Start
<1>12. CASE Command
  <2>0. PICK e \in 0..MaxEvents :
          /\ counter' = [counter EXCEPT !.value = IF counter.counts THEN @ + e ELSE @]
          /\ ran' = [k \in DOMAIN ran \cup {i + 1} |-> IF k = i + 1 THEN e ELSE ran[k]]
    BY <1>12 DEF Command
  <2> e \in Nat
    BY <2>0
  <2>1. PerfmonTypeOK'
    <3>0. counter.counts /\ counter.value \in Nat
      BY <1>12 DEF Command
    <3>1. counter' = [counter EXCEPT !.value = counter.value + e]
      BY <2>0, <3>0
    <3>2. counter' \in [value : Nat, counts : BOOLEAN]
      <4>1. counter.value + e \in Nat
        BY <3>0
      <4> QED
        BY <3>1, <4>1
    <3> QED
      BY <1>12, <3>2 DEF Command, LoopHead
  <2>2. LoopInv'
    BY <1>12 DEF Command, LoopHead
  <2>3. SlotsInv'
    BY <1>12 DEF Command, LoopHead
  <2>4. ReadingInv'
    <3>1. DOMAIN ran' = 1..i' /\ \A k \in 1..i' : ran'[k] \in Nat
      <4>1. i \in Nat /\ i' = i + 1
        BY <1>12 DEF Command
      <4>2. (1..i) \cup {i + 1} = 1..(i + 1)
        BY <4>1
      <4>3. ran' = [k \in 1..(i + 1) |-> IF k = i + 1 THEN e ELSE ran[k]]
        BY <2>0, <4>2
      <4> QED
        BY <4>1, <4>3
    <3>2. DOMAIN buf' = 0..(i' - 1)
      BY <1>12 DEF Command
    <3>3. \A k \in DOMAIN buf' : k > 0 => buf'[k] = ran'[k]
      BY <1>12, <2>0 DEF Command
    <3>4. counter'.value = ran'[i']
      BY <1>12, <2>0 DEF Command
    <3>5. request' \in {"stop", "laststop"}
      BY <1>12 DEF Command, LoopHead
    <3> QED
      BY <3>1, <3>2, <3>3, <3>4, <3>5
  <2>5. ClockInv' /\ TotalInv'
    BY <1>12 DEF Command, LoopHead
  <2> QED
    BY <2>1, <2>2, <2>3, <2>4, <2>5 DEF IInv
<1>13. CASE Stop("laststop", "lastread")
  BY <1>13 DEF Stop
<1>14. CASE ReadCounter("lastread", "laststamp")
  BY <1>14 DEF ReadCounter
<1>15. CASE LastStamp
  BY <1>15 DEF LastStamp
<1>16. CASE Report
  BY <1>16 DEF Report
<1>17. CASE UNCHANGED perfmonVars
  BY <1>17 DEF perfmonVars
<1> QED
  BY <1>1, <1>2, <1>3, <1>4, <1>5, <1>6, <1>7, <1>8, <1>9, <1>10, <1>11, <1>12, <1>13,
     <1>14, <1>15, <1>16, <1>17 DEF PerfmonNext

LEMMA SpecIInv == PerfmonSpec => []IInv
BY InitIInv, StepIInv, PTL DEF PerfmonSpec

\* The program's variables and the counter keep their types.
THEOREM TypeCorrect == PerfmonSpec => []PerfmonTypeOK
<1>1. IInv => PerfmonTypeOK
  BY DEF IInv
<1> QED
  BY <1>1, SpecIInv, PTL

\* perfmon.c: the reading after the loop has its place in buf too, whenever
\* the size of buf does not wrap around.
THEOREM ReadingsHavePlaces == PerfmonSpec => []ReadingsFit
<1>1. IInv => ReadingsFit
  BY DEF IInv, SlotsInv
<1> QED
  BY <1>1, SpecIInv, PTL

\* perfmon.c: at the end there is one reading per run, each of what that run
\* has caused, and the total and the time are theirs.
THEOREM ReportIsComplete == PerfmonSpec => []ReportComplete
<1>1. IInv => ReportComplete
  <2> SUFFICES ASSUME IInv, request = "end"
               PROVE  /\ DOMAIN ran = 1..loops
                      /\ \A k \in 1..loops : buf[k] = ran[k]
                      /\ total = Added([k \in 1..loops |-> ran[k]])
                      /\ now - then = loops
    BY DEF ReportComplete
  <2>1. i = loops /\ loops \in 1..MaxLoops /\ DOMAIN ran = 1..loops
    BY DEF IInv, LoopInv, ReadingInv, Places, Checked
  <2>2. DOMAIN buf = 0..loops
    BY <2>1 DEF IInv, ReadingInv, Unread
  <2>3. \A k \in 1..loops : buf[k] = ran[k]
    BY <2>1, <2>2 DEF IInv, ReadingInv
  <2>4. [k \in 1..loops |-> buf[k]] = [k \in 1..loops |-> ran[k]]
    BY <2>3
  <2>5. total = Added([k \in 1..loops |-> ran[k]])
    BY <2>4 DEF IInv, TotalInv
  <2>6. now - then = loops
    BY <2>1 DEF IInv, ClockInv
  <2> QED
    BY <2>1, <2>3, <2>5, <2>6
<1> QED
  BY <1>1, SpecIInv, PTL
============================================================================
