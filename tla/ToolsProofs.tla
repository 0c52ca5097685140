---------------------------- MODULE ToolsProofs ----------------------------
(***************************************************************************)
(* Theorems about the programs that consist of one file: suspend.c, for    *)
(* any number of keys, and the tools that compute one result from their    *)
(* input, for any input and any sizes.                                     *)
(*                                                                         *)
(* A tool is a loop over a sequence, which its module writes as a          *)
(* recursive function of the number of rounds.  The first part shows that  *)
(* such a function exists, and induction over its rounds; then comes, for  *)
(* each tool, what its state is after a number of rounds, that one round   *)
(* keeps that, and what its output is.                                     *)
(***************************************************************************)
EXTENDS Suspend, Tools, FunctionTheorems, FiniteSetTheorems, SequenceTheorems,
        WellFoundedInduction, TLAPS

----------------------------------------------------------------------------
(* suspend.c                                                               *)

MainPlaces == {"create1", "create2", "get1", "sayS", "sayingS", "suspend", "get2", "sayR",
               "sayingR", "resume", "failed"}
BgPlaces   == {"none", "sleeping", "put", "putting"}

\* doing is a function of the threads.
PcInv == doing \in [Threads -> MainPlaces \cup BgPlaces]

\* Where bg1 runs, and where main owes an answer to the last key.
Running  == {"create1", "create2", "get1", "sayS", "sayingS", "suspend", "failed"}
Answered == {"create1", "create2", "get1", "get2"}

\* bg1 is suspended between the two halves of main's loop, after an odd number
\* of toggles; the number of keys read is that of the toggles, and one more
\* while main acts on a key.
KeysInv ==
  /\ read <= typed
  /\ suspended <=> toggles % 2 = 1
  /\ suspended <=> doing["main"] \notin Running
  /\ read = IF doing["main"] \in Answered THEN toggles ELSE toggles + 1

IInv == PcInv /\ SuspendTypeOK /\ KeysInv

LEMMA InitIInv == SuspendInit => IInv
<1> SUFFICES ASSUME SuspendInit PROVE IInv
  OBVIOUS
<1>1. PcInv
  BY DEF SuspendInit, PcInv, MainPlaces, BgPlaces, Threads, Bgs
<1>2. doing["main"] = "create1" /\ \A b \in Bgs : doing[b] = "none"
  BY DEF SuspendInit, Bgs
<1>3. holder = "nobody" /\ ~suspended /\ suspended \in BOOLEAN /\ typed = 0 /\ read = 0 /\ toggles = 0
  BY DEF SuspendInit
<1>4. SuspendTypeOK
  BY <1>2, <1>3, SuspendAssumption DEF SuspendTypeOK
<1>5. 0 % 2 = 0
  OBVIOUS
<1>6. KeysInv
  BY <1>2, <1>3, <1>5 DEF KeysInv, Running, Answered
<1> QED
  BY <1>1, <1>4, <1>6 DEF IInv

\* A toggle changes the parity.
LEMMA Parity ==
  ASSUME NEW n \in Nat
  PROVE  (n + 1) % 2 = 1 <=> ~(n % 2 = 1)
OBVIOUS

LEMMA StepIInv == IInv /\ [SuspendNext]_suspendVars => IInv'
<1> SUFFICES ASSUME IInv, [SuspendNext]_suspendVars PROVE IInv'
  OBVIOUS
<1> USE SuspendAssumption DEF IInv, PcInv, MainPlaces, BgPlaces, Threads, Bgs
<1>1. CASE Type
  BY <1>1 DEF Type, SuspendTypeOK, KeysInv
<1>2. ASSUME NEW b \in Bgs, Bg(b) PROVE IInv'
  <2>1. CASE Wake(b)
    BY <1>2, <2>1 DEF Wake, Does, Runs, SuspendTypeOK, KeysInv
  <2>2. CASE LockStdout(b, "put", "putting")
    BY <1>2, <2>2 DEF LockStdout, Does, Runs, SuspendTypeOK, KeysInv
  <2>3. CASE UnlockStdout(b, "putting", "sleeping")
    BY <1>2, <2>3 DEF UnlockStdout, Does, Runs, SuspendTypeOK, KeysInv
  <2> QED
    BY <1>2, <2>1, <2>2, <2>3 DEF Bg
<1>3. ASSUME MainThread PROVE IInv'
  <2>1. CASE Create("bg1", "create1", "create2")
    BY <2>1 DEF Create, SuspendTypeOK, KeysInv, Running, Answered
  <2>2. CASE Create("bg2", "create2", "get1")
    BY <2>2 DEF Create, SuspendTypeOK, KeysInv, Running, Answered
  <2>3. CASE GetChar("get1", "sayS")
    BY <2>3 DEF GetChar, Does, Runs, SuspendTypeOK, KeysInv, Running, Answered
  <2>4. CASE LockStdout("main", "sayS", "sayingS")
    BY <2>4 DEF LockStdout, Does, Runs, SuspendTypeOK, KeysInv, Running, Answered
  <2>5. CASE UnlockStdout("main", "sayingS", "suspend")
    BY <2>5 DEF UnlockStdout, Does, Runs, SuspendTypeOK, KeysInv, Running, Answered
  <2>6. CASE SuspendBg1
    <3>1. CASE doing["bg1"] = "none"
      BY <2>6, <3>1 DEF SuspendBg1, Does, Runs, SuspendTypeOK, KeysInv, Running, Answered
    <3>2. CASE doing["bg1"] # "none"
      <4>1. toggles' % 2 = 1 /\ suspended' /\ toggles' = toggles + 1 /\ toggles' = read'
        BY <2>6, <3>2, Parity DEF SuspendBg1, Does, Runs, SuspendTypeOK, KeysInv, Running, Answered
      <4> QED
        BY <2>6, <3>2, <4>1 DEF SuspendBg1, Does, Runs, SuspendTypeOK, KeysInv, Running, Answered
    <3> QED
      BY <3>1, <3>2
  <2>7. CASE GetChar("get2", "sayR")
    BY <2>7 DEF GetChar, Does, Runs, SuspendTypeOK, KeysInv, Running, Answered
  <2>8. CASE LockStdout("main", "sayR", "sayingR")
    BY <2>8 DEF LockStdout, Does, Runs, SuspendTypeOK, KeysInv, Running, Answered
  <2>9. CASE UnlockStdout("main", "sayingR", "resume")
    BY <2>9 DEF UnlockStdout, Does, Runs, SuspendTypeOK, KeysInv, Running, Answered
  <2>10. CASE ResumeBg1
    <3>1. toggles' % 2 # 1 /\ ~suspended' /\ toggles' = toggles + 1 /\ toggles' = read'
      BY <2>10, Parity DEF ResumeBg1, Does, Runs, SuspendTypeOK, KeysInv, Running, Answered
    <3> QED
      BY <2>10, <3>1 DEF ResumeBg1, Does, Runs, SuspendTypeOK, KeysInv, Running, Answered
  <2> QED
    BY <1>3, <2>1, <2>2, <2>3, <2>4, <2>5, <2>6, <2>7, <2>8, <2>9, <2>10 DEF MainThread
<1>4. CASE UNCHANGED suspendVars
  BY <1>4 DEF suspendVars, SuspendTypeOK, KeysInv
<1> QED
  BY <1>1, <1>2, <1>3, <1>4 DEF SuspendNext

LEMMA SpecIInv == SuspendSpec => []IInv
BY InitIInv, StepIInv, PTL DEF SuspendSpec

\* The threads, the lock of stdout and the counts keep their types, however
\* many keys are typed.
THEOREM TypeCorrect == SuspendSpec => []SuspendTypeOK
<1>1. IInv => SuspendTypeOK
  BY DEF IInv
<1> QED
  BY <1>1, SpecIInv, PTL

\* suspend.c: each key that main acts on toggles bg1 once, and bg1 stands
\* still exactly between the two halves of main's loop.
THEOREM TogglesKeepStep == SuspendSpec => []TogglesInStep
<1>1. IInv => TogglesInStep
  BY DEF IInv, KeysInv, SuspendTypeOK, TogglesInStep, Answered
<1> QED
  BY <1>1, SpecIInv, PTL

----------------------------------------------------------------------------
(* Numbers and loops.                                                      *)

\* A set of numbers has a smallest one.
LEMMA Smallest ==
  ASSUME NEW S \in SUBSET Nat, S # {}
  PROVE  \E m \in S : \A n \in S : m <= n
<1> DEFINE below == {0..n : n \in S}
<1>1. below \subseteq FiniteSubsetsOf(Nat)
  <2>1. \A n \in Nat : 0..n \in SUBSET Nat /\ IsFiniteSet(0..n)
    BY FS_Interval
  <2> QED
    BY <2>1 DEF FiniteSubsetsOf
<1>2. below # {}
  OBVIOUS
<1>3. IsWellFoundedOn(StrictSubsetOrdering(Nat), FiniteSubsetsOf(Nat))
  BY FS_StrictSubsetOrderingWellFounded
<1> HIDE DEF below
<1>4. PICK x \in below : \A y \in below : ~(<<y, x>> \in StrictSubsetOrdering(Nat))
  BY <1>1, <1>2, <1>3, WFMin
<1>5. PICK m \in S : x = 0..m
  BY DEF below
<1>6. ASSUME NEW n \in S, n < m PROVE FALSE
  <2>1. 0..n \in below
    BY DEF below
  <2>2. 0..n \subseteq 0..m /\ 0..n # 0..m /\ 0..n \subseteq Nat /\ 0..m \subseteq Nat
    <3>1. m \in 0..m /\ m \notin 0..n
      BY <1>6
    <3> QED
      BY <1>6, <3>1
  <2> QED
    BY <1>4, <1>5, <2>1, <2>2 DEF StrictSubsetOrdering
<1> QED
  BY <1>6

\* Induction up to N, with the statement as the set of the numbers it is true of.
LEMMA Induction ==
  ASSUME NEW N \in Nat, NEW P, 0 \in P,
         \A n \in 1..N : n - 1 \in P => n \in P
  PROVE  \A n \in 0..N : n \in P
<1> DEFINE not == {n \in 0..N : n \notin P}
<1> SUFFICES ASSUME not # {} PROVE FALSE
  OBVIOUS
<1>1. PICK m \in not : \A n \in not : m <= n
  <2>1. not \in SUBSET Nat
    OBVIOUS
  <2> HIDE DEF not
  <2> QED
    BY <2>1, Smallest
<1>2. m \in 1..N /\ m - 1 \in 0..N
  BY <1>1
<1>3. m - 1 \in P
  BY <1>1, <1>2
<1> QED
  BY <1>1, <1>2, <1>3

\* There is a record of all the rounds of a loop: what a function that is
\* defined by recursion over 0..N is.
IsLoop(f, N, S, first, step) ==
  /\ f \in [0..N -> S] /\ f[0] = first
  /\ \A n \in 1..N : f[n] = step[<<n, f[n - 1]>>]

LEMMA Loop ==
  ASSUME NEW N \in Nat, NEW S, NEW first \in S, NEW step \in [(1..N) \X S -> S]
  PROVE  \E f : IsLoop(f, N, S, first, step)
<1> DEFINE Is(f, n) == f \in [0..n -> S] /\ f[0] = first
                       /\ \A k \in 1..n : f[k] = step[<<k, f[k - 1]>>]
           P == {n \in 0..N : \E f : Is(f, n)}
<1>1. 0 \in P
  <2>1. Is([k \in 0..0 |-> first], 0)
    OBVIOUS
  <2> HIDE DEF Is
  <2> QED
    BY <2>1
<1>2. ASSUME NEW n \in 1..N, n - 1 \in P PROVE n \in P
  <2>1. PICK f : Is(f, n - 1)
    BY <1>2
  <2> DEFINE g == [k \in 0..n |-> IF k = n THEN step[<<n, f[n - 1]>>] ELSE f[k]]
  <2>2. f[n - 1] \in S /\ step[<<n, f[n - 1]>>] \in S
    BY <2>1
  <2>3. \A k \in 0..n : k # n => k \in 0..(n - 1)
    OBVIOUS
  <2>4. g \in [0..n -> S] /\ g[0] = first
    BY <2>1, <2>2, <2>3
  <2>5. ASSUME NEW k \in 1..n PROVE g[k] = step[<<k, g[k - 1]>>]
    <3>1. k - 1 \in 0..n /\ k - 1 # n
      OBVIOUS
    <3>2. g[k - 1] = f[k - 1]
      BY <3>1
    <3>3. CASE k = n
      <4>1. g[n] = step[<<n, f[n - 1]>>]
        OBVIOUS
      <4> QED
        BY <3>2, <3>3, <4>1
    <3>4. CASE k # n
      BY <2>1, <3>2, <3>4
    <3> QED
      BY <3>3, <3>4
  <2>6. Is(g, n)
    BY <2>4, <2>5
  <2> HIDE DEF Is
  <2> QED
    BY <2>6
<1>3. N \in P
  <2> HIDE DEF P
  <2> QED
    BY <1>1, <1>2, Induction
<1>4. PICK f : Is(f, N)
  BY <1>3
<1>5. IsLoop(f, N, S, first, step)
  BY <1>4 DEF IsLoop
<1> QED
  BY <1>5

----------------------------------------------------------------------------
(* Counting.                                                               *)

LEMMA OneMore ==
  ASSUME NEW A, NEW n \in Nat, n > 0
  PROVE  /\ Cardinality(A \cap (1..n)) \in Nat /\ Cardinality(A \cap (1..(n - 1))) \in Nat
         /\ Cardinality(A \cap (1..0)) = 0
         /\ Cardinality(A \cap (1..n)) =
              Cardinality(A \cap (1..(n - 1))) + (IF n \in A THEN 1 ELSE 0)
<1> DEFINE T == A \cap (1..(n - 1))
<1>1. IsFiniteSet(1..(n - 1))
  BY FS_Interval
<1>2. IsFiniteSet(T) /\ Cardinality(T) \in Nat
  BY <1>1, FS_Intersection, FS_CardinalityType
<1>3. IsFiniteSet(T \cup {n}) /\ Cardinality(T \cup {n}) = Cardinality(T) + 1
  <2>1. n \notin T
    OBVIOUS
  <2> QED
    BY <1>2, <2>1, FS_AddElement
<1>4. A \cap (1..n) = IF n \in A THEN T \cup {n} ELSE T
  OBVIOUS
<1>5. A \cap (1..0) = {}
  OBVIOUS
<1>6. Cardinality(A \cap (1..0)) = 0
  BY <1>5, FS_EmptySet
<1>7. 1..n = (1..(n - 1)) \cup {n}
  OBVIOUS
<1>8. Cardinality(A \cap (1..n)) =
        Cardinality(T) + (IF n \in A THEN 1 ELSE 0)
  <2>1. CASE n \in A
    BY <1>3, <1>4, <2>1
  <2>2. CASE n \notin A
    <3>1. A \cap (1..n) = T
      BY <1>4, <2>2
    <3>2. (IF n \in A THEN 1 ELSE 0) = 0
      BY <2>2
    <3> HIDE DEF T
    <3>3. Cardinality(A \cap (1..n)) = Cardinality(T) + 0
      BY <1>2, <3>1
    <3> QED
      BY <3>2, <3>3
  <2> QED
    BY <2>1, <2>2
<1>9. Cardinality(T) + (IF n \in A THEN 1 ELSE 0) \in Nat
  BY <1>2
<1> QED
  BY <1>2, <1>6, <1>8, <1>9

----------------------------------------------------------------------------
(* rtime.c                                                                 *)

\* The lines that rtime may print, and its state.
RtimeLine  == {<<"unknown">>, <<"unreached">>, <<"garbage">>}
                \cup {<<"time", t>> : t \in Int}
RtimeState == [open : Nat, lines : Seq(RtimeLine)]

LEMMA AskTypes ==
  ASSUME RtimeNumbers, NEW s \in RtimeState, NEW service \in BOOLEAN, NEW host \in Host
  PROVE  R!Ask(s, service, host) \in RtimeState
<1>1. R!Result(host) \in RtimeLine
  BY DEF RtimeNumbers, Host, RtimeLine, R!Result, R!Received
<1>2. ASSUME NEW t \in RtimeState, NEW line \in RtimeLine PROVE R!Say(t, line) \in RtimeState
  <2>1. Append(t.lines, line) \in Seq(RtimeLine)
    BY AppendProperties DEF RtimeState
  <2> QED
    BY <2>1 DEF RtimeState, R!Say
<1>3. [s EXCEPT !.open = @ + 1] \in RtimeState
  BY DEF RtimeState
<1>4. <<"unknown">> \in RtimeLine /\ <<"unreached">> \in RtimeLine
  BY DEF RtimeLine
<1> QED
  BY <1>1, <1>2, <1>3, <1>4 DEF R!Ask

\* After is what its definition says, round by round.
LEMMA RtimeRounds ==
  ASSUME RtimeNumbers, NEW service \in BOOLEAN, NEW hosts \in Seq(Host)
  PROVE  LET s == R!After(service, hosts) IN
         /\ s \in [0..Len(hosts) -> RtimeState]
         /\ s[0] = R!None
         /\ \A n \in 1..Len(hosts) : s[n] = R!Ask(s[n - 1], service, hosts[n])
<1> DEFINE N == Len(hosts)
           step == [x \in (1..N) \X RtimeState |-> R!Ask(x[2], service, hosts[x[1]])]
           Is(s) == s = [n \in 0..N |-> IF n = 0 THEN R!None
                                        ELSE R!Ask(s[n - 1], service, hosts[n])]
<1>1. N \in Nat /\ \A n \in 1..N : hosts[n] \in Host
  OBVIOUS
<1>2. step \in [(1..N) \X RtimeState -> RtimeState]
  BY <1>1, AskTypes
<1>3. R!None \in RtimeState
  BY DEF R!None, RtimeState
<1>4. PICK f : IsLoop(f, N, RtimeState, R!None, step)
  <2> HIDE DEF N, step
  <2>1. N \in Nat
    BY <1>1
  <2> QED
    BY <1>2, <1>3, <2>1, Loop
<1>5. \A n \in 1..N : f[n] = R!Ask(f[n - 1], service, hosts[n])
  BY <1>4 DEF IsLoop
<1>6. Is(f)
  BY <1>4, <1>5 DEF IsLoop
<1>7. R!After(service, hosts) = CHOOSE s : Is(s)
  BY DEF R!After
<1>8. Is(R!After(service, hosts))
  <2> HIDE DEF Is
  <2> QED
    BY <1>6, <1>7
<1> DEFINE g == R!After(service, hosts)
           P == {n \in 0..N : g[n] \in RtimeState}
<1>9. g = [n \in 0..N |-> g[n]] /\ g[0] = R!None
      /\ \A n \in 1..N : g[n] = R!Ask(g[n - 1], service, hosts[n])
  BY <1>8
<1> HIDE DEF g
<1>10. 0 \in P /\ \A n \in 1..N : n - 1 \in P => n \in P
  <2>1. 0 \in P
    BY <1>1, <1>3, <1>9
  <2>2. ASSUME NEW n \in 1..N, n - 1 \in P PROVE n \in P
    <3>1. R!Ask(g[n - 1], service, hosts[n]) \in RtimeState
      BY <1>1, <2>2, AskTypes
    <3>2. g[n] \in RtimeState
      BY <1>9, <3>1
    <3> QED
      BY <3>2
  <2> QED
    BY <2>1, <2>2
<1>11. \A n \in 0..N : n \in P
  <2> HIDE DEF P
  <2> QED
    BY <1>1, <1>10, Induction
<1>12. g \in [0..N -> RtimeState]
  BY <1>9, <1>11
<1> QED
  BY <1>9, <1>12 DEF g

LEMMA RtimeCardinality == \A S : R!Cardinality(S) = Cardinality(S)
BY DEF R!Cardinality, Cardinality

LEMMA Wraps ==
  ASSUME NEW a \in Nat, NEW w \in Nat \ {0}
  PROVE  a % w = a <=> a < w
OBVIOUS

\* What has become of the sockets and what has been printed after n hosts.
RtimeLineOf(service, hosts, k) ==
  IF \/ hosts[k].name = "unknown"
     \/ hosts[k].name = "known" /\ R!UsedUp(service, hosts, k) THEN <<"unknown">>
  ELSE IF ~service \/ R!UsedUp(service, hosts, k) THEN <<"unreached">>
  ELSE R!Result(hosts[k])

RtimeIs(s, service, hosts, n) ==
  /\ s.open = IF ~service THEN 0
              ELSE IF R!Spent(hosts, n) < MaxSockets THEN R!Spent(hosts, n) ELSE MaxSockets
  /\ Len(s.lines) = n
  /\ \A k \in 1..n : s.lines[k] = RtimeLineOf(service, hosts, k)

LEMMA SpentIs ==
  ASSUME NEW hosts \in Seq(Host), NEW n \in 1..Len(hosts)
  PROVE  /\ R!Spent(hosts, n) \in Nat /\ R!Spent(hosts, n - 1) \in Nat /\ R!Spent(hosts, 0) = 0
         /\ R!Spent(hosts, n) = R!Spent(hosts, n - 1) + (IF hosts[n].name # "unknown" THEN 1 ELSE 0)
<1> DEFINE A == {k \in 1..Len(hosts) : hosts[k].name # "unknown"}
<1>1. \A m \in 0..Len(hosts) : {k \in 1..m : hosts[k].name # "unknown"} = A \cap (1..m)
  OBVIOUS
<1>2. ASSUME NEW m \in 0..Len(hosts) PROVE R!Spent(hosts, m) = Cardinality(A \cap (1..m))
  <2>1. {k \in 1..m : hosts[k].name # "unknown"} = A \cap (1..m)
    BY <1>1
  <2> QED
    BY <2>1, RtimeCardinality DEF R!Spent
<1>3. n \in A <=> hosts[n].name # "unknown"
  OBVIOUS
<1>4. n \in Nat /\ n > 0 /\ n \in 0..Len(hosts) /\ n - 1 \in 0..Len(hosts) /\ 0 \in 0..Len(hosts)
  OBVIOUS
<1> HIDE DEF A
<1>5. /\ Cardinality(A \cap (1..n)) \in Nat /\ Cardinality(A \cap (1..(n - 1))) \in Nat
      /\ Cardinality(A \cap (1..0)) = 0
      /\ Cardinality(A \cap (1..n)) =
           Cardinality(A \cap (1..(n - 1))) + (IF n \in A THEN 1 ELSE 0)
  BY <1>4, OneMore
<1> QED
  BY <1>2, <1>3, <1>4, <1>5

LEMMA RtimeRound ==
  ASSUME RtimeNumbers, NEW service \in BOOLEAN, NEW hosts \in Seq(Host),
         NEW n \in 1..Len(hosts), NEW s \in RtimeState, RtimeIs(s, service, hosts, n - 1)
  PROVE  RtimeIs(R!Ask(s, service, hosts[n]), service, hosts, n)
<1> DEFINE t == R!Ask(s, service, hosts[n])
<1>1. /\ R!Spent(hosts, n) \in Nat /\ R!Spent(hosts, n - 1) \in Nat
      /\ R!Spent(hosts, n) = R!Spent(hosts, n - 1) + (IF hosts[n].name # "unknown" THEN 1 ELSE 0)
  BY SpentIs
<1>2. s.open \in Nat /\ s.lines \in Seq(RtimeLine) /\ s = [open |-> s.open, lines |-> s.lines]
      /\ MaxSockets \in Nat /\ hosts[n] \in Host
  BY DEF RtimeState, RtimeNumbers
<1>3. ~(s.open < MaxSockets) <=> R!UsedUp(service, hosts, n)
  BY <1>1, <1>2 DEF RtimeIs, R!UsedUp
<1>4. t.lines = Append(s.lines, RtimeLineOf(service, hosts, n))
  BY <1>2, <1>3 DEF RtimeLineOf, R!Ask, R!Say
<1>5. t.open = IF hosts[n].name # "unknown" /\ service /\ s.open < MaxSockets THEN s.open + 1 ELSE s.open
  BY <1>2 DEF R!Ask, R!Say
<1>6. t.open = IF ~service THEN 0
               ELSE IF R!Spent(hosts, n) < MaxSockets THEN R!Spent(hosts, n) ELSE MaxSockets
  BY <1>1, <1>2, <1>5 DEF RtimeIs, Host
<1>7. Len(s.lines) = n - 1 /\ \A k \in 1..(n - 1) : s.lines[k] = RtimeLineOf(service, hosts, k)
  BY DEF RtimeIs
<1> HIDE DEF t
<1>8. Len(t.lines) = n /\ t.lines[n] = RtimeLineOf(service, hosts, n)
      /\ \A k \in 1..(n - 1) : t.lines[k] = s.lines[k]
  BY <1>2, <1>4, <1>7
<1>9. \A k \in 1..n : t.lines[k] = RtimeLineOf(service, hosts, k)
  BY <1>7, <1>8
<1>10. RtimeIs(t, service, hosts, n)
  BY <1>6, <1>8, <1>9 DEF RtimeIs
<1> QED
  BY <1>10 DEF t

LEMMA RtimeEnds ==
  ASSUME RtimeNumbers, NEW service \in BOOLEAN, NEW hosts \in Seq(Host), hosts # << >>
  PROVE  RtimeIs(R!After(service, hosts)[Len(hosts)], service, hosts, Len(hosts))
<1> DEFINE N == Len(hosts)
           s == R!After(service, hosts)
           P == {n \in 0..N : RtimeIs(s[n], service, hosts, n)}
<1>1. N \in Nat /\ 1 \in 1..N
  OBVIOUS
<1>2. /\ s \in [0..N -> RtimeState] /\ s[0] = R!None
      /\ \A n \in 1..N : s[n] = R!Ask(s[n - 1], service, hosts[n])
  BY RtimeRounds
<1> HIDE DEF s
<1>3. R!Spent(hosts, 0) = 0
  BY <1>1, SpentIs
<1>4. 0 \in P
  <2>1. RtimeIs(R!None, service, hosts, 0)
    BY <1>3 DEF RtimeIs, R!None, RtimeNumbers
  <2> QED
    BY <1>1, <1>2, <2>1
<1>5. ASSUME NEW n \in 1..N, n - 1 \in P PROVE n \in P
  <2>1. s[n - 1] \in RtimeState /\ RtimeIs(s[n - 1], service, hosts, n - 1)
    BY <1>1, <1>2, <1>5
  <2>2. RtimeIs(R!Ask(s[n - 1], service, hosts[n]), service, hosts, n)
    BY <2>1, RtimeRound
  <2> QED
    BY <1>2, <2>2
<1>6. N \in P
  <2> HIDE DEF N, P
  <2> QED
    BY <1>1, <1>4, <1>5, Induction
<1> QED
  BY <1>6 DEF s

\* The line that a round prints is the right one.
LEMMA LineIsRight ==
  ASSUME RtimeNumbers, NEW service \in BOOLEAN, NEW hosts \in Seq(Host), NEW k \in 1..Len(hosts)
  PROVE  R!IsLineOf(RtimeLineOf(service, hosts, k), service, hosts, k)
<1> DEFINE host == hosts[k]
           line == RtimeLineOf(service, hosts, k)
           used == R!UsedUp(service, hosts, k)
           noAddr == R!NoAddress(service, hosts, k)
<1>1. host \in Host
  OBVIOUS
<1>2. host.now % Word = host.now <=> host.now < Word
  <2>1. host.now \in Nat /\ Word \in Nat \ {0}
    BY <1>1 DEF Host, RtimeNumbers
  <2> QED
    BY <2>1, Wraps
<1>3. host.now % Word \in Nat /\ host.now \in Nat /\ Epoch \in Nat
  BY <1>1 DEF Host, RtimeNumbers
<1>4. R!Received(host) = host.now - Epoch <=> host.now < Word
  BY <1>2, <1>3 DEF R!Received
<1>5. host.accepts \in BOOLEAN /\ host.answers \in BOOLEAN
  BY <1>1 DEF Host
<1>7. line = IF noAddr THEN <<"unknown">>
             ELSE IF ~service \/ used THEN <<"unreached">> ELSE R!Result(host)
  BY Zenon DEF RtimeLineOf, R!NoAddress
<1>8. R!Result(host) = IF ~host.accepts THEN <<"unreached">>
                       ELSE IF host.answers THEN <<"time", R!Received(host)>> ELSE <<"garbage">>
  BY Zenon DEF R!Result
<1> HIDE DEF line, used, noAddr, host
<1> DEFINE Right == R!IsLineOf(line, service, hosts, k)
<1>6. Right <=>
        /\ line[1] = "unknown" <=> noAddr
        /\ line[1] = "unreached" <=> ~noAddr /\ (~service \/ ~host.accepts \/ used)
        /\ line[1] = "time" =>
             /\ host.answers
             /\ line[2] = host.now - Epoch <=> host.now < Word
  BY DEF R!IsLineOf, noAddr, used, host
<1> HIDE DEF Right
<1>9. ASSUME noAddr PROVE Right
  <2>1. line[1] = "unknown"
    BY <1>7, <1>9
  <2> QED
    BY <1>9, <2>1, <1>6
<1>10. ASSUME ~noAddr /\ (~service \/ used \/ ~host.accepts) PROVE Right
  <2>1. line[1] = "unreached"
    BY <1>7, <1>8, <1>10
  <2> QED
    BY <1>10, <2>1, <1>6
<1>11. ASSUME ~noAddr /\ service /\ ~used /\ host.accepts /\ host.answers PROVE Right
  <2>1. line[1] = "time" /\ line[2] = R!Received(host)
    BY <1>7, <1>8, <1>11
  <2> QED
    BY <1>4, <1>11, <2>1, <1>6
<1>12. ASSUME ~noAddr /\ service /\ ~used /\ host.accepts /\ ~host.answers PROVE Right
  <2>1. line[1] = "garbage"
    BY <1>7, <1>8, <1>12
  <2> QED
    BY <1>12, <2>1, <1>6
<1> QED
  BY <1>5, <1>9, <1>10, <1>11, <1>12 DEF Right, line

\* rtime.c: the lines are those of the hosts, in order, and each is right.
LEMMA RtimeRight ==
  ASSUME RtimeNumbers, NEW args, NEW service \in BOOLEAN, NEW hosts \in Seq(Host)
  PROVE  R!RtimeReports(args, service, hosts)
<1> DEFINE lines == R!LinesFor(args, service, hosts)
<1>1. CASE R!Usage(args, hosts)
  <2>1. lines = << >>
    BY <1>1 DEF R!LinesFor
  <2> QED
    BY <1>1, <2>1 DEF R!RtimeReports
<1>2. CASE ~R!Usage(args, hosts)
  <2>1. hosts # << >>
    BY <1>2 DEF R!Usage
  <2>2. lines = R!After(service, hosts)[Len(hosts)].lines
    BY <1>2 DEF R!LinesFor
  <2>3. Len(lines) = Len(hosts)
        /\ \A k \in 1..Len(hosts) : lines[k] = RtimeLineOf(service, hosts, k)
    BY <2>1, <2>2, RtimeEnds DEF RtimeIs
  <2>4. DOMAIN lines = 1..Len(hosts)
    <3>1. R!After(service, hosts)[Len(hosts)] \in RtimeState
      BY RtimeRounds
    <3>2. lines \in Seq(RtimeLine)
      BY <2>2, <3>1 DEF RtimeState
    <3> QED
      BY <2>3, <3>2
  <2>5. ASSUME NEW k \in DOMAIN lines PROVE R!IsLineOf(lines[k], service, hosts, k)
    BY <2>3, <2>4, LineIsRight
  <2>6. Len(lines) <= Len(hosts) /\ ~(Len(lines) < Len(hosts))
    BY <2>3
  <2> HIDE DEF lines
  <2> QED
    BY <1>2, <2>5, <2>6 DEF R!RtimeReports, lines
<1> QED
  BY <1>1, <1>2

----------------------------------------------------------------------------
(* linkchk of fswaste.c                                                    *)

LinkchkState ==
  [files : Seq(Id), maxfiles : Nat, answers : Seq({0, 1}), dead : BOOLEAN]

LEMMA LinkchkCardinality == \A S : L!Cardinality(S) = Cardinality(S)
BY DEF L!Cardinality, Cardinality

LEMMA CheckTypes ==
  ASSUME LinkchkNumbers, NEW s \in LinkchkState, NEW id \in Id
  PROVE  L!Check(s, id) \in LinkchkState
<1>1. /\ s.files \in Seq(Id) /\ s.maxfiles \in Nat /\ s.answers \in Seq({0, 1})
           /\ s.dead \in BOOLEAN
      /\ Step \in Nat
  BY DEF LinkchkState, LinkchkNumbers
<1>2. Append(s.answers, 1) \in Seq({0, 1}) /\ Append(s.answers, 0) \in Seq({0, 1})
      /\ Append(s.files, id) \in Seq(Id)
  BY <1>1, AppendProperties
<1>3. ASSUME NEW max \in Nat
      PROVE  /\ [s EXCEPT !.answers = Append(@, 1)] \in LinkchkState
             /\ [s EXCEPT !.maxfiles = max, !.dead = TRUE] \in LinkchkState
             /\ [s EXCEPT !.files = Append(@, id), !.maxfiles = max, !.answers = Append(@, 0)]
                  \in LinkchkState
  BY <1>2 DEF LinkchkState
<1> DEFINE max == IF Len(s.files) = s.maxfiles THEN s.maxfiles + Step ELSE s.maxfiles
<1>4. max \in Nat
  BY <1>1
<1> HIDE DEF max
<1> QED
  BY <1>3, <1>4 DEF L!Check, max

LEMMA LinkchkRounds ==
  ASSUME LinkchkNumbers, NEW ids \in Seq(Id)
  PROVE  LET s == L!After(ids) IN
         /\ s \in [0..Len(ids) -> LinkchkState]
         /\ s[0] = L!Empty
         /\ \A n \in 1..Len(ids) : s[n] = L!Check(s[n - 1], ids[n])
<1> DEFINE N == Len(ids)
           step == [x \in (1..N) \X LinkchkState |-> L!Check(x[2], ids[x[1]])]
           Is(s) == s = [n \in 0..N |-> IF n = 0 THEN L!Empty ELSE L!Check(s[n - 1], ids[n])]
<1>1. N \in Nat /\ \A n \in 1..N : ids[n] \in Id
  OBVIOUS
<1>2. step \in [(1..N) \X LinkchkState -> LinkchkState]
  BY <1>1, CheckTypes
<1>3. L!Empty \in LinkchkState
  BY DEF L!Empty, LinkchkState
<1>4. PICK f : IsLoop(f, N, LinkchkState, L!Empty, step)
  <2> HIDE DEF N, step
  <2>1. N \in Nat
    BY <1>1
  <2> QED
    BY <1>2, <1>3, <2>1, Loop
<1>5. \A n \in 1..N : f[n] = L!Check(f[n - 1], ids[n])
  BY <1>4 DEF IsLoop
<1>6. Is(f)
  BY <1>4, <1>5 DEF IsLoop
<1>7. L!After(ids) = CHOOSE s : Is(s)
  BY DEF L!After
<1>8. Is(L!After(ids))
  <2> HIDE DEF Is
  <2> QED
    BY <1>6, <1>7
<1> DEFINE g == L!After(ids)
           P == {n \in 0..N : g[n] \in LinkchkState}
<1>9. g = [n \in 0..N |-> g[n]] /\ g[0] = L!Empty
      /\ \A n \in 1..N : g[n] = L!Check(g[n - 1], ids[n])
  BY <1>8
<1> HIDE DEF g
<1>10. 0 \in P /\ \A n \in 1..N : n - 1 \in P => n \in P
  <2>1. 0 \in P
    BY <1>1, <1>3, <1>9
  <2>2. ASSUME NEW n \in 1..N, n - 1 \in P PROVE n \in P
    <3>1. L!Check(g[n - 1], ids[n]) \in LinkchkState
      BY <1>1, <2>2, CheckTypes
    <3>2. g[n] \in LinkchkState
      BY <1>9, <3>1
    <3> QED
      BY <3>2
  <2> QED
    BY <2>1, <2>2
<1>11. \A n \in 0..N : n \in P
  <2> HIDE DEF P
  <2> QED
    BY <1>1, <1>10, Induction
<1>12. g \in [0..N -> LinkchkState]
  BY <1>9, <1>11
<1> QED
  BY <1>9, <1>12 DEF g

\* The files that have come by in the first n calls.
Seen(ids, n) == {ids[k] : k \in 1..n}

LEMMA SeenIs ==
  ASSUME NEW ids \in Seq(Id), NEW n \in 1..Len(ids)
  PROVE  /\ L!Different(ids, n) \in Nat /\ L!Different(ids, n - 1) \in Nat
         /\ L!Different(ids, 0) = 0 /\ Seen(ids, 0) = {}
         /\ Seen(ids, n) = Seen(ids, n - 1) \cup {ids[n]}
         /\ L!Different(ids, n) =
              L!Different(ids, n - 1) + (IF ids[n] \in Seen(ids, n - 1) THEN 0 ELSE 1)
<1> DEFINE T == Seen(ids, n - 1)
<1>1. \A m : L!Different(ids, m) = Cardinality(Seen(ids, m))
  BY LinkchkCardinality DEF L!Different, Seen
<1>2. Seen(ids, n) = T \cup {ids[n]} /\ Seen(ids, 0) = {}
  BY DEF Seen
<1>3. IsFiniteSet(T)
  <2>1. IsFiniteSet(1..(n - 1))
    BY FS_Interval
  <2>2. T = {ids[k] : k \in 1..(n - 1)}
    BY DEF Seen
  <2> DEFINE f == [k \in 1..(n - 1) |-> ids[k]]
  <2>3. f \in Surjection(1..(n - 1), T)
    BY <2>2 DEF Surjection
  <2> HIDE DEF T, f
  <2> QED
    BY <2>1, <2>3, FS_Surjection
<1> HIDE DEF T
<1>4. Cardinality(T) \in Nat
  BY <1>3, FS_CardinalityType
<1>5. Cardinality(T \cup {ids[n]}) = Cardinality(T) + (IF ids[n] \in T THEN 0 ELSE 1)
  <2>1. CASE ids[n] \in T
    <3>1. T \cup {ids[n]} = T /\ (IF ids[n] \in T THEN 0 ELSE 1) = 0
      BY <2>1
    <3>2. Cardinality(T \cup {ids[n]}) = Cardinality(T)
      BY <3>1, Zenon
    <3>3. Cardinality(T) = Cardinality(T) + 0
      BY <1>4
    <3> QED
      BY <3>1, <3>2, <3>3
  <2>2. CASE ids[n] \notin T
    <3>1. Cardinality(T \cup {ids[n]}) = Cardinality(T) + 1
      BY <1>3, <2>2, FS_AddElement
    <3> QED
      BY <2>2, <3>1
  <2> QED
    BY <2>1, <2>2
<1>6. L!Different(ids, n - 1) = Cardinality(T)
  BY <1>1 DEF T
<1>7. L!Different(ids, n) = Cardinality(T) + (IF ids[n] \in T THEN 0 ELSE 1)
  BY <1>1, <1>2, <1>5
<1>8. L!Different(ids, 0) = 0
  BY <1>1, <1>2, FS_EmptySet
<1>9. L!Different(ids, n) \in Nat
  BY <1>4, <1>7
<1>10. L!Different(ids, n) =
         L!Different(ids, n - 1) + (IF ids[n] \in T THEN 0 ELSE 1)
  BY <1>6, <1>7
<1> QED
  BY <1>2, <1>4, <1>6, <1>8, <1>9, <1>10 DEF T

\* How many entries there is memory for, in pieces of Step.
Room == (Memory \div Step) * Step

LEMMA RoomIs ==
  ASSUME LinkchkNumbers, NEW m \in Nat, Step * m <= Memory
  PROVE  Step * m <= Room /\ (Step * m + Step > Memory <=> Step * m + 1 > Room) /\ Room \in Nat
<1> DEFINE q == Memory \div Step
<1>1. Step \in Nat /\ Step > 0 /\ Memory \in Nat
  BY DEF LinkchkNumbers
<1>2. q \in Nat /\ Step * q <= Memory /\ Memory < Step * q + Step
  BY <1>1
<1>3. Room = Step * q
  BY <1>1, <1>2 DEF Room
<1> HIDE DEF q
<1>4. m <= q
  <2>1. ASSUME m >= q + 1 PROVE FALSE
    <3>1. Step * m >= Step * (q + 1)
      BY <1>1, <1>2, <2>1
    <3>2. Step * (q + 1) = Step * q + Step
      BY <1>1, <1>2
    <3>3. Step * m \in Nat /\ Step * q \in Nat
      BY <1>1, <1>2
    <3> QED
      BY <1>1, <1>2, <3>1, <3>2, <3>3
  <2> QED
    BY <1>2, <2>1
<1>5. Step * m \in Nat /\ Step * q \in Nat
  BY <1>1, <1>2
<1>6. CASE m = q
  BY <1>1, <1>2, <1>3, <1>5, <1>6
<1>7. CASE m # q
  <2>1. m + 1 <= q
    BY <1>2, <1>4, <1>7
  <2>2. Step * (m + 1) <= Step * q
    BY <1>1, <1>2, <2>1
  <2>3. Step * (m + 1) = Step * m + Step
    BY <1>1
  <2> QED
    BY <1>1, <1>2, <1>3, <1>5, <2>2, <2>3
<1> QED
  BY <1>6, <1>7

LEMMA SameIs ==
  ASSUME NEW a \in Id, NEW b \in Id
  PROVE  L!Same(a, b) <=> a = b
<1>1. a = [inode |-> a.inode, dev |-> a.dev] /\ b = [inode |-> b.inode, dev |-> b.dev]
  BY DEF Id
<1> QED
  BY <1>1 DEF L!Same

\* The table and the answers after n calls.
TableIs(s, ids, n) ==
  /\ Len(s.files) <= s.maxfiles
  /\ s.dead <=> L!Different(ids, n) > Room
  /\ ~s.dead =>
       /\ s.maxfiles <= Memory /\ \E m \in Nat : s.maxfiles = Step * m
       /\ Len(s.files) = L!Different(ids, n)
       /\ \A id \in Id : id \in Seen(ids, n) <=> \E k \in DOMAIN s.files : s.files[k] = id
       /\ Len(s.answers) = n
       /\ \A k \in 1..n : s.answers[k] = 1 <=> L!Different(ids, k) = L!Different(ids, k - 1)
       /\ Cardinality({k \in 1..n : s.answers[k] = 0}) = L!Different(ids, n)

LEMMA LinkchkRound ==
  ASSUME LinkchkNumbers, NEW ids \in Seq(Id), NEW n \in 1..Len(ids), NEW s \in LinkchkState,
         TableIs(s, ids, n - 1)
  PROVE  TableIs(L!Check(s, ids[n]), ids, n)
<1> DEFINE id == ids[n]
           t  == L!Check(s, id)
           d  == L!Different(ids, n - 1)
           e  == L!Different(ids, n)
<1>1. /\ d \in Nat /\ e \in Nat /\ e = d + (IF id \in Seen(ids, n - 1) THEN 0 ELSE 1)
      /\ Seen(ids, n) = Seen(ids, n - 1) \cup {id}
  BY SeenIs
<1>2. /\ s.files \in Seq(Id) /\ s.maxfiles \in Nat /\ s.answers \in Seq({0, 1})
           /\ s.dead \in BOOLEAN
      /\ id \in Id
  BY DEF LinkchkState
<1>3. Room \in Nat /\ Step \in Nat /\ Step > 0 /\ Memory \in Nat
  <2>1. Step * 0 <= Memory
    BY DEF LinkchkNumbers
  <2> QED
    BY <2>1, RoomIs DEF LinkchkNumbers
<1> HIDE DEF id, d, e
<1>4. CASE s.dead
  <2>1. t = s /\ Len(s.files) <= s.maxfiles /\ d > Room
    BY <1>4 DEF L!Check, TableIs, d
  <2>2. e > Room
    BY <1>1, <1>3, <2>1
  <2> QED
    BY <1>4, <2>1, <2>2 DEF TableIs, e, id
<1>5. CASE ~s.dead
  <2>1. /\ Len(s.files) <= s.maxfiles /\ d <= Room
        /\ s.maxfiles <= Memory /\ \E m \in Nat : s.maxfiles = Step * m
        /\ Len(s.files) = d
        /\ \A i \in Id : i \in Seen(ids, n - 1) <=> \E k \in DOMAIN s.files : s.files[k] = i
        /\ Len(s.answers) = n - 1
        /\ \A k \in 1..(n - 1) :
             s.answers[k] = 1 <=> L!Different(ids, k) = L!Different(ids, k - 1)
        /\ Cardinality({k \in 1..(n - 1) : s.answers[k] = 0}) = d
    BY <1>1, <1>3, <1>5 DEF TableIs, d
  <2>2. (\E k \in DOMAIN s.files : L!Same(s.files[k], id)) <=> id \in Seen(ids, n - 1)
    <3>1. ASSUME NEW k \in DOMAIN s.files PROVE L!Same(s.files[k], id) <=> s.files[k] = id
      <4>1. s.files[k] \in Id
        BY <1>2
      <4> QED
        BY <1>2, <4>1, SameIs
    <3> QED
      BY <1>2, <2>1, <3>1
  <2>3. ASSUME NEW a \in {0, 1}, NEW u \in Seq({0, 1}), u = Append(s.answers, a),
               a = 1 <=> e = d
        PROVE  /\ Len(u) = n
               /\ \A k \in 1..n : u[k] = 1 <=> L!Different(ids, k) = L!Different(ids, k - 1)
               /\ Cardinality({k \in 1..n : u[k] = 0}) = e
    <3> DEFINE A == {k \in 1..n : u[k] = 0}
    <3>1. Len(u) = n /\ u[n] = a /\ \A k \in 1..(n - 1) : u[k] = s.answers[k]
      BY <1>2, <2>1, <2>3
    <3>2. A \cap (1..n) = A /\ A \cap (1..(n - 1)) = {k \in 1..(n - 1) : s.answers[k] = 0}
          /\ (n \in A <=> a = 0)
      BY <3>1
    <3> HIDE DEF A
    <3>3. Cardinality(A) = d + (IF a = 0 THEN 1 ELSE 0)
      <4>1. n \in Nat /\ n > 0
        OBVIOUS
      <4>2. Cardinality(A \cap (1..n)) =
              Cardinality(A \cap (1..(n - 1))) + (IF n \in A THEN 1 ELSE 0)
        BY <4>1, OneMore
      <4> QED
        BY <2>1, <3>2, <4>2
    <3>4. Cardinality(A) = e
      BY <1>1, <2>3, <3>3
    <3>5. \A k \in 1..n : u[k] = 1 <=> L!Different(ids, k) = L!Different(ids, k - 1)
      BY <2>1, <2>3, <3>1 DEF d, e
    <3> QED
      BY <3>1, <3>4, <3>5 DEF A
  <2>4. CASE id \in Seen(ids, n - 1)
    <3>1. t = [s EXCEPT !.answers = Append(@, 1)]
      BY <1>5, <2>2, <2>4 DEF L!Check
    <3>2. t.files = s.files /\ t.maxfiles = s.maxfiles /\ t.dead = FALSE
          /\ t.answers = Append(s.answers, 1)
      BY <1>2, <1>5, <3>1 DEF LinkchkState
    <3>3. e = d /\ Seen(ids, n) = Seen(ids, n - 1) /\ ~(e > Room)
      BY <1>1, <1>3, <2>1, <2>4
    <3>4. t.answers \in Seq({0, 1})
      BY <1>2, <3>2, AppendProperties
    <3> HIDE DEF t
    <3>5. TableIs(t, ids, n)
      <4>1. /\ Len(t.answers) = n
            /\ \A k \in 1..n : t.answers[k] = 1 <=> L!Different(ids, k) = L!Different(ids, k - 1)
            /\ Cardinality({k \in 1..n : t.answers[k] = 0}) = e
        BY <2>3, <3>2, <3>3, <3>4
      <4> QED
        BY <2>1, <3>2, <3>3, <4>1 DEF TableIs, e
    <3> QED
      BY <3>5 DEF t, id
  <2>5. CASE id \notin Seen(ids, n - 1)
    <3>1. e = d + 1
      BY <1>1, <2>5
    <3> DEFINE max == IF Len(s.files) = s.maxfiles THEN s.maxfiles + Step ELSE s.maxfiles
    <3>2. max > Memory <=> e > Room
      <4>1. PICK m \in Nat : s.maxfiles = Step * m
        BY <2>1
      <4>2. Step * m <= Room /\ (Step * m + Step > Memory <=> Step * m + 1 > Room)
        BY <2>1, <4>1, RoomIs
      <4> QED
        BY <1>1, <1>2, <1>3, <2>1, <3>1, <4>1, <4>2
    <3>3. max \in Nat /\ Len(s.files) < max /\ \E m \in Nat : max = Step * m
      <4>1. PICK m \in Nat : s.maxfiles = Step * m
        BY <2>1
      <4>2. Step * (m + 1) = Step * m + Step /\ m + 1 \in Nat
        BY <1>3
      <4>3. max = Step * m \/ max = Step * (m + 1)
        BY <4>1, <4>2
      <4>4. max \in Nat /\ Len(s.files) < max
        BY <1>1, <1>2, <1>3, <2>1
      <4> HIDE DEF max
      <4> QED
        BY <4>2, <4>3, <4>4
    <3>4. t = IF max > Memory THEN [s EXCEPT !.maxfiles = max, !.dead = TRUE]
              ELSE [s EXCEPT !.files = Append(@, id), !.maxfiles = max, !.answers = Append(@, 0)]
      BY <1>5, <2>2, <2>5 DEF L!Check
    <3> HIDE DEF t, max
    <3>5. CASE max > Memory
      <4>1. t.dead = TRUE /\ t.files = s.files /\ t.maxfiles = max
        BY <3>4, <3>5 DEF LinkchkState
      <4>2. TableIs(t, ids, n)
        BY <3>2, <3>3, <3>5, <4>1, <1>2 DEF TableIs, e
      <4> QED
        BY <4>2 DEF t, id
    <3>6. CASE ~(max > Memory)
      <4>1. /\ t.dead = FALSE /\ t.files = Append(s.files, id) /\ t.maxfiles = max
            /\ t.answers = Append(s.answers, 0)
        BY <1>5, <3>4, <3>6 DEF LinkchkState
      <4>2. t.answers \in Seq({0, 1}) /\ Len(t.files) = e
            /\ \A i : (\E k \in DOMAIN t.files : t.files[k] = i) <=>
                        (i = id \/ \E k \in DOMAIN s.files : s.files[k] = i)
        <5>1. t.answers \in Seq({0, 1})
          BY <1>2, <4>1, AppendProperties
        <5>2. Len(t.files) = d + 1 /\ DOMAIN t.files = 1..(d + 1) /\ DOMAIN s.files = 1..d
              /\ t.files[d + 1] = id /\ \A k \in 1..d : t.files[k] = s.files[k]
          <6>1. Len(s.files) = d /\ DOMAIN s.files = 1..d
            BY <1>2, <2>1
          <6>2. Len(t.files) = Len(s.files) + 1
            BY <1>2, <4>1, AppendProperties
          <6>3. t.files[d + 1] = id /\ \A k \in 1..d : t.files[k] = s.files[k]
            BY <1>2, <4>1, <6>1, AppendProperties
          <6>4. t.files \in Seq(Id)
            BY <1>2, <4>1, AppendProperties
          <6> QED
            BY <6>1, <6>2, <6>3, <6>4
        <5>3. \A k \in 1..(d + 1) : k = d + 1 \/ k \in 1..d
          BY <1>1
        <5>4. d + 1 \in 1..(d + 1) /\ \A k \in 1..d : k \in 1..(d + 1)
          BY <1>1
        <5>5. \A i : (\E k \in 1..(d + 1) : t.files[k] = i) <=> (i = id \/ \E k \in 1..d : s.files[k] = i)
          BY <5>2, <5>3, <5>4
        <5> QED
          BY <3>1, <5>1, <5>2, <5>5
      <4>3. /\ Len(t.answers) = n
            /\ \A k \in 1..n : t.answers[k] = 1 <=> L!Different(ids, k) = L!Different(ids, k - 1)
            /\ Cardinality({k \in 1..n : t.answers[k] = 0}) = e
        <5>1. 0 \in {0, 1} /\ (0 = 1 <=> e = d)
          BY <1>1, <3>1
        <5> QED
          BY <2>3, <4>1, <4>2, <5>1
      <4>4. \A i \in Id : i \in Seen(ids, n) <=> \E k \in DOMAIN t.files : t.files[k] = i
        BY <1>1, <1>2, <2>1, <4>2
      <4>5. e <= max /\ max <= Memory /\ ~(e > Room)
        BY <1>1, <1>2, <1>3, <2>1, <3>1, <3>2, <3>3, <3>6
      <4>6. TableIs(t, ids, n)
        BY <3>3, <4>1, <4>2, <4>3, <4>4, <4>5 DEF TableIs, e
      <4> QED
        BY <4>6 DEF t, id
    <3> QED
      BY <3>5, <3>6
  <2> QED
    BY <2>4, <2>5
<1> QED
  BY <1>2, <1>4, <1>5

\* linkchk of fswaste.c: among files in any order, each is answered with 0
\* once; the table holds them all until there is no memory for one more.
LEMMA LinksRight ==
  ASSUME LinkchkNumbers, NEW ids \in Seq(Id)
  PROVE  L!LinksCountedOnce(ids)
<1> DEFINE N == Len(ids)
           s == L!After(ids)
           P == {n \in 0..N : TableIs(s[n], ids, n)}
<1>1. N \in Nat
  OBVIOUS
<1>2. /\ s \in [0..N -> LinkchkState] /\ s[0] = L!Empty
      /\ \A n \in 1..N : s[n] = L!Check(s[n - 1], ids[n])
  BY LinkchkRounds
<1> HIDE DEF s
<1>3. TableIs(L!Empty, ids, 0)
  <2>1. Seen(ids, 0) = {} /\ Cardinality({}) = 0
    BY FS_EmptySet DEF Seen
  <2>2. L!Different(ids, 0) = 0
    BY <2>1, LinkchkCardinality DEF L!Different, Seen
  <2>3. Room \in Nat /\ Memory \in Nat /\ 0 = Step * 0
    BY RoomIs DEF LinkchkNumbers
  <2>4. L!Empty.files = << >> /\ L!Empty.answers = << >> /\ L!Empty.maxfiles = 0
        /\ L!Empty.dead = FALSE
    BY DEF L!Empty
  <2>5. {k \in 1..0 : L!Empty.answers[k] = 0} = {}
    OBVIOUS
  <2>6. Len(<< >>) = 0 /\ DOMAIN << >> = {}
    OBVIOUS
  <2> QED
    BY <2>1, <2>2, <2>3, <2>4, <2>5, <2>6 DEF TableIs
<1>4. 0 \in P
  BY <1>1, <1>2, <1>3
<1>5. ASSUME NEW n \in 1..N, n - 1 \in P PROVE n \in P
  <2>1. s[n - 1] \in LinkchkState /\ TableIs(s[n - 1], ids, n - 1)
    BY <1>1, <1>2, <1>5
  <2>2. TableIs(L!Check(s[n - 1], ids[n]), ids, n)
    BY <2>1, LinkchkRound
  <2> QED
    BY <1>2, <2>2
<1>6. \A n \in 0..N : n \in P
  <2> HIDE DEF N, P
  <2> QED
    BY <1>1, <1>4, <1>5, Induction
<1>7. ASSUME NEW n \in 0..N
      PROVE  LET t == L!After(ids)[n] IN
             /\ Len(t.files) <= t.maxfiles
             /\ t.dead <=> L!Different(ids, n) > (Memory \div Step) * Step
             /\ ~t.dead =>
                  /\ L!Cardinality({k \in 1..n : t.answers[k] = 0}) = L!Different(ids, n)
                  /\ n > 0 => (t.answers[n] = 1 <=> L!Different(ids, n) = L!Different(ids, n - 1))
  <2>1. TableIs(s[n], ids, n)
    BY <1>6
  <2>2. n > 0 => n \in 1..n
    OBVIOUS
  <2> QED
    BY <2>1, <2>2, LinkchkCardinality DEF TableIs, Room, s
<1> QED
  BY <1>7 DEF L!LinksCountedOnce

----------------------------------------------------------------------------
(* psio.pl                                                                 *)

PsioState(pids) == [pids -> Nat \cup {Gone}]

LEMMA PsioCardinality == \A S : Ps!Cardinality(S) = Cardinality(S)
BY DEF Ps!Cardinality, Cardinality

LEMMA SamplesAre ==
  ASSUME NEW pids, NEW samples, IsSamples(samples, pids)
  PROVE  /\ Len(samples) \in Nat /\ Len(samples) > 0 /\ DOMAIN samples[1] = pids
         /\ DOMAIN samples = 1..Len(samples)
         /\ \A n \in 1..Len(samples) : samples[n] \in [pids -> Process \cup {Gone}]
<1>1. samples \in Seq([pids -> Process \cup {Gone}]) /\ samples # << >>
  BY DEF IsSamples
<1>2. Len(samples) \in Nat /\ Len(samples) > 0 /\ DOMAIN samples = 1..Len(samples)
  BY <1>1
<1>3. \A n \in 1..Len(samples) : samples[n] \in [pids -> Process \cup {Gone}]
  BY <1>1
<1> QED
  BY <1>2, <1>3

LEMMA NewOfTypes ==
  ASSUME NEW pids, NEW new \in PsioState(pids), NEW sample \in [pids -> Process \cup {Gone}]
  PROVE  Ps!NewOf(new, sample) \in PsioState(pids)
<1>1. \A pid \in pids : sample[pid] # Gone => sample[pid].io \in Nat
  BY DEF Process
<1>2. DOMAIN sample = pids
  OBVIOUS
<1>3. ASSUME NEW pid \in pids
      PROVE  (IF sample[pid] = Gone THEN new[pid] ELSE sample[pid].io) \in Nat \cup {Gone}
  BY <1>1 DEF PsioState
<1> QED
  BY <1>2, <1>3 DEF PsioState, Ps!NewOf

LEMMA PsioRounds ==
  ASSUME NEW pids, NEW samples, IsSamples(samples, pids)
  PROVE  LET new == Ps!New(samples) IN
         /\ new \in [0..Len(samples) -> PsioState(pids)]
         /\ new[0] = [pid \in pids |-> Gone]
         /\ \A n \in 1..Len(samples) : new[n] = Ps!NewOf(new[n - 1], samples[n])
<1> DEFINE N == Len(samples)
           S == PsioState(pids)
           none == [pid \in pids |-> Gone]
           step == [x \in (1..N) \X S |-> Ps!NewOf(x[2], samples[x[1]])]
           Is(s) == s = [n \in 0..N |-> IF n = 0 THEN none ELSE Ps!NewOf(s[n - 1], samples[n])]
<1>1. N \in Nat /\ \A n \in 1..N : samples[n] \in [pids -> Process \cup {Gone}]
  BY SamplesAre
<1>2. none \in S
  BY DEF PsioState
<1> HIDE DEF S, none
<1>3. step \in [(1..N) \X S -> S]
  BY <1>1, NewOfTypes DEF S
<1>4. PICK f : IsLoop(f, N, S, none, step)
  <2> HIDE DEF N, step
  <2>1. N \in Nat
    BY <1>1
  <2> QED
    BY <1>2, <1>3, <2>1, Loop
<1>5. ASSUME NEW n \in 1..N PROVE f[n] = Ps!NewOf(f[n - 1], samples[n])
  <2>1. N \in Nat
    BY <1>1
  <2> HIDE DEF N
  <2>2. f \in [0..N -> S] /\ f[n] = step[<<n, f[n - 1]>>]
    BY <1>4 DEF IsLoop
  <2>3. f[n - 1] \in S
    BY <2>1, <2>2
  <2> QED
    BY <2>2, <2>3
<1>6. Is(f)
  BY <1>4, <1>5 DEF IsLoop
<1>7. Ps!New(samples) = CHOOSE s : Is(s)
  <2>1. DOMAIN samples[1] = pids
    BY SamplesAre
  <2> QED
    BY <2>1 DEF Ps!New, none
<1>8. Is(Ps!New(samples))
  <2> HIDE DEF Is
  <2> QED
    BY <1>6, <1>7
<1> DEFINE g == Ps!New(samples)
           P == {n \in 0..N : g[n] \in S}
<1>9. g = [n \in 0..N |-> g[n]] /\ g[0] = none
      /\ \A n \in 1..N : g[n] = Ps!NewOf(g[n - 1], samples[n])
  BY <1>8
<1> HIDE DEF g
<1>10. 0 \in P /\ \A n \in 1..N : n - 1 \in P => n \in P
  <2>1. 0 \in P
    BY <1>1, <1>2, <1>9
  <2>2. ASSUME NEW n \in 1..N, n - 1 \in P PROVE n \in P
    <3>1. Ps!NewOf(g[n - 1], samples[n]) \in S
      BY <1>1, <2>2, NewOfTypes DEF S
    <3>2. g[n] \in S
      BY <1>9, <3>1
    <3> QED
      BY <3>2
  <2> QED
    BY <2>1, <2>2
<1>11. \A n \in 0..N : n \in P
  <2> HIDE DEF P
  <2> QED
    BY <1>1, <1>10, Induction
<1>12. g \in [0..N -> S]
  BY <1>9, <1>11
<1> QED
  BY <1>9, <1>12 DEF g, S, none

\* What the program knows of the pids after n samples.
KnownAfter(new, pids, samples, n) ==
  \A pid \in pids :
    /\ new[pid] = Gone <=> \A j \in 1..n : samples[j][pid] = Gone
    /\ n > 0 /\ samples[n][pid] # Gone => new[pid] = samples[n][pid].io

LEMMA PsioKnows ==
  ASSUME NEW pids, NEW samples, IsSamples(samples, pids), NEW n \in 0..Len(samples)
  PROVE  KnownAfter(Ps!New(samples)[n], pids, samples, n)
<1> DEFINE N == Len(samples)
           new == Ps!New(samples)
           P == {k \in 0..N : KnownAfter(new[k], pids, samples, k)}
<1>1. /\ new \in [0..N -> PsioState(pids)]
      /\ new[0] = [pid \in pids |-> Gone]
      /\ \A k \in 1..N : new[k] = Ps!NewOf(new[k - 1], samples[k])
  BY PsioRounds
<1>2. N \in Nat /\ Gone \notin Nat /\ \A k \in 1..N : samples[k] \in [pids -> Process \cup {Gone}]
  BY SamplesAre DEF IsSamples
<1> HIDE DEF new
<1>3. 0 \in P
  BY <1>1, <1>2 DEF KnownAfter
<1>4. ASSUME NEW k \in 1..N, k - 1 \in P PROVE k \in P
  <2>1. KnownAfter(new[k - 1], pids, samples, k - 1)
    BY <1>4
  <2>2. ASSUME NEW pid \in pids
        PROVE  /\ new[k][pid] = Gone <=> \A j \in 1..k : samples[j][pid] = Gone
               /\ samples[k][pid] # Gone => new[k][pid] = samples[k][pid].io
    <3>1. new[k][pid] = IF samples[k][pid] = Gone THEN new[k - 1][pid] ELSE samples[k][pid].io
      <4>1. new[k] = Ps!NewOf(new[k - 1], samples[k]) /\ DOMAIN samples[k] = pids
        BY <1>1, <1>2
      <4> QED
        BY <4>1 DEF Ps!NewOf
    <3>2. new[k - 1][pid] = Gone <=> \A j \in 1..(k - 1) : samples[j][pid] = Gone
      BY <2>1 DEF KnownAfter
    <3>3. \A j \in 1..k : j = k \/ j \in 1..(k - 1)
      OBVIOUS
    <3>4. samples[k][pid] # Gone => samples[k][pid].io \in Nat
      <4>1. samples[k][pid] \in Process \cup {Gone}
        BY <1>2
      <4> QED
        BY <4>1 DEF Process
    <3>5. \A j \in 1..(k - 1) : j \in 1..k
      OBVIOUS
    <3> HIDE DEF N
    <3>6. CASE samples[k][pid] = Gone
      BY <3>1, <3>2, <3>3, <3>5, <3>6
    <3>7. CASE samples[k][pid] # Gone
      <4>1. k \in 1..k
        OBVIOUS
      <4> QED
        BY <1>2, <3>1, <3>4, <3>7, <4>1
    <3> QED
      BY <3>6, <3>7
  <2>3. KnownAfter(new[k], pids, samples, k)
    BY <2>2 DEF KnownAfter
  <2> QED
    BY <2>3
<1>5. \A k \in 0..N : k \in P
  <2> HIDE DEF N, P
  <2> QED
    BY <1>2, <1>3, <1>4, Induction
<1> QED
  BY <1>5 DEF new

\* What psio.pl prints for a pid is what was done, if it is one process.
LEMMA PsioTrue ==
  ASSUME NEW pids, NEW samples, IsSamples(samples, pids), NEW n \in 2..Len(samples),
         \A pid \in pids : Ps!OneProcess(samples, pid, n), NEW pid \in pids
  PROVE  LET rw   == Ps!RW(samples, n)
             done == Ps!Done(samples, pid, n) IN
         /\ done \in Nat
         /\ pid \in DOMAIN rw => rw[pid] = done
         /\ pid \notin DOMAIN rw => done = 0
<1> DEFINE old   == Ps!New(samples)[n - 1]
           new   == Ps!New(samples)[n]
           known == {q \in pids : old[q] # Gone /\ new[q] # Gone}
           done  == Ps!Done(samples, pid, n)
           h     == [j \in 1..Len(samples) |-> samples[j][pid]]
<1>1. /\ Len(samples) \in Nat /\ DOMAIN samples[1] = pids /\ Gone \notin Nat
           /\ n - 1 \in 1..Len(samples)
      /\ \A j \in 1..Len(samples) : samples[j][pid] \in Process \cup {Gone}
  BY SamplesAre DEF IsSamples
<1>2. Ps!RW(samples, n) = [q \in known |-> new[q] - old[q]]
  BY <1>1 DEF Ps!RW
<1>3. KnownAfter(old, pids, samples, n - 1) /\ KnownAfter(new, pids, samples, n)
  BY <1>1, PsioKnows
<1> HIDE DEF old, new
<1>4. /\ old[pid] = Gone <=> \A j \in 1..(n - 1) : samples[j][pid] = Gone
      /\ new[pid] = Gone <=> \A j \in 1..n : samples[j][pid] = Gone
      /\ samples[n - 1][pid] # Gone => old[pid] = samples[n - 1][pid].io
      /\ samples[n][pid] # Gone => new[pid] = samples[n][pid].io
  BY <1>1, <1>3 DEF KnownAfter
<1>5. Ps!IsHistory(h)
  BY DEF IsSamples
<1>6. ASSUME NEW j \in 1..n, NEW k \in 1..n, j < k, samples[j][pid] # Gone, samples[k][pid] # Gone
      PROVE  /\ samples[j][pid].io <= samples[k][pid].io
             /\ \A m \in j..k : samples[m][pid] # Gone
  <2>1. samples[j][pid].process = samples[k][pid].process
    BY <1>6 DEF Ps!OneProcess
  <2>2. samples[j][pid].process \in Nat /\ samples[k][pid].process \in Nat
    BY <1>1, <1>6 DEF Process
  <2>3. j \in DOMAIN h /\ k \in DOMAIN h /\ h[j] = samples[j][pid] /\ h[k] = samples[k][pid]
    BY <1>1
  <2>4. \A m \in j..k : h[m] = samples[m][pid]
    BY <1>1
  <2> HIDE DEF h
  <2>5. \/ h[j].process < h[k].process
        \/ /\ h[j].process = h[k].process /\ h[j].io <= h[k].io
           /\ \A m \in j..k : h[m] # Gone /\ h[m].process = h[j].process
    BY <1>5, <1>6, <2>3 DEF Ps!IsHistory
  <2> QED
    BY <2>1, <2>2, <2>3, <2>4, <2>5
<1>7. \A j \in 1..Len(samples) : samples[j][pid] # Gone => samples[j][pid].io \in Nat
  BY <1>1 DEF Process
<1>8. n \in 1..n /\ n - 1 \in 1..n /\ n \in 1..Len(samples)
  OBVIOUS
<1>9. CASE samples[n][pid] # Gone /\ samples[n - 1][pid] # Gone
  <2>1. done = samples[n][pid].io - samples[n - 1][pid].io
    BY <1>9 DEF Ps!Done
  <2>2. samples[n - 1][pid].io <= samples[n][pid].io
    BY <1>6, <1>8, <1>9
  <2>3. samples[n - 1][pid].io \in Nat /\ samples[n][pid].io \in Nat
    BY <1>1, <1>7, <1>8, <1>9
  <2>4. old[pid] = samples[n - 1][pid].io /\ new[pid] = samples[n][pid].io
    BY <1>4, <1>9
  <2>5. pid \in known
    BY <1>1, <2>3, <2>4
  <2>6. done \in Nat /\ new[pid] - old[pid] = done
    BY <2>1, <2>2, <2>3, <2>4
  <2> HIDE DEF done
  <2> QED
    BY <1>2, <2>5, <2>6 DEF done
<1>10. CASE samples[n][pid] = Gone
  <2>1. done = 0
    BY <1>10 DEF Ps!Done
  <2>2. pid \in known => new[pid] = old[pid] /\ old[pid] \in Nat
    <3>1. /\ Ps!New(samples) \in [0..Len(samples) -> PsioState(pids)]
          /\ Ps!New(samples)[n] = Ps!NewOf(Ps!New(samples)[n - 1], samples[n])
      BY <1>8, PsioRounds
    <3>2. old \in [pids -> Nat \cup {Gone}] /\ new = Ps!NewOf(old, samples[n])
      BY <1>1, <3>1 DEF old, new, PsioState
    <3>3. DOMAIN samples[n] = pids
      BY <1>8, SamplesAre
    <3> QED
      BY <1>10, <3>2, <3>3 DEF Ps!NewOf
  <2> HIDE DEF done
  <2> QED
    BY <1>2, <2>1, <2>2 DEF done
<1>11. CASE samples[n][pid] # Gone /\ samples[n - 1][pid] = Gone
  <2>1. done = 0
    BY <1>11 DEF Ps!Done
  <2>2. ASSUME NEW j \in 1..(n - 1), samples[j][pid] # Gone PROVE FALSE
    <3>1. \A m \in j..n : samples[m][pid] # Gone
      BY <1>6, <1>8, <1>11, <2>2
    <3>2. n - 1 \in j..n
      OBVIOUS
    <3> QED
      BY <1>11, <3>1, <3>2
  <2>3. pid \notin known
    BY <1>4, <2>2
  <2> HIDE DEF done
  <2> QED
    BY <1>2, <2>1, <2>3 DEF done
<1> QED
  BY <1>9, <1>10, <1>11

\* psio.pl: what is printed is true, nothing is printed of a process that has
\* gone, and nobody is left out who did more, or anything while there is room.
LEMMA TopRight ==
  ASSUME NEW pids, NEW samples, IsSamples(samples, pids), NEW top \in Nat
  PROVE  Ps!TopReported(samples, top)
<1>1. DOMAIN samples[1] = pids
  BY SamplesAre
<1> SUFFICES ASSUME NEW n \in 2..Len(samples),
                    \A pid \in pids : Ps!OneProcess(samples, pid, n),
                    NEW S \in Ps!Printed(Ps!RW(samples, n), top)
             PROVE  LET rw   == Ps!RW(samples, n)
                        done == [pid \in pids |-> Ps!Done(samples, pid, n)] IN
                    /\ \A pid \in S : done[pid] = rw[pid] /\ done[pid] > 0
                    /\ \A q \in pids \ S :
                         /\ \A p \in S : done[p] >= done[q]
                         /\ done[q] > 0 => Ps!Cardinality(S) = top
  BY <1>1 DEF Ps!TopReported
<1> DEFINE rw     == Ps!RW(samples, n)
           done   == [pid \in pids |-> Ps!Done(samples, pid, n)]
           before == {pid \in DOMAIN rw : rw[pid] > 0}
<1>2. DOMAIN rw \subseteq pids
  BY <1>1 DEF Ps!RW
<1> HIDE DEF rw
<1>3. ASSUME NEW pid \in pids
      PROVE  /\ done[pid] \in Nat
             /\ pid \in DOMAIN rw => rw[pid] = done[pid]
             /\ pid \notin DOMAIN rw => done[pid] = 0
  BY PsioTrue DEF rw
<1> HIDE DEF done
<1>4. (IF \E pid \in DOMAIN rw : rw[pid] = 0 THEN before ELSE DOMAIN rw) = before
  BY <1>2, <1>3
<1>5. /\ S \in SUBSET before
      /\ Cardinality(S) = IF Cardinality(before) < top THEN Cardinality(before) ELSE top
      /\ \A p \in S, q \in before \ S : rw[p] >= rw[q]
  <2> HIDE DEF before
  <2> QED
    BY <1>4, PsioCardinality DEF Ps!Printed, rw, before
<1>6. IsFiniteSet(before) /\ Cardinality(before) \in Nat
  <2>1. IsFiniteSet(pids) /\ before \in SUBSET pids
    BY <1>2 DEF IsSamples
  <2> QED
    BY <2>1, FS_Subset, FS_CardinalityType
<1>7. ASSUME NEW pid \in S PROVE done[pid] = rw[pid] /\ done[pid] > 0
  BY <1>2, <1>3, <1>5
<1>8. ASSUME NEW q \in pids \ S
      PROVE  /\ \A p \in S : done[p] >= done[q]
             /\ done[q] > 0 => Cardinality(S) = top
  <2>1. CASE q \in before
    <3>1. S # before
      BY <1>8, <2>1
    <3>2. Cardinality(S) # Cardinality(before)
      BY <1>5, <1>6, <3>1, FS_Subset
    <3>3. Cardinality(S) = top
      BY <1>5, <1>6, <3>2
    <3>4. \A p \in S : rw[p] >= rw[q]
      BY <1>5, <1>8, <2>1
    <3>5. done[q] = rw[q]
      BY <1>3, <1>8, <2>1
    <3> QED
      BY <1>7, <3>3, <3>4, <3>5
  <2>2. CASE q \notin before
    <3>1. done[q] = 0
      BY <1>3, <1>8, <2>2
    <3>2. \A p \in S : done[p] \in Nat
      BY <1>2, <1>3, <1>5
    <3>3. \A p \in S : done[p] >= 0
      BY <3>2
    <3>4. ~(done[q] > 0)
      BY <3>1
    <3> QED
      BY <3>1, <3>3, <3>4
  <2> QED
    BY <2>1, <2>2
<1>9. Ps!Cardinality(S) = Cardinality(S)
  BY PsioCardinality
<1> QED
  BY <1>7, <1>8, <1>9 DEF rw, done

----------------------------------------------------------------------------
(* exdump.c                                                                *)

LEMMA ExdumpCardinality == \A sun, S : Ex(sun)!Cardinality(S) = Cardinality(S)
BY DEF Ex!Cardinality, Cardinality

\* Where lobj points, round by round.
LEMMA LobjRounds ==
  ASSUME NEW sun, NEW f, IsList(f)
  PROVE  LET at == Ex(sun)!Lobj(f)
             N  == Cardinality(DOMAIN f.next) IN
         /\ N \in Nat
         /\ at \in [0..N -> DOMAIN f.next \cup {0}]
         /\ at[0] = f.first
         /\ \A n \in 1..N : at[n] = IF at[n - 1] = 0 THEN 0 ELSE f.next[at[n - 1]]
<1> DEFINE N == Cardinality(DOMAIN f.next)
           S == DOMAIN f.next \cup {0}
           step == [x \in (1..N) \X S |-> IF x[2] = 0 THEN 0 ELSE f.next[x[2]]]
           Is(s) == s = [n \in 0..N |-> IF n = 0 THEN f.first
                                        ELSE IF s[n - 1] = 0 THEN 0 ELSE f.next[s[n - 1]]]
<1>1. N \in Nat
  BY FS_CardinalityType DEF IsList
<1>2. f.first \in S /\ \A x \in S : (IF x = 0 THEN 0 ELSE f.next[x]) \in S
  BY DEF IsList
<1> HIDE DEF S
<1>3. step \in [(1..N) \X S -> S]
  BY <1>2
<1>4. PICK at : IsLoop(at, N, S, f.first, step)
  <2> HIDE DEF N, step
  <2> QED
    BY <1>1, <1>2, <1>3, Loop
<1>5. ASSUME NEW n \in 1..N
      PROVE  at[n] = IF at[n - 1] = 0 THEN 0 ELSE f.next[at[n - 1]]
  <2> HIDE DEF N
  <2>1. at \in [0..N -> S] /\ at[n] = step[<<n, at[n - 1]>>]
    BY <1>4 DEF IsLoop
  <2>2. at[n - 1] \in S
    BY <1>1, <2>1
  <2> QED
    BY <2>1, <2>2
<1>6. Is(at)
  BY <1>4, <1>5 DEF IsLoop
<1>7. Ex(sun)!Lobj(f) = CHOOSE s : Is(s)
  BY ExdumpCardinality DEF Ex!Lobj
<1>8. Is(Ex(sun)!Lobj(f))
  <2> HIDE DEF Is
  <2> QED
    BY <1>6, <1>7
<1> DEFINE g == Ex(sun)!Lobj(f)
           P == {n \in 0..N : g[n] \in S}
<1>9. g = [n \in 0..N |-> g[n]] /\ g[0] = f.first
      /\ \A n \in 1..N : g[n] = IF g[n - 1] = 0 THEN 0 ELSE f.next[g[n - 1]]
  <2>1. Is(g)
    BY <1>8
  <2>2. \A n \in 1..N : n # 0 /\ n \in 0..N
    BY <1>1
  <2>3. 0 \in 0..N
    BY <1>1
  <2> HIDE DEF N, g
  <2> QED
    BY <2>1, <2>2, <2>3
<1> HIDE DEF g, N
<1>10. 0 \in P /\ \A n \in 1..N : n - 1 \in P => n \in P
  <2>1. 0 \in P
    BY <1>1, <1>2, <1>9
  <2>2. ASSUME NEW n \in 1..N, n - 1 \in P PROVE n \in P
    <3>1. g[n - 1] \in S
      BY <2>2
    <3>2. g[n] \in S
      BY <1>2, <1>9, <3>1
    <3> QED
      BY <3>2
  <2> QED
    BY <2>1, <2>2
<1>11. \A n \in 0..N : n \in P
  <2> HIDE DEF P
  <2> QED
    BY <1>1, <1>10, Induction
<1>12. g \in [0..N -> S]
  BY <1>9, <1>11
<1> QED
  BY <1>1, <1>9, <1>12 DEF g, S, N

LEMMA RoundsAre ==
  ASSUME NEW sun, NEW f, IsList(f)
  PROVE  LET n == Ex(sun)!Rounds(f)
             N == Cardinality(DOMAIN f.next) IN
         /\ n \in 0..N
         /\ n = N \/ Ex(sun)!Lobj(f)[n] = 0
         /\ \A k \in 0..(n - 1) : Ex(sun)!Lobj(f)[k] # 0
<1> DEFINE N == Cardinality(DOMAIN f.next)
           at == Ex(sun)!Lobj(f)
           ends == {n \in 0..N : n = N \/ at[n] = 0}
           Is(n) == (n = N \/ at[n] = 0) /\ \A k \in 0..(n - 1) : at[k] # 0
<1>1. N \in Nat
  BY LobjRounds
<1> HIDE DEF N, at
<1>2. ends \in SUBSET Nat /\ N \in ends
  BY <1>1
<1>3. PICK n \in ends : \A k \in ends : n <= k
  <2> HIDE DEF ends
  <2> QED
    BY <1>2, Smallest
<1>4. \A k \in 0..(n - 1) : k \in 0..N /\ k < n
  BY <1>1, <1>3
<1>5. n \in 0..N /\ Is(n)
  BY <1>1, <1>3, <1>4
<1>6. Ex(sun)!Rounds(f) = CHOOSE k \in 0..N : Is(k)
  BY ExdumpCardinality DEF Ex!Rounds, N, at
<1>7. Ex(sun)!Rounds(f) \in 0..N /\ Is(Ex(sun)!Rounds(f))
  <2> HIDE DEF Is
  <2> QED
    BY <1>5, <1>6
<1> QED
  BY <1>7 DEF N, at

\* print_dynamic lists the libraries from the first one on, to the end of
\* their list and each once, or as many as there are if it has a cycle.
LEMMA LibrariesRight ==
  ASSUME NEW sun, NEW f, IsList(f)
  PROVE  LET libs == Ex(sun)!Libraries(f) IN
         /\ Ex(sun)!Chain(f, libs)
         /\ IF Ex(sun)!Ends(f, libs) THEN Ex(sun)!NoneTwice(libs) ELSE Len(libs) = Cardinality(DOMAIN f.next)
<1> DEFINE N    == Cardinality(DOMAIN f.next)
           n    == Ex(sun)!Rounds(f)
           at   == Ex(sun)!Lobj(f)
           libs == Ex(sun)!Libraries(f)
<1>1. /\ N \in Nat /\ at \in [0..N -> DOMAIN f.next \cup {0}] /\ at[0] = f.first
      /\ \A k \in 1..N : at[k] = IF at[k - 1] = 0 THEN 0 ELSE f.next[at[k - 1]]
  BY LobjRounds
<1>2. n \in 0..N /\ (n = N \/ at[n] = 0) /\ \A k \in 0..(n - 1) : at[k] # 0
  BY RoundsAre
<1>3. libs = [k \in 1..n |-> at[k - 1]]
  BY DEF Ex!Libraries
<1>4. f.first # 0 => N > 0
  <2>1. f.first # 0 => DOMAIN f.next # {}
    BY DEF IsList
  <2>2. N = 0 => DOMAIN f.next = {}
    BY FS_EmptySet DEF IsList
  <2> QED
    BY <1>1, <2>1, <2>2
<1> HIDE DEF N, n, at, libs
<1>5. Len(libs) = n /\ libs \in Seq(DOMAIN f.next \cup {0}) /\ (libs = << >> <=> n = 0)
      /\ DOMAIN libs = 1..n
  <2>1. \A k \in 1..n : at[k - 1] \in DOMAIN f.next \cup {0}
    BY <1>1, <1>2
  <2>2. n \in Nat
    BY <1>1, <1>2
  <2>3. libs \in [1..n -> DOMAIN f.next \cup {0}]
    BY <1>3, <2>1
  <2> QED
    BY <2>2, <2>3
<1>6. \A k \in 1..n : libs[k] = at[k - 1] /\ (k < N \/ k = N)
  BY <1>1, <1>2, <1>3
<1>7. n = 0 <=> f.first = 0
  <2>1. n = 0 => f.first = 0
    BY <1>1, <1>2, <1>4
  <2>2. n > 0 => 0 \in 0..(n - 1)
    BY <1>1, <1>2
  <2> QED
    BY <1>1, <1>2, <2>1, <2>2
<1>8. ASSUME NEW k \in 1..n PROVE f.next[libs[k]] = at[k]
  <2>1. k \in 1..N /\ k - 1 \in 0..(n - 1)
    BY <1>1, <1>2
  <2> QED
    BY <1>1, <1>2, <1>6, <2>1
<1>9. Ex(sun)!Chain(f, libs)
  <2>1. ASSUME NEW j \in 1..(n - 1) PROVE f.next[libs[j]] = libs[j + 1]
    <3>1. j \in 1..n /\ j + 1 \in 1..n /\ (j + 1) - 1 = j
      BY <1>1, <1>2
    <3>2. libs[j + 1] = at[j]
      BY <1>6, <3>1
    <3> QED
      BY <1>8, <3>1, <3>2
  <2>2. n # 0 => libs[1] = f.first
    <3>1. n # 0 => 1 \in 1..n
      BY <1>1, <1>2
    <3> QED
      BY <1>1, <1>6, <3>1
  <2> QED
    BY <1>5, <1>7, <2>1, <2>2 DEF Ex!Chain
<1>10. Ex(sun)!Ends(f, libs) <=> n = 0 \/ at[n] = 0
  <2>1. n # 0 => n \in 1..n
    BY <1>1, <1>2
  <2> QED
    BY <1>5, <1>8, <2>1 DEF Ex!Ends
<1>11. CASE ~Ex(sun)!Ends(f, libs)
  BY <1>2, <1>5, <1>9, <1>10, <1>11 DEF N, libs
<1>12. CASE Ex(sun)!Ends(f, libs)
  <2>1. ASSUME NEW i \in 1..n, NEW j \in 1..n, i < j, libs[i] = libs[j] PROVE FALSE
    <3> DEFINE rest == n - (j - 1)
               P == {k \in 0..rest : at[i - 1 + k] = at[j - 1 + k]}
    <3>1. n \in Nat /\ i \in Nat /\ j \in Nat /\ rest \in Nat /\ n <= N
      BY <1>1, <1>2
    <3>2. at[i - 1] = at[j - 1]
      BY <1>6, <2>1
    <3>3. 0 \in P
      <4>1. i - 1 + 0 = i - 1 /\ j - 1 + 0 = j - 1
        BY <3>1
      <4> QED
        BY <3>1, <3>2, <4>1
    <3>4. ASSUME NEW k \in 1..rest, k - 1 \in P PROVE k \in P
      <4>1. at[i - 1 + (k - 1)] = at[j - 1 + (k - 1)]
        BY <3>4
      <4>2. /\ i - 1 + (k - 1) = (i - 1 + k) - 1 /\ j - 1 + (k - 1) = (j - 1 + k) - 1
            /\ i - 1 + k \in 1..N /\ j - 1 + k \in 1..N
        BY <1>1, <2>1, <3>1
      <4>3. at[(i - 1 + k) - 1] = at[(j - 1 + k) - 1]
        BY <4>1, <4>2
      <4>4. at[i - 1 + k] = at[j - 1 + k]
        BY <1>1, <4>2, <4>3
      <4> QED
        BY <4>4
    <3>5. rest \in P
      <4> HIDE DEF rest, P
      <4>1. rest \in 0..rest
        BY <3>1
      <4> QED
        BY <3>1, <3>3, <3>4, <4>1, Induction
    <3>6. at[i - 1 + rest] = at[j - 1 + rest]
      BY <3>5
    <3>7. j - 1 + rest = n /\ i - 1 + rest \in 0..(n - 1)
      BY <2>1, <3>1
    <3>8. at[n] = 0
      BY <1>10, <1>12, <3>1, <2>1
    <3>9. at[i - 1 + rest] # 0
      BY <1>2, <3>7
    <3> QED
      BY <3>6, <3>7, <3>8, <3>9
  <2>2. ASSUME NEW i \in 1..n, NEW j \in 1..n, libs[i] = libs[j] PROVE i = j
    <3>1. ~(i < j) /\ ~(j < i)
      BY <2>1, <2>2
    <3> QED
      BY <1>1, <1>2, <3>1
  <2>3. Ex(sun)!NoneTwice(libs)
    BY <1>5, <2>2 DEF Ex!NoneTwice
  <2> QED
    BY <1>9, <1>12, <2>3 DEF libs
<1> QED
  BY <1>11, <1>12

\* The state of the program, and what Dump does with it.
ExdumpState(X) == [open : Nat, out : Seq(X), dead : BOOLEAN]

\* What is said of a file if the program gets that far.
Dynamic(sun, o, f) ==
  IF ~Ex(sun)!Follows(o, f) THEN "no" ELSE IF Ex(sun)!Understood(f) THEN "libraries" ELSE "old"

Sections(sun, o, many, files) ==
  {Ex(sun)!Section(o, many, files[k], d) : k \in 1..Len(files), d \in {"no", "libraries", "old"}}

\* From s to t by one round for the file f.
Dumps(sun, o, many, s, f, t) ==
  /\ s.dead => t.dead /\ t.out = s.out
  /\ ~s.dead /\ (~f.opens \/ s.open = MaxFiles \/ f.short) => t.dead /\ t.out = s.out
  /\ ~s.dead /\ f.opens /\ s.open # MaxFiles /\ ~f.short =>
       /\ t.open = s.open + 1
       /\ t.dead <=> Ex(sun)!Follows(o, f) /\ ~f.maps
       /\ t.dead => t.out = Append(s.out, Ex(sun)!Section(o, many, f, "no"))
       /\ ~t.dead => t.out = Append(s.out, Ex(sun)!Section(o, many, f, Dynamic(sun, o, f)))

MayBeDumped(f) == f.opens \in BOOLEAN /\ f.short \in BOOLEAN /\ f.maps \in BOOLEAN

LEMMA DumpIs ==
  ASSUME NEW sun, NEW X, NEW s \in ExdumpState(X), NEW o, NEW many, NEW f, MayBeDumped(f),
         \A d \in {"no", "libraries", "old"} : Ex(sun)!Section(o, many, f, d) \in X
  PROVE  /\ Ex(sun)!Dump(o, many, s, f) \in ExdumpState(X)
         /\ Dumps(sun, o, many, s, f, Ex(sun)!Dump(o, many, s, f))
<1> DEFINE t == Ex(sun)!Dump(o, many, s, f)
           Add(d) == Append(s.out, Ex(sun)!Section(o, many, f, d))
<1>1. s = [open |-> s.open, out |-> s.out, dead |-> s.dead]
      /\ s.open \in Nat /\ s.out \in Seq(X) /\ s.dead \in BOOLEAN
  BY DEF ExdumpState
<1>2. \A d \in {"no", "libraries", "old"} : Add(d) \in Seq(X)
  BY <1>1, AppendProperties
<1> HIDE DEF Add
<1>3. t = IF s.dead \/ ~f.opens \/ s.open = MaxFiles \/ f.short THEN [s EXCEPT !.dead = TRUE]
          ELSE IF ~Ex(sun)!Follows(o, f) THEN [s EXCEPT !.open = @ + 1, !.out = Add("no")]
          ELSE IF ~f.maps THEN [open |-> s.open + 1, out |-> Add("no"), dead |-> TRUE]
          ELSE [s EXCEPT !.open = @ + 1,
                         !.out = Add(IF Ex(sun)!Understood(f) THEN "libraries" ELSE "old")]
  BY DEF Ex!Dump, Add
<1>8. f.opens \in BOOLEAN /\ f.short \in BOOLEAN /\ f.maps \in BOOLEAN
  BY DEF MayBeDumped
<1> HIDE DEF t
<1>4. CASE s.dead \/ ~f.opens \/ s.open = MaxFiles \/ f.short
  <2>1. t = [open |-> s.open, out |-> s.out, dead |-> TRUE]
    BY <1>1, <1>3, <1>4
  <2>2. t \in ExdumpState(X)
    BY <1>1, <2>1 DEF ExdumpState
  <2> QED
    BY <1>1, <1>4, <1>8, <2>1, <2>2 DEF t, Dumps
<1>5. CASE ~(s.dead \/ ~f.opens \/ s.open = MaxFiles \/ f.short) /\ ~Ex(sun)!Follows(o, f)
  <2>1. t = [open |-> s.open + 1, out |-> Add("no"), dead |-> FALSE]
    BY <1>1, <1>3, <1>5
  <2>2. t \in ExdumpState(X)
    BY <1>1, <1>2, <2>1 DEF ExdumpState
  <2> QED
    BY <1>1, <1>5, <1>8, <2>1, <2>2 DEF t, Add, Dynamic, Dumps
<1>6. CASE /\ ~(s.dead \/ ~f.opens \/ s.open = MaxFiles \/ f.short)
           /\ Ex(sun)!Follows(o, f) /\ ~f.maps
  <2>1. t = [open |-> s.open + 1, out |-> Add("no"), dead |-> TRUE]
    BY <1>1, <1>3, <1>6
  <2>2. t \in ExdumpState(X)
    BY <1>1, <1>2, <2>1 DEF ExdumpState
  <2> QED
    BY <1>1, <1>6, <1>8, <2>1, <2>2 DEF t, Add, Dumps
<1>7. CASE /\ ~(s.dead \/ ~f.opens \/ s.open = MaxFiles \/ f.short)
           /\ Ex(sun)!Follows(o, f) /\ f.maps
  <2>1. t = [open |-> s.open + 1, out |-> Add(Dynamic(sun, o, f)), dead |-> FALSE]
    BY <1>1, <1>3, <1>7 DEF Dynamic
  <2>2. Dynamic(sun, o, f) \in {"no", "libraries", "old"}
    BY DEF Dynamic
  <2>3. t \in ExdumpState(X)
    BY <1>1, <1>2, <2>1, <2>2 DEF ExdumpState
  <2> QED
    BY <1>1, <1>7, <1>8, <2>1, <2>3 DEF t, Add, Dumps
<1> QED
  BY <1>4, <1>5, <1>6, <1>7

\* The program round by round.
DumpsAll(sun, args, files) ==
  LET o    == Ex(sun)!Options(args)
      many == Len(files) > 1
      X    == Sections(sun, o, many, files)
      s    == Ex(sun)!After(args, files) IN
  /\ s \in [0..Len(files) -> ExdumpState(X)]
  /\ s[0] = [open |-> 0, out |-> << >>, dead |-> FALSE]
  /\ \A n \in 1..Len(files) : s[n] = Ex(sun)!Dump(o, many, s[n - 1], files[n])

LEMMA ExdumpRounds ==
  ASSUME NEW sun, NEW args, NEW Files, \A f \in Files : IsFile(f), NEW files \in Seq(Files)
  PROVE  DumpsAll(sun, args, files)
<1> DEFINE N == Len(files)
           o == Ex(sun)!Options(args)
           many == Len(files) > 1
           X == Sections(sun, o, many, files)
           S == ExdumpState(X)
           first == [open |-> 0, out |-> << >>, dead |-> FALSE]
           step == [x \in (1..N) \X S |-> Ex(sun)!Dump(o, many, x[2], files[x[1]])]
           Is(s) == s = [n \in 0..N |-> IF n = 0 THEN first
                                        ELSE Ex(sun)!Dump(o, many, s[n - 1], files[n])]
<1>1. N \in Nat /\ \A n \in 1..N : IsFile(files[n])
  OBVIOUS
<1>2. first \in S
  BY DEF ExdumpState
<1>3. \A n \in 1..N, s \in S : Ex(sun)!Dump(o, many, s, files[n]) \in S
  <2> SUFFICES ASSUME NEW n \in 1..N, NEW s \in S PROVE Ex(sun)!Dump(o, many, s, files[n]) \in S
    OBVIOUS
  <2>1. MayBeDumped(files[n])
    BY <1>1 DEF IsFile, MayBeDumped
  <2>2. \A d \in {"no", "libraries", "old"} : Ex(sun)!Section(o, many, files[n], d) \in X
    BY DEF Sections
  <2> HIDE DEF X, o, many
  <2> QED
    BY <2>1, <2>2, DumpIs
<1>4. Ex(sun)!After(args, files) = CHOOSE s : Is(s)
  BY DEF Ex!After
<1> HIDE DEF S, first, o, many
<1>5. step \in [(1..N) \X S -> S]
  BY <1>3
<1>6. PICK f : IsLoop(f, N, S, first, step)
  <2> HIDE DEF N, step
  <2>1. N \in Nat
    BY <1>1
  <2> QED
    BY <1>2, <1>5, <2>1, Loop
<1>7. ASSUME NEW n \in 1..N PROVE f[n] = Ex(sun)!Dump(o, many, f[n - 1], files[n])
  <2>1. N \in Nat
    BY <1>1
  <2> HIDE DEF N
  <2>2. f \in [0..N -> S] /\ f[n] = step[<<n, f[n - 1]>>]
    BY <1>6 DEF IsLoop
  <2>3. f[n - 1] \in S
    BY <2>1, <2>2
  <2> QED
    BY <2>2, <2>3
<1>8. Is(f)
  BY <1>6, <1>7 DEF IsLoop
<1> DEFINE g == Ex(sun)!After(args, files)
<1>9. Is(g)
  <2> HIDE DEF Is
  <2> QED
    BY <1>4, <1>8
<1> HIDE DEF g
<1>10. g = [n \in 0..N |-> g[n]] /\ g[0] = first
       /\ \A n \in 1..N : g[n] = Ex(sun)!Dump(o, many, g[n - 1], files[n])
  <2>1. 0 \in 0..N /\ \A n \in 1..N : n # 0 /\ n \in 0..N
    BY <1>1
  <2> HIDE DEF N
  <2> QED
    BY <1>9, <2>1
<1> DEFINE P == {n \in 0..N : g[n] \in S}
<1>11. 0 \in P
  BY <1>1, <1>2, <1>10
<1>12. ASSUME NEW n \in 1..N, n - 1 \in P PROVE n \in P
  <2>1. g[n] \in S
    BY <1>3, <1>10, <1>12
  <2> QED
    BY <2>1
<1>13. \A n \in 0..N : n \in P
  <2>1. N \in Nat
    BY <1>1
  <2> HIDE DEF N, P
  <2> QED
    BY <1>11, <1>12, <2>1, Induction
<1>14. g \in [0..N -> S]
  BY <1>10, <1>13
<1> QED
  BY <1>10, <1>14 DEF g, S, first, o, many, DumpsAll

\* How far the program is after n files: up to the first fatal one.
ExdumpIs(sun, s, o, many, files, n) ==
  LET Sec(k) == Ex(sun)!Section(o, many, files[k], Dynamic(sun, o, files[k])) IN
  IF ~s.dead
  THEN /\ s.open = n /\ n <= MaxFiles
       /\ \A k \in 1..n : ~Ex(sun)!Fatal(o, files, k)
       /\ Len(s.out) = n
       /\ \A k \in 1..n : s.out[k] = Sec(k)
  ELSE \E k \in 1..n :
         /\ Ex(sun)!Fatal(o, files, k) /\ \A j \in 1..(k - 1) : ~Ex(sun)!Fatal(o, files, j)
         /\ Len(s.out) \in {k - 1, k}
         /\ Len(s.out) = k => s.out[k].dynamic = "no"
         /\ \A j \in 1..(k - 1) : s.out[j] = Sec(j)

LEMMA ExdumpRound ==
  ASSUME NEW sun, ExdumpNumbers, NEW o, NEW many, NEW X, NEW files, NEW n \in Nat \ {0}, IsFile(files[n]),
         \A d \in {"no", "libraries", "old"} : Ex(sun)!Section(o, many, files[n], d) \in X,
         NEW s \in ExdumpState(X), ExdumpIs(sun, s, o, many, files, n - 1)
  PROVE  ExdumpIs(sun, Ex(sun)!Dump(o, many, s, files[n]), o, many, files, n)
<1> DEFINE t == Ex(sun)!Dump(o, many, s, files[n])
           f == files[n]
           Sec(k) == Ex(sun)!Section(o, many, files[k], Dynamic(sun, o, files[k]))
<1>1. /\ f.opens \in BOOLEAN /\ f.short \in BOOLEAN /\ f.maps \in BOOLEAN
      /\ MayBeDumped(f)
  BY DEF IsFile, MayBeDumped
<1>9. t \in ExdumpState(X) /\ Dumps(sun, o, many, s, f, t)
  BY <1>1, DumpIs
<1>2. /\ t \in ExdumpState(X)
      /\ s.dead => t.dead /\ t.out = s.out
      /\ ~s.dead /\ (~f.opens \/ s.open = MaxFiles \/ f.short) => t.dead /\ t.out = s.out
      /\ ~s.dead /\ f.opens /\ s.open # MaxFiles /\ ~f.short =>
           /\ t.open = s.open + 1
           /\ t.dead <=> Ex(sun)!Follows(o, f) /\ ~f.maps
           /\ t.dead => t.out = Append(s.out, Ex(sun)!Section(o, many, f, "no"))
           /\ ~t.dead => t.out = Append(s.out, Ex(sun)!Section(o, many, f, Dynamic(sun, o, f)))
  BY <1>9 DEF Dumps
<1>3. s.out \in Seq(X) /\ s.dead \in BOOLEAN /\ s.open \in Nat /\ MaxFiles \in Nat
  BY DEF ExdumpState, ExdumpNumbers
<1>4. Ex(sun)!Fatal(o, files, n) <=>
        ~f.opens \/ f.short \/ n > MaxFiles \/ (Ex(sun)!Follows(o, f) /\ ~f.maps)
  BY DEF Ex!Fatal
<1>5. \A k \in 1..n : k = n \/ k \in 1..(n - 1)
  OBVIOUS
<1>6. n \in 1..n /\ \A k \in 1..(n - 1) : k \in 1..n
  OBVIOUS
<1> HIDE DEF t, f, Sec
<1>7. CASE s.dead
  <2>1. PICK k \in 1..(n - 1) :
          /\ Ex(sun)!Fatal(o, files, k) /\ \A j \in 1..(k - 1) : ~Ex(sun)!Fatal(o, files, j)
          /\ Len(s.out) \in {k - 1, k}
          /\ Len(s.out) = k => s.out[k].dynamic = "no"
          /\ \A j \in 1..(k - 1) : s.out[j] = Sec(j)
    BY <1>7 DEF ExdumpIs, Sec
  <2>2. ExdumpIs(sun, t, o, many, files, n)
    BY <1>2, <1>6, <1>7, <2>1 DEF ExdumpIs, Sec
  <2> QED
    BY <2>2 DEF t
<1>8. CASE ~s.dead
  <2>1. /\ s.open = n - 1 /\ n - 1 <= MaxFiles
        /\ \A k \in 1..(n - 1) : ~Ex(sun)!Fatal(o, files, k)
        /\ Len(s.out) = n - 1
        /\ \A k \in 1..(n - 1) : s.out[k] = Sec(k)
    BY <1>8 DEF ExdumpIs, Sec
  <2>2. CASE ~f.opens \/ s.open = MaxFiles \/ f.short
    <3>1. t.dead /\ t.out = s.out
      BY <1>2, <1>8, <2>2
    <3>2. Ex(sun)!Fatal(o, files, n)
      BY <1>3, <1>4, <2>1, <2>2
    <3>3. Len(t.out) \in {n - 1, n} /\ Len(t.out) # n
      BY <2>1, <3>1
    <3>4. \A j \in 1..(n - 1) : t.out[j] = Sec(j)
      BY <2>1, <3>1
    <3>5. ExdumpIs(sun, t, o, many, files, n)
      BY <1>6, <2>1, <3>1, <3>2, <3>3, <3>4 DEF ExdumpIs, Sec
    <3> QED
      BY <3>5 DEF t
  <2>3. CASE f.opens /\ s.open # MaxFiles /\ ~f.short
    <3>1. /\ t.open = n
          /\ t.dead <=> Ex(sun)!Follows(o, f) /\ ~f.maps
          /\ t.dead => t.out = Append(s.out, Ex(sun)!Section(o, many, f, "no"))
          /\ ~t.dead => t.out = Append(s.out, Sec(n))
      BY <1>2, <1>8, <2>1, <2>3 DEF Sec, f
    <3>2. n <= MaxFiles /\ ~(n > MaxFiles)
      BY <1>3, <2>1, <2>3
    <3>3. Ex(sun)!Fatal(o, files, n) <=> t.dead
      BY <1>4, <2>3, <3>1, <3>2
    <3>4. CASE t.dead
      <4>1. t.out = Append(s.out, Ex(sun)!Section(o, many, f, "no"))
        BY <3>1, <3>4
      <4>2. Len(t.out) = n /\ t.out[n] = Ex(sun)!Section(o, many, f, "no")
            /\ \A j \in 1..(n - 1) : t.out[j] = s.out[j]
        BY <1>3, <2>1, <4>1
      <4>3. t.out[n].dynamic = "no"
        BY <4>2 DEF Ex!Section
      <4>4. \A j \in 1..(n - 1) : t.out[j] = Sec(j)
        BY <2>1, <4>2
      <4>5. ExdumpIs(sun, t, o, many, files, n)
        BY <1>6, <2>1, <3>3, <3>4, <4>2, <4>3, <4>4 DEF ExdumpIs, Sec
      <4> QED
        BY <4>5 DEF t
    <3>5. CASE ~t.dead
      <4>1. t.out = Append(s.out, Sec(n))
        BY <3>1, <3>5
      <4>2. Len(t.out) = n /\ t.out[n] = Sec(n) /\ \A j \in 1..(n - 1) : t.out[j] = s.out[j]
        BY <1>3, <2>1, <4>1
      <4>3. \A k \in 1..n : t.out[k] = Sec(k)
        BY <1>5, <2>1, <4>2
      <4>4. \A k \in 1..n : ~Ex(sun)!Fatal(o, files, k)
        BY <1>5, <2>1, <3>3, <3>5
      <4>5. ExdumpIs(sun, t, o, many, files, n)
        BY <3>1, <3>2, <3>5, <4>2, <4>3, <4>4 DEF ExdumpIs, Sec
      <4> QED
        BY <4>5 DEF t
    <3> QED
      BY <3>4, <3>5
  <2> QED
    BY <1>1, <2>2, <2>3 DEF f
<1> QED
  BY <1>3, <1>7, <1>8

LEMMA ExdumpEnds ==
  ASSUME NEW sun, ExdumpNumbers, NEW args, NEW Files, \A f \in Files : IsFile(f), NEW files \in Seq(Files)
  PROVE  LET s == Ex(sun)!After(args, files)[Len(files)] IN
         /\ ExdumpIs(sun, s, Ex(sun)!Options(args), Len(files) > 1, files, Len(files))
         /\ s.dead \in BOOLEAN /\ Len(s.out) \in Nat
<1> DEFINE N == Len(files)
           o == Ex(sun)!Options(args)
           many == Len(files) > 1
           X == Sections(sun, o, many, files)
           s == Ex(sun)!After(args, files)
           P == {n \in 0..N : ExdumpIs(sun, s[n], o, many, files, n)}
<1>1. /\ s \in [0..N -> ExdumpState(X)]
      /\ s[0] = [open |-> 0, out |-> << >>, dead |-> FALSE]
      /\ \A n \in 1..N : s[n] = Ex(sun)!Dump(o, many, s[n - 1], files[n])
  <2>1. DumpsAll(sun, args, files)
    BY ExdumpRounds
  <2> QED
    BY <2>1 DEF DumpsAll
<1>2. N \in Nat /\ \A n \in 1..N : IsFile(files[n])
  OBVIOUS
<1>3. \A n \in 1..N, d \in {"no", "libraries", "old"} : Ex(sun)!Section(o, many, files[n], d) \in X
  BY DEF Sections
<1> HIDE DEF o, many, X, s
<1>4. 0 \in P
  <2>1. ~s[0].dead /\ s[0].open = 0 /\ Len(s[0].out) = 0
    BY <1>1
  <2>2. ExdumpIs(sun, s[0], o, many, files, 0)
    BY <2>1 DEF ExdumpIs, ExdumpNumbers
  <2> QED
    BY <1>2, <2>2
<1>5. ASSUME NEW n \in 1..N, n - 1 \in P PROVE n \in P
  <2>1. s[n - 1] \in ExdumpState(X) /\ ExdumpIs(sun, s[n - 1], o, many, files, n - 1)
    BY <1>1, <1>2, <1>5
  <2>2. n \in Nat \ {0} /\ IsFile(files[n])
    BY <1>2
  <2>3. ExdumpIs(sun, Ex(sun)!Dump(o, many, s[n - 1], files[n]), o, many, files, n)
    BY <1>3, <2>1, <2>2, ExdumpRound
  <2> QED
    BY <1>1, <2>3
<1>6. N \in P
  <2>1. N \in Nat /\ N \in 0..N
    BY <1>2
  <2>2. \A n \in 1..N : n - 1 \in P => n \in P
    BY <1>5
  <2> HIDE DEF N, P
  <2>3. \A n \in 0..N : n \in P
    BY <1>4, <2>1, <2>2, Induction
  <2> QED
    BY <2>1, <2>3
<1>7. s[N] \in ExdumpState(X)
  BY <1>1, <1>2
<1>8. s[N].dead \in BOOLEAN /\ Len(s[N].out) \in Nat
  BY <1>7 DEF ExdumpState
<1> QED
  BY <1>6, <1>8 DEF s, o, many

LEMMA ByteswapTwice == \A sun, in : in \in Byte \X Byte \X Byte \X Byte =>
                         Ex(sun)!Byteswap(Ex(sun)!Byteswap(in)) = in
<1> SUFFICES ASSUME NEW sun, NEW a \in Byte, NEW b \in Byte, NEW c \in Byte, NEW d \in Byte
             PROVE  Ex(sun)!Byteswap(Ex(sun)!Byteswap(<<a, b, c, d>>)) = <<a, b, c, d>>
  OBVIOUS
<1> QED
  BY DEF Ex!Byteswap

LEMMA ExdumpHeader ==
  ASSUME NEW sun, NEW f, IsFile(f), NEW o, o.f \in BOOLEAN, o.s \in BOOLEAN
  PROVE  Ex(sun)!HeaderRight(o, f, Ex(sun)!Header(o, f))
<1> DEFINE h == Ex(sun)!Header(o, f)
           raw == Ex(sun)!Raw(f)
<1>1. /\ raw = IF f.foreign THEN Ex(sun)!Byteswap(f.size) ELSE f.size
      /\ Ex(sun)!Byteswap(Ex(sun)!Byteswap(f.size)) = f.size
      /\ f.foreign \in BOOLEAN
  BY ByteswapTwice DEF IsFile, Ex!Raw, Ex!Byteswap
<1>2. Ex(sun)!Magic(f) # "bad"
  BY DEF IsFile, Ex!Magic
<1>3. (IF Ex(sun)!Bad(f) THEN "bad" ELSE Ex(sun)!Magic(f)) = "bad" <=> Ex(sun)!Bad(f)
  BY <1>2
<1>4. Ex(sun)!PrintMagic(f)[2] = IF Ex(sun)!Bad(f) THEN "bad" ELSE Ex(sun)!Magic(f)
  BY DEF Ex!PrintMagic
<1> HIDE DEF raw
<1>5. CASE Ex(sun)!Bad(f) /\ ~o.f
  <2>1. h = [magic |-> << >>, sizes |-> << >>]
    BY <1>5 DEF Ex!Header
  <2> QED
    BY <1>5, <2>1 DEF Ex!HeaderRight
<1>6. CASE ~(Ex(sun)!Bad(f) /\ ~o.f) /\ o.s
  <2>1. h = [magic |-> << >>, sizes |-> <<Ex(sun)!Byteswap(raw)>>]
    BY <1>6 DEF Ex!Header, raw
  <2> HIDE DEF h
  <2>2. h.magic = << >> /\ h.sizes # << >> /\ h.sizes[1] = Ex(sun)!Byteswap(raw)
    BY <2>1
  <2>3. h.sizes[1] = f.size <=> o.s = f.foreign \/ Ex(sun)!Byteswap(f.size) = f.size
    BY <1>1, <1>6, <2>2
  <2>4. Ex(sun)!HeaderRight(o, f, h)
    BY <1>6, <2>2, <2>3 DEF Ex!HeaderRight
  <2> QED
    BY <2>4 DEF h
<1>7. CASE ~(Ex(sun)!Bad(f) /\ ~o.f) /\ ~o.s
  <2>1. h = [magic |-> Ex(sun)!PrintMagic(f), sizes |-> <<raw>>]
    BY <1>7 DEF Ex!Header, raw
  <2> HIDE DEF h
  <2>2. h.magic = Ex(sun)!PrintMagic(f) /\ h.sizes # << >> /\ h.sizes[1] = raw
    BY <2>1
  <2>3. h.sizes[1] = f.size <=> o.s = f.foreign \/ Ex(sun)!Byteswap(f.size) = f.size
    BY <1>1, <1>7, <2>2
  <2>4. h.magic[2] = "bad" <=> Ex(sun)!Bad(f)
    BY <1>3, <1>4, <2>2
  <2>5. Ex(sun)!HeaderRight(o, f, h)
    BY <1>7, <2>2, <2>3, <2>4 DEF Ex!HeaderRight
  <2> QED
    BY <2>5 DEF h
<1> QED
  BY <1>5, <1>6, <1>7

\* The section of a file that did not end the program.
SectionRight(sun, o, f, section) ==
  LET libs == section.libs IN
  /\ Ex(sun)!HeaderRight(o, f, section.header)
  /\ section.dynamic = "libraries" <=>
       f.dynamic /\ Ex(sun)!Understood(f) /\ ~Ex(sun)!Bad(f) /\ ~o.f
  /\ section.dynamic = "libraries" =>
       /\ Ex(sun)!Chain(f, libs)
       /\ IF Ex(sun)!Ends(f, libs) THEN Ex(sun)!NoneTwice(libs)
          ELSE Len(libs) = Ex(sun)!Cardinality(DOMAIN f.next)

LEMMA ExdumpSection ==
  ASSUME NEW sun, NEW f, IsFile(f), NEW o, o.f \in BOOLEAN, o.s \in BOOLEAN, NEW many
  PROVE  SectionRight(sun, o, f, Ex(sun)!Section(o, many, f, Dynamic(sun, o, f)))
<1> DEFINE d == Dynamic(sun, o, f)
           section == Ex(sun)!Section(o, many, f, d)
<1>1. /\ section.header = Ex(sun)!Header(o, f) /\ section.dynamic = d
      /\ d = "libraries" => section.libs = Ex(sun)!Libraries(f)
  BY DEF Ex!Section
<1>2. d = "libraries" <=> f.dynamic /\ Ex(sun)!Understood(f) /\ ~Ex(sun)!Bad(f) /\ ~o.f
  BY DEF Dynamic, Ex!Follows
<1>3. Ex(sun)!HeaderRight(o, f, section.header)
  BY <1>1, ExdumpHeader
<1>4. IsList(f)
  BY DEF IsFile
<1> HIDE DEF d, section
<1>5. d = "libraries" => /\ Ex(sun)!Chain(f, section.libs)
                         /\ IF Ex(sun)!Ends(f, section.libs) THEN Ex(sun)!NoneTwice(section.libs)
                            ELSE Len(section.libs) = Ex(sun)!Cardinality(DOMAIN f.next)
  BY <1>1, <1>4, LibrariesRight, ExdumpCardinality
<1> QED
  BY <1>1, <1>2, <1>3, <1>5 DEF d, section, SectionRight

\* exdump, for any files and options: ExdumpReports.
LEMMA ExdumpRight ==
  ASSUME NEW sun, ExdumpNumbers, NEW args,
         NEW Files, \A f \in Files : IsFile(f), NEW files \in Seq(Files)
  PROVE  Ex(sun)!ExdumpReports(args, files)
<1> DEFINE N      == Len(files)
           o      == Ex(sun)!Options(args)
           many   == Len(files) > 1
           s      == Ex(sun)!After(args, files)[N]
           result == Ex(sun)!Output(args, files)
           good   == {k \in DOMAIN files : \A j \in 1..k : ~Ex(sun)!Fatal(o, files, j)}
<1>1. /\ ExdumpIs(sun, s, o, many, files, N) /\ s.dead \in BOOLEAN /\ Len(s.out) \in Nat
  BY ExdumpEnds
<1>2. N \in Nat /\ DOMAIN files = 1..N /\ \A k \in 1..N : IsFile(files[k])
  OBVIOUS
<1>3. o.f \in BOOLEAN /\ o.s \in BOOLEAN
  BY DEF Ex!Options
<1>4. Ex(sun)!Usage(args, files) =>
        result.dead /\ Len(result.out) = 0
  BY DEF Ex!Output
<1>5. ~Ex(sun)!Usage(args, files) => result = s
  BY DEF Ex!Output
<1>6. \A k \in 1..N : SectionRight(sun, o, files[k], Ex(sun)!Section(o, many, files[k], Dynamic(sun, o, files[k])))
  BY <1>2, <1>3, ExdumpSection
<1>7. Ex(sun)!ExdumpReports(args, files) <=>
        /\ result.dead <=> Ex(sun)!Usage(args, files) \/ good # DOMAIN files
        /\ Ex(sun)!Usage(args, files) => Len(result.out) = 0
        /\ ~Ex(sun)!Usage(args, files) =>
             /\ Len(result.out) \in Cardinality(good)..(Cardinality(good) + 1)
             /\ Len(result.out) > Cardinality(good) => result.out[Len(result.out)].dynamic = "no"
             /\ \A k \in good : SectionRight(sun, o, files[k], result.out[k])
  BY ExdumpCardinality DEF Ex!ExdumpReports, SectionRight
<1> DEFINE Sec(k) == Ex(sun)!Section(o, many, files[k], Dynamic(sun, o, files[k]))
<1> HIDE DEF s, result, o, many
<1>8. CASE Ex(sun)!Usage(args, files)
  BY <1>4, <1>7, <1>8
<1>9. CASE ~Ex(sun)!Usage(args, files) /\ ~s.dead
  <2>1. /\ \A k \in 1..N : ~Ex(sun)!Fatal(o, files, k)
        /\ Len(s.out) = N
        /\ \A k \in 1..N : s.out[k] = Sec(k)
    BY <1>1, <1>9 DEF ExdumpIs
  <2>2. good = 1..N
    BY <1>2, <2>1
  <2>3. Cardinality(good) = N
    <3> HIDE DEF good, N
    <3>1. Cardinality(1..N) = N
      BY <1>2, FS_Interval
    <3> QED
      BY <2>2, <3>1
  <2>4. \A k \in good : SectionRight(sun, o, files[k], s.out[k])
    BY <1>6, <2>1, <2>2
  <2> HIDE DEF good, N
  <2> QED
    BY <1>2, <1>5, <1>7, <1>9, <2>1, <2>2, <2>3, <2>4
<1>10. CASE ~Ex(sun)!Usage(args, files) /\ s.dead
  <2>1. PICK k \in 1..N :
          /\ Ex(sun)!Fatal(o, files, k) /\ \A j \in 1..(k - 1) : ~Ex(sun)!Fatal(o, files, j)
          /\ Len(s.out) \in {k - 1, k}
          /\ Len(s.out) = k => s.out[k].dynamic = "no"
          /\ \A j \in 1..(k - 1) : s.out[j] = Sec(j)
    BY <1>1, <1>10 DEF ExdumpIs
  <2>2. good = 1..(k - 1)
    <3>1. ASSUME NEW i \in good PROVE i \in 1..(k - 1)
      <4>1. i \in 1..N /\ ~(k \in 1..i)
        BY <1>2, <2>1
      <4> QED
        BY <1>2, <4>1
    <3>2. ASSUME NEW i \in 1..(k - 1) PROVE i \in good
      <4>1. i \in 1..N /\ \A j \in 1..i : j \in 1..(k - 1)
        BY <1>2
      <4> QED
        BY <1>2, <2>1, <4>1
    <3> QED
      BY <3>1, <3>2
  <2>3. Cardinality(good) = k - 1
    <3> HIDE DEF good
    <3>1. k - 1 \in Nat
      BY <1>2
    <3>2. Cardinality(1..(k - 1)) = k - 1
      BY <3>1, FS_Interval
    <3> QED
      BY <2>2, <3>2
  <2>4. \A j \in good : SectionRight(sun, o, files[j], s.out[j])
    <3>1. \A j \in 1..(k - 1) : j \in 1..N
      BY <1>2
    <3> QED
      BY <1>6, <2>1, <2>2, <3>1
  <2>5. good # DOMAIN files
    <3>1. k \notin 1..(k - 1) /\ k \in DOMAIN files
      BY <1>2
    <3> QED
      BY <2>2, <3>1
  <2>6. Len(s.out) \in (k - 1)..k /\ (Len(s.out) > k - 1 => s.out[Len(s.out)].dynamic = "no")
        /\ (k - 1) + 1 = k
    BY <1>1, <1>2, <2>1
  <2> HIDE DEF good, N
  <2> QED
    BY <1>5, <1>7, <1>10, <2>3, <2>4, <2>5, <2>6
<1> QED
  BY <1>1, <1>8, <1>9, <1>10

----------------------------------------------------------------------------
(* httpq                                                                   *)

HttpState == [at : {"connect", "read", "ignore", "close", "undef"}, got : Nat, sent : BOOLEAN]
HttpStart == [at |-> "connect", got |-> 0, sent |-> FALSE]

HttpIs(s, at, got, sent) == s.at = at /\ s.got = got /\ (s.sent <=> sent)

LEMMA GetTypes ==
  ASSUME NEW dies \in BOOLEAN, NEW s \in HttpState, NEW event
  PROVE  Http(dies)!Get(s, event) \in HttpState
<1>1. /\ [s EXCEPT !.at = "read", !.sent = TRUE] \in HttpState
      /\ [s EXCEPT !.at = "undef"] \in HttpState
      /\ [s EXCEPT !.at = "ignore"] \in HttpState
      /\ [s EXCEPT !.at = "close"] \in HttpState
  BY DEF HttpState
<1>2. [s EXCEPT !.got = @ + 1] \in HttpState
  BY DEF HttpState
<1>3. Http(dies)!Alarmed(s) \in HttpState
  BY <1>1 DEF Http!Alarmed
<1> QED
  BY <1>1, <1>2, <1>3 DEF Http!Get

\* get, event by event.
LEMMA GetIs ==
  ASSUME NEW dies \in BOOLEAN, NEW s \in HttpState, NEW event
  PROVE  LET t == Http(dies)!Get(s, event) IN
         /\ s.at = "connect" /\ event = "accepted" => HttpIs(t, "read", s.got, TRUE)
         /\ s.at = "connect" /\ event = "refused"  => HttpIs(t, "undef", s.got, s.sent)
         /\ s.at = "read" /\ event = "piece"       => HttpIs(t, "read", s.got + 1, s.sent)
         /\ s.at = "read" /\ event = "end"         => HttpIs(t, "ignore", s.got, s.sent)
         /\ s.at = "ignore" /\ event = "ignore"    => HttpIs(t, "close", s.got, s.sent)
         /\ s.at \in {"connect", "read", "ignore"} /\ event = "alarm" =>
              IF dies \/ s.at = "connect" THEN HttpIs(t, "undef", s.got, s.sent) ELSE t = s
         /\ s.at \in {"close", "undef"} => t = s
<1> DEFINE t == Http(dies)!Get(s, event)
<1>1. /\ HttpIs([s EXCEPT !.at = "undef"], "undef", s.got, s.sent)
      /\ HttpIs([s EXCEPT !.got = @ + 1], s.at, s.got + 1, s.sent)
      /\ HttpIs([s EXCEPT !.at = "ignore"], "ignore", s.got, s.sent)
      /\ HttpIs([s EXCEPT !.at = "close"], "close", s.got, s.sent)
  BY DEF HttpIs, HttpState
<1>2. HttpIs([s EXCEPT !.at = "read", !.sent = TRUE], "read", s.got, TRUE)
  BY DEF HttpIs, HttpState
<1>3. s.at = "connect" /\ event = "accepted" => t = [s EXCEPT !.at = "read", !.sent = TRUE]
  BY DEF Http!Get
<1>4. s.at = "connect" /\ event = "refused"  => t = [s EXCEPT !.at = "undef"]
  BY DEF Http!Get
<1>5. s.at = "read" /\ event = "piece"       => t = [s EXCEPT !.got = @ + 1]
  BY DEF Http!Get
<1>6. s.at = "read" /\ event = "end"         => t = [s EXCEPT !.at = "ignore"]
  BY DEF Http!Get
<1>7. s.at = "ignore" /\ event = "ignore"    => t = [s EXCEPT !.at = "close"]
  BY DEF Http!Get
<1>8. s.at \in {"connect", "read", "ignore"} /\ event = "alarm" =>
              t = IF dies \/ s.at = "connect" THEN [s EXCEPT !.at = "undef"] ELSE s
  BY DEF Http!Get, Http!Alarmed
<1>9. s.at \in {"close", "undef"} => t = s
  BY DEF Http!Get
<1> HIDE DEF t
<1>10. s.at = "connect" /\ event = "accepted" => HttpIs(t, "read", s.got, TRUE)
  BY <1>2, <1>3
<1>11. s.at = "connect" /\ event = "refused"  => HttpIs(t, "undef", s.got, s.sent)
  BY <1>1, <1>4
<1>12. s.at = "read" /\ event = "piece"       => HttpIs(t, "read", s.got + 1, s.sent)
  BY <1>1, <1>5
<1>13. s.at = "read" /\ event = "end"         => HttpIs(t, "ignore", s.got, s.sent)
  BY <1>1, <1>6
<1>14. s.at = "ignore" /\ event = "ignore"    => HttpIs(t, "close", s.got, s.sent)
  BY <1>1, <1>7
<1>15. s.at \in {"connect", "read", "ignore"} /\ event = "alarm" =>
              IF dies \/ s.at = "connect" THEN HttpIs(t, "undef", s.got, s.sent) ELSE t = s
  BY <1>1, <1>8
<1> QED BY <1>9, <1>10, <1>11, <1>12, <1>13, <1>14, <1>15 DEF t

\* After is what its definition says, event by event.
LEMMA HttpqRounds ==
  ASSUME NEW dies \in BOOLEAN, NEW events, Len(events) \in Nat
  PROVE  LET s == Http(dies)!After(events) IN
         /\ s[0] = HttpStart /\ HttpStart \in HttpState
         /\ \A n \in 1..Len(events) : s[n] = Http(dies)!Get(s[n - 1], events[n])
<1> DEFINE N == Len(events)
           step == [x \in (1..N) \X HttpState |-> Http(dies)!Get(x[2], events[x[1]])]
           Is(s) == s = [n \in 0..N |-> IF n = 0 THEN [at |-> "connect", got |-> 0, sent |-> FALSE]
                                        ELSE Http(dies)!Get(s[n - 1], events[n])]
<1>1. N \in Nat
  OBVIOUS
<1>2. step \in [(1..N) \X HttpState -> HttpState]
  BY <1>1, GetTypes
<1>3. HttpStart \in HttpState
  BY DEF HttpStart, HttpState
<1>4. PICK f : IsLoop(f, N, HttpState, HttpStart, step)
  <2> HIDE DEF N, step
  <2> QED
    BY <1>1, <1>2, <1>3, Loop
<1>5. ASSUME NEW n \in 1..N PROVE f[n] = Http(dies)!Get(f[n - 1], events[n])
  <2>1. n - 1 \in 0..N /\ f[n - 1] \in HttpState /\ f[n] = step[<<n, f[n - 1]>>]
    <3> HIDE DEF step
    <3> QED
      BY <1>1, <1>4 DEF IsLoop
  <2>2. <<n, f[n - 1]>> \in (1..N) \X HttpState
    BY <2>1
  <2>3. step[<<n, f[n - 1]>>] = Http(dies)!Get(f[n - 1], events[n])
    BY <2>2
  <2> QED
    BY <2>1, <2>3
<1>6. Is(f)
  BY <1>4, <1>5 DEF IsLoop, HttpStart
<1>7. Http(dies)!After(events) = CHOOSE s : Is(s)
  BY DEF Http!After
<1>8. Is(Http(dies)!After(events))
  <2> HIDE DEF Is
  <2> QED
    BY <1>6, <1>7
<1>9. LET s == Http(dies)!After(events) IN
      s[0] = [at |-> "connect", got |-> 0, sent |-> FALSE]
      /\ \A n \in 1..N : s[n] = Http(dies)!Get(s[n - 1], events[n])
  <2> DEFINE s == Http(dies)!After(events)
  <2>1. Is(s)
    BY <1>8
  <2> HIDE DEF s
  <2>2. s[0] = [at |-> "connect", got |-> 0, sent |-> FALSE]
    BY <1>1, <2>1
  <2>3. ASSUME NEW n \in 1..N PROVE s[n] = Http(dies)!Get(s[n - 1], events[n])
    <3>1. n \in 0..N /\ n # 0
      BY <1>1
    <3> HIDE DEF N
    <3> QED
      BY <2>1, <3>1
  <2> QED
    BY <2>2, <2>3 DEF s
<1> QED
  BY <1>3, <1>9 DEF HttpStart

\* The server has closed the connection behind the whole answer.
Complete(answer) == Len(answer) > 2 /\ answer[Len(answer)] = "ignore"

\* Where the program is, and what it has got, after n events of an answer
\* that no alarm interrupts.
AtOf(answer, n) ==
  IF n = 0 THEN "connect"
  ELSE IF ~Complete(answer) \/ n < Len(answer) - 1 THEN "read"
  ELSE IF n < Len(answer) THEN "ignore" ELSE "close"
GotOf(answer, n) ==
  IF n = 0 THEN 0 ELSE IF Complete(answer) /\ n > Len(answer) - 2 THEN Len(answer) - 3 ELSE n - 1

Undisturbed(s, answer, n) == HttpIs(s, AtOf(answer, n), GotOf(answer, n), n > 0)

\* An answer of a server that takes the connection.
IsTaken(answer) ==
  /\ Len(answer) \in Nat /\ Len(answer) > 0
  /\ answer[1] = "accepted"
  /\ IF Complete(answer)
     THEN /\ answer[Len(answer)] = "ignore" /\ answer[Len(answer) - 1] = "end"
          /\ \A k \in 2..(Len(answer) - 2) : answer[k] = "piece"
     ELSE \A k \in 2..Len(answer) : answer[k] = "piece"

LEMMA TakenOrNot ==
  ASSUME NEW answer, IsSeq(answer), IsAnswer(answer)
  PROVE  IsTaken(answer) \/ (Len(answer) = 0) \/ (Len(answer) = 1 /\ answer[1] = "refused")
<1> DEFINE last == Len(answer)
<1>1. last \in Nat
  BY DEF IsSeq
<1>2. ASSUME last > 0, answer = [k \in 1..last |-> IF k = 1 THEN "accepted" ELSE "piece"]
      PROVE  IsTaken(answer)
  <2>1. \A k \in 1..last : answer[k] = IF k = 1 THEN "accepted" ELSE "piece"
    <3> HIDE DEF last
    <3> QED
      BY <1>2
  <2>2. ~Complete(answer)
    BY <1>1, <2>1 DEF Complete
  <2> QED
    BY <1>1, <1>2, <2>1, <2>2 DEF IsTaken
<1>3. ASSUME last > 2,
             answer = [k \in 1..last |-> IF k = 1 THEN "accepted" ELSE IF k = last THEN "ignore"
                                         ELSE IF k = last - 1 THEN "end" ELSE "piece"]
      PROVE  IsTaken(answer)
  <2>1. \A k \in 1..last : answer[k] = IF k = 1 THEN "accepted" ELSE IF k = last THEN "ignore"
                                       ELSE IF k = last - 1 THEN "end" ELSE "piece"
    <3> HIDE DEF last
    <3> QED
      BY <1>3
  <2>2. Complete(answer)
    <3> HIDE DEF last
    <3>1. last \in 1..last /\ last # 1
      BY <1>1, <1>3
    <3>2. answer[last] = "ignore"
      BY <2>1, <3>1
    <3> QED
      BY <1>3, <3>2 DEF Complete, last
  <2> QED
    <3> HIDE DEF last
    <3>1. 1 \in 1..last /\ last \in 1..last /\ last - 1 \in 1..last
          /\ last # 1 /\ last - 1 # 1 /\ last - 1 # last
      BY <1>1, <1>3
    <3>2. \A k \in 2..(last - 2) : k \in 1..last /\ k # 1 /\ k # last /\ k # last - 1
      BY <1>1, <1>3
    <3>3. answer[1] = "accepted" /\ answer[last] = "ignore" /\ answer[last - 1] = "end"
      BY <2>1, <3>1
    <3>4. \A k \in 2..(last - 2) : answer[k] = "piece"
      BY <2>1, <3>2
    <3>5. last \in Nat /\ last > 0
      BY <1>1, <1>3
    <3> QED
      BY <2>2, <3>3, <3>4, <3>5 DEF IsTaken, last
<1> QED
  BY <1>1, <1>2, <1>3 DEF IsAnswer

LEMMA EventsAre ==
  ASSUME NEW answer, Len(answer) \in Nat, NEW alarm \in 1..(Len(answer) + 1)
  PROVE  /\ Len(Events(answer, alarm)) = Len(answer) + 1
         /\ DOMAIN Events(answer, alarm) = 1..(Len(answer) + 1)
         /\ \A k \in 1..(Len(answer) + 1) :
              /\ k < alarm => Events(answer, alarm)[k] = answer[k]
              /\ k = alarm => Events(answer, alarm)[k] = "alarm"
              /\ k > alarm => Events(answer, alarm)[k] = answer[k - 1]
BY DEF Events

\* One event of an answer.
LEMMA UndisturbedStep ==
  ASSUME NEW dies \in BOOLEAN, NEW answer, IsTaken(answer), NEW n \in 1..Len(answer),
         NEW s \in HttpState, Undisturbed(s, answer, n - 1)
  PROVE  Undisturbed(Http(dies)!Get(s, answer[n]), answer, n)
<1> DEFINE last == Len(answer)
           t == Http(dies)!Get(s, answer[n])
<1>1. last \in Nat /\ last > 0 /\ answer[1] = "accepted"
  BY DEF IsTaken
<1>2. s.at = AtOf(answer, n - 1) /\ s.got = GotOf(answer, n - 1) /\ (s.sent <=> n - 1 > 0)
  BY DEF Undisturbed, HttpIs
<1>3. CASE n = 1
  <2>1. s.at = "connect" /\ s.got = 0 /\ answer[n] = "accepted"
    BY <1>1, <1>2, <1>3 DEF AtOf, GotOf
  <2>2. HttpIs(t, "read", 0, TRUE)
    BY <2>1, GetIs
  <2>3. AtOf(answer, 1) = "read" /\ GotOf(answer, 1) = 0
    BY <1>1 DEF AtOf, GotOf, Complete
  <2> HIDE DEF t
  <2>4. Undisturbed(t, answer, 1)
    BY <2>2, <2>3 DEF HttpIs, Undisturbed
  <2> QED
    BY <1>3, <2>4 DEF t
<1>4. CASE n > 1 /\ answer[n] = "piece" /\ (Complete(answer) => n < last - 1)
  <2>1. s.at = "read" /\ s.got = n - 2 /\ s.sent
    BY <1>1, <1>2, <1>4 DEF AtOf, GotOf
  <2>2. HttpIs(t, "read", s.got + 1, s.sent)
    BY <1>4, <2>1, GetIs
  <2>3. AtOf(answer, n) = "read" /\ GotOf(answer, n) = n - 1
    BY <1>1, <1>4 DEF AtOf, GotOf
  <2> HIDE DEF t
  <2>4. Undisturbed(t, answer, n)
    BY <1>4, <2>1, <2>2, <2>3 DEF HttpIs, Undisturbed
  <2> QED
    BY <2>4 DEF t
<1>5. CASE n > 1 /\ answer[n] = "end" /\ Complete(answer) /\ n = last - 1
  <2>1. s.at = "read" /\ s.got = n - 2 /\ s.sent
    <3>1. n - 1 # 0 /\ n - 1 < last - 1 /\ ~(n - 1 > last - 2)
      <4> HIDE DEF last
      <4> QED
        BY <1>1, <1>5
    <3>2. AtOf(answer, n - 1) = "read" /\ GotOf(answer, n - 1) = n - 2
      BY <1>1, <1>5, <3>1 DEF AtOf, GotOf
    <3> QED
      BY <1>1, <1>2, <1>5, <3>2
  <2>2. HttpIs(t, "ignore", s.got, s.sent)
    BY <1>5, <2>1, GetIs
  <2>3. AtOf(answer, n) = "ignore" /\ GotOf(answer, n) = n - 2
    BY <1>1, <1>5 DEF AtOf, GotOf
  <2> HIDE DEF t
  <2>4. Undisturbed(t, answer, n)
    BY <1>5, <2>1, <2>2, <2>3 DEF HttpIs, Undisturbed
  <2> QED
    BY <2>4 DEF t
<1>6. CASE n > 1 /\ answer[n] = "ignore" /\ Complete(answer) /\ n = last
  <2>1. s.at = "ignore" /\ s.got = n - 3 /\ s.sent
    BY <1>1, <1>2, <1>6 DEF AtOf, GotOf, Complete
  <2>2. HttpIs(t, "close", s.got, s.sent)
    BY <1>6, <2>1, GetIs
  <2>3. AtOf(answer, n) = "close" /\ GotOf(answer, n) = n - 3
    BY <1>1, <1>6 DEF AtOf, GotOf
  <2> HIDE DEF t
  <2>4. Undisturbed(t, answer, n)
    BY <1>6, <2>1, <2>2, <2>3 DEF HttpIs, Undisturbed
  <2> QED
    BY <2>4 DEF t
<1>7. CASE n > 1 /\ ~Complete(answer)
  <2>1. answer[n] = "piece"
    BY <1>1, <1>7 DEF IsTaken
  <2> QED
    BY <1>4, <1>7, <2>1
<1>8. CASE n > 1 /\ Complete(answer)
  <2>1. \/ answer[n] = "piece" /\ n < last - 1
        \/ answer[n] = "end" /\ n = last - 1
        \/ answer[n] = "ignore" /\ n = last
    BY <1>1, <1>8 DEF IsTaken
  <2> QED
    BY <1>4, <1>5, <1>6, <1>8, <2>1
<1> QED
  BY <1>1, <1>3, <1>7, <1>8

\* The alarm ends the program.
Killed(dies, answer, alarm) ==
  alarm = 1 \/ (dies /\ (Complete(answer) => alarm <= Len(answer)))

HttpqIs(s, dies, answer, alarm, n) ==
  IF n < alarm THEN Undisturbed(s, answer, n)
  ELSE IF Killed(dies, answer, alarm) THEN s.at = "undef" /\ (s.sent <=> alarm > 1)
  ELSE Undisturbed(s, answer, n - 1)

LEMMA HttpqRound ==
  ASSUME NEW dies \in BOOLEAN, NEW answer, IsTaken(answer), NEW alarm \in 1..(Len(answer) + 1),
         NEW n \in 1..(Len(answer) + 1), NEW s \in HttpState,
         HttpqIs(s, dies, answer, alarm, n - 1)
  PROVE  HttpqIs(Http(dies)!Get(s, Events(answer, alarm)[n]), dies, answer, alarm, n)
<1> DEFINE last  == Len(answer)
           event == Events(answer, alarm)[n]
           t     == Http(dies)!Get(s, event)
<1>1. last \in Nat /\ last > 0
  BY DEF IsTaken
<1>2. /\ n < alarm => event = answer[n]
      /\ n = alarm => event = "alarm"
      /\ n > alarm => event = answer[n - 1]
  BY <1>1, EventsAre
<1> HIDE DEF event
<1>3. CASE n < alarm
  <2>1. Undisturbed(s, answer, n - 1) /\ event = answer[n] /\ n \in 1..last
    BY <1>1, <1>2, <1>3 DEF HttpqIs
  <2>2. Undisturbed(t, answer, n)
    BY <2>1, UndisturbedStep
  <2> HIDE DEF t
  <2> QED
    BY <1>3, <2>2 DEF HttpqIs, event, t
<1>4. CASE n = alarm
  <2>1. Undisturbed(s, answer, n - 1) /\ event = "alarm"
    BY <1>1, <1>2, <1>4 DEF HttpqIs
  <2>2. s.at = AtOf(answer, n - 1) /\ (s.sent <=> n > 1)
    BY <1>1, <2>1 DEF Undisturbed, HttpIs
  <2>3. /\ s.at \in {"connect", "read", "ignore"} =>
              IF dies \/ s.at = "connect" THEN HttpIs(t, "undef", s.got, s.sent) ELSE t = s
        /\ s.at = "close" => t = s
    BY <2>1, GetIs
  <2> HIDE DEF t
  <2>4. CASE Killed(dies, answer, alarm)
    <3>1. s.at \in {"connect", "read", "ignore"} /\ (dies \/ s.at = "connect")
      BY <1>1, <1>4, <2>2, <2>4 DEF Killed, AtOf, Complete
    <3>2. HttpIs(t, "undef", s.got, s.sent)
      BY <2>3, <3>1
    <3>3. t.at = "undef" /\ (t.sent <=> alarm > 1)
      BY <1>4, <2>2, <3>2 DEF HttpIs
    <3>4. HttpqIs(t, dies, answer, alarm, n)
      BY <1>4, <2>4, <3>3 DEF HttpqIs
    <3> QED
      BY <3>4 DEF event, t
  <2>5. CASE ~Killed(dies, answer, alarm)
    <3>1. s.at = "close" \/ (s.at \in {"read", "ignore"} /\ ~dies)
      BY <1>1, <1>4, <2>2, <2>5 DEF Killed, AtOf
    <3>2. t = s
      BY <2>3, <3>1
    <3>3. HttpqIs(t, dies, answer, alarm, n)
      BY <1>4, <2>1, <2>5, <3>2 DEF HttpqIs
    <3> QED
      BY <3>3 DEF event, t
  <2> QED
    BY <2>4, <2>5
<1>5. CASE n > alarm /\ Killed(dies, answer, alarm)
  <2>1. s.at = "undef" /\ (s.sent <=> alarm > 1)
    BY <1>1, <1>5 DEF HttpqIs
  <2>2. t = s
    BY <2>1, GetIs
  <2> HIDE DEF t
  <2>3. HttpqIs(t, dies, answer, alarm, n)
    BY <1>1, <1>5, <2>1, <2>2 DEF HttpqIs
  <2> QED
    BY <2>3 DEF event, t
<1>6. CASE n > alarm /\ ~Killed(dies, answer, alarm)
  <2>1. Undisturbed(s, answer, n - 2) /\ event = answer[n - 1]
    BY <1>1, <1>2, <1>6 DEF HttpqIs
  <2>2. n - 1 \in 1..last /\ (n - 1) - 1 = n - 2
    BY <1>1, <1>6
  <2>3. Undisturbed(t, answer, n - 1)
    BY <2>1, <2>2, UndisturbedStep
  <2> HIDE DEF t
  <2>4. HttpqIs(t, dies, answer, alarm, n)
    BY <1>1, <1>6, <2>3 DEF HttpqIs
  <2> QED
    BY <2>4 DEF event, t
<1> QED
  BY <1>1, <1>3, <1>4, <1>5, <1>6

LEMMA HttpqEnds ==
  ASSUME NEW dies \in BOOLEAN, NEW answer, IsTaken(answer), NEW alarm \in 1..(Len(answer) + 1)
  PROVE  HttpqIs(Http(dies)!After(Events(answer, alarm))[Len(answer) + 1], dies, answer, alarm,
                 Len(answer) + 1)
<1> DEFINE events == Events(answer, alarm)
           N == Len(answer) + 1
           s == Http(dies)!After(events)
           P == {n \in 0..N : s[n] \in HttpState /\ HttpqIs(s[n], dies, answer, alarm, n)}
<1>1. N \in Nat /\ Len(events) = N /\ Len(answer) \in Nat /\ Len(events) \in Nat
  BY EventsAre DEF IsTaken
<1>2. /\ s[0] = HttpStart /\ HttpStart \in HttpState
      /\ \A n \in 1..N : s[n] = Http(dies)!Get(s[n - 1], events[n])
  <2> HIDE DEF events
  <2> QED
    BY <1>1, HttpqRounds
<1> HIDE DEF s
<1>3. 0 \in P
  <2>1. Undisturbed(HttpStart, answer, 0)
    BY DEF Undisturbed, HttpStart, AtOf, GotOf, HttpIs
  <2> QED
    BY <1>1, <1>2, <2>1 DEF HttpqIs
<1>4. ASSUME NEW n \in 1..N, n - 1 \in P PROVE n \in P
  <2>1. s[n - 1] \in HttpState /\ HttpqIs(s[n - 1], dies, answer, alarm, n - 1)
    BY <1>4
  <2>2. Http(dies)!Get(s[n - 1], events[n]) \in HttpState
    BY <2>1, GetTypes
  <2>3. HttpqIs(Http(dies)!Get(s[n - 1], events[n]), dies, answer, alarm, n)
    BY <2>1, HttpqRound
  <2> HIDE DEF events
  <2> QED
    BY <1>1, <1>2, <2>2, <2>3
<1>5. \A n \in 0..N : n \in P
  <2> HIDE DEF P, N
  <2> QED
    BY <1>1, <1>3, <1>4, Induction
<1> QED
  BY <1>1, <1>5 DEF s

LEMMA HttpqCardinality == \A dies, S : Http(dies)!Cardinality(S) = Cardinality(S)
BY DEF Http!Cardinality, Cardinality

LEMMA PlaceIs ==
  ASSUME NEW dies, NEW events, NEW event
  PROVE  /\ Http(dies)!Places(events, event) = {} => Http(dies)!Place(events, event) = 0
         /\ \A k \in Nat : Http(dies)!Places(events, event) = {k} =>
              Http(dies)!Place(events, event) = k
<1> DEFINE places == Http(dies)!Places(events, event)
<1>1. Http(dies)!Place(events, event) =
        IF places = {} THEN 0 ELSE CHOOSE k \in places : \A j \in places : k <= j
  BY DEF Http!Place
<1>2. ASSUME NEW k \in Nat, places = {k} PROVE Http(dies)!Place(events, event) = k
  <2> HIDE DEF places
  <2>1. \E i \in places : \A j \in places : i <= j
    BY <1>2
  <2>2. (CHOOSE i \in places : \A j \in places : i <= j) \in places
    BY <2>1
  <2> QED
    BY <1>1, <1>2, <2>2
<1> QED
  BY <1>1, <1>2

\* Where the events of an answer are.
LEMMA PlacesOfTaken ==
  ASSUME NEW dies, NEW answer, IsTaken(answer), NEW alarm \in 1..(Len(answer) + 1)
  PROVE  LET events == Events(answer, alarm) IN
         /\ Http(dies)!Place(events, "alarm") = alarm
         /\ Http(dies)!Place(events, "accepted") = IF alarm = 1 THEN 2 ELSE 1
         /\ Http(dies)!Place(events, "ignore") =
              IF ~Complete(answer) THEN 0
              ELSE IF alarm > Len(answer) THEN Len(answer) ELSE Len(answer) + 1
         /\ Complete(answer) /\ alarm > 1 =>
              Cardinality(Http(dies)!Places(events, "piece")) = Len(answer) - 3
<1> DEFINE last   == Len(answer)
           events == Events(answer, alarm)
<1>1. last \in Nat /\ last > 0 /\ alarm \in 1..(last + 1) /\ answer[1] = "accepted"
      /\ (Complete(answer) => last > 2)
  BY DEF IsTaken, Complete
<1>2. /\ DOMAIN events = 1..(last + 1)
      /\ \A k \in 1..(last + 1) :
           /\ k < alarm => events[k] = answer[k]
           /\ k = alarm => events[k] = "alarm"
           /\ k > alarm => events[k] = answer[k - 1]
  BY <1>1, EventsAre
<1>3. /\ Complete(answer) =>
           /\ answer[last] = "ignore" /\ answer[last - 1] = "end"
           /\ \A k \in 2..(last - 2) : answer[k] = "piece"
      /\ ~Complete(answer) => \A k \in 2..last : answer[k] = "piece"
  BY DEF IsTaken
<1>4. /\ \A k \in 1..last : answer[k] = "accepted" <=> k = 1
      /\ \A k \in 1..last : answer[k] = "ignore" <=> Complete(answer) /\ k = last
      /\ \A k \in 1..last : answer[k] # "alarm"
      /\ Complete(answer) => \A k \in 1..last : answer[k] = "piece" <=> k \in 2..(last - 2)
  <2> HIDE DEF last
  <2>1. CASE Complete(answer)
    <3>1. \A k \in 1..last : k = 1 \/ k \in 2..(last - 2) \/ k = last - 1 \/ k = last
      BY <1>1
    <3>2. 1 \notin 2..(last - 2) /\ last - 1 \notin 2..(last - 2) /\ last \notin 2..(last - 2)
          /\ last # 1 /\ last - 1 # 1 /\ last - 1 # last
      BY <1>1, <2>1
    <3>3. \A k \in 2..(last - 2) : k # 1 /\ k # last
      BY <1>1
    <3> QED
      BY <1>1, <1>3, <2>1, <3>1, <3>2, <3>3
  <2>2. CASE ~Complete(answer)
    <3>1. \A k \in 1..last : k = 1 \/ k \in 2..last
      BY <1>1
    <3>2. \A k \in 2..last : k # 1
      BY <1>1
    <3> QED
      BY <1>1, <1>3, <2>2, <3>1, <3>2
  <2> QED
    BY <2>1, <2>2
<1> HIDE DEF last, events
<1>5. \A event : Http(dies)!Places(events, event) = {k \in 1..(last + 1) : events[k] = event}
  BY <1>2 DEF Http!Places
<1>6. Http(dies)!Place(events, "alarm") = alarm
  <2>1. \A k \in 1..(last + 1) : events[k] = "alarm" <=> k = alarm
    <3>1. \A k \in 1..(last + 1) : k < alarm => k \in 1..last
      BY <1>1
    <3>2. \A k \in 1..(last + 1) : k > alarm => k - 1 \in 1..last
      BY <1>1
    <3> QED
      BY <1>1, <1>2, <1>4, <3>1, <3>2
  <2>2. Http(dies)!Places(events, "alarm") = {alarm}
    BY <1>1, <1>5, <2>1
  <2> QED
    BY <1>1, <2>2, PlaceIs
<1>7. Http(dies)!Place(events, "accepted") = IF alarm = 1 THEN 2 ELSE 1
  <2> DEFINE first == IF alarm = 1 THEN 2 ELSE 1
  <2>1. ASSUME NEW k \in 1..(last + 1) PROVE events[k] = "accepted" <=> k = first
    <3>1. CASE k < alarm
      BY <1>1, <1>2, <1>4, <3>1
    <3>2. CASE k = alarm
      BY <1>1, <1>2, <3>2
    <3>3. CASE k > alarm
      <4>1. k - 1 \in 1..last /\ (k - 1 = 1 <=> k = 2) /\ (k = 2 => alarm = 1)
        BY <1>1, <3>3
      <4>2. events[k] = "accepted" <=> k = 2
        BY <1>2, <1>4, <3>3, <4>1
      <4> QED
        BY <1>1, <3>3, <4>1, <4>2
    <3> QED
      BY <1>1, <3>1, <3>2, <3>3
  <2>2. first \in 1..(last + 1)
    BY <1>1
  <2> HIDE DEF first
  <2>3. Http(dies)!Places(events, "accepted") = {first}
    BY <1>5, <2>1, <2>2
  <2>4. Http(dies)!Place(events, "accepted") = first
    BY <2>2, <2>3, PlaceIs, first \in Nat
  <2> QED
    BY <2>4 DEF first
<1>8. CASE ~Complete(answer)
  <2>1. ASSUME NEW k \in 1..(last + 1) PROVE events[k] # "ignore"
    <3>1. k < alarm => k \in 1..last
      BY <1>1
    <3>2. k > alarm => k - 1 \in 1..last
      BY <1>1
    <3>3. k < alarm \/ k = alarm \/ k > alarm
      BY <1>1
    <3> QED
      BY <1>2, <1>4, <1>8, <3>1, <3>2, <3>3
  <2>2. Http(dies)!Places(events, "ignore") = {}
    BY <1>5, <2>1
  <2>3. Http(dies)!Place(events, "ignore") = 0
    BY <2>2, PlaceIs
  <2> QED
    BY <1>6, <1>7, <1>8, <2>3 DEF events, last
<1>9. CASE Complete(answer)
  <2> DEFINE whole == IF alarm > last THEN last ELSE last + 1
  <2>1. ASSUME NEW k \in 1..(last + 1) PROVE events[k] = "ignore" <=> k = whole
    <3>1. CASE k < alarm
      <4>1. k \in 1..last /\ (k = last <=> k = whole)
        BY <1>1, <3>1
      <4> QED
        BY <1>2, <1>4, <1>9, <3>1, <4>1
    <3>2. CASE k = alarm
      <4>1. k # whole
        BY <1>1, <3>2
      <4> QED
        BY <1>2, <3>2, <4>1
    <3>3. CASE k > alarm
      <4>1. k - 1 \in 1..last /\ (k - 1 = last <=> k = whole)
        BY <1>1, <3>3
      <4> QED
        BY <1>2, <1>4, <1>9, <3>3, <4>1
    <3> QED
      BY <1>1, <3>1, <3>2, <3>3
  <2>2. whole \in 1..(last + 1) /\ whole \in Nat
    BY <1>1
  <2>3. Http(dies)!Place(events, "ignore") = whole
    <3> HIDE DEF whole
    <3>1. Http(dies)!Places(events, "ignore") = {whole}
      BY <1>5, <2>1, <2>2
    <3> QED
      BY <2>2, <3>1, PlaceIs
  <2>4. ASSUME alarm > 1 PROVE Cardinality(Http(dies)!Places(events, "piece")) = last - 3
    <3> DEFINE pieces == Http(dies)!Places(events, "piece")
    <3>1. ASSUME NEW k \in 1..(last + 1)
          PROVE  events[k] = "piece" <=> IF alarm < last - 1 THEN k \in 2..(last - 1) /\ k # alarm
                                         ELSE k \in 2..(last - 2)
      <4>1. CASE k < alarm
        <5>1. k \in 1..last /\ (k \in 2..(last - 2) <=>
                 IF alarm < last - 1 THEN k \in 2..(last - 1) /\ k # alarm ELSE k \in 2..(last - 2))
          BY <1>1, <4>1
        <5> QED
          BY <1>2, <1>4, <1>9, <4>1, <5>1
      <4>2. CASE k = alarm
        <5>1. alarm < last - 1 \/ k \notin 2..(last - 2)
          BY <1>1, <4>2
        <5> QED
          BY <1>2, <4>2, <5>1
      <4>3. CASE k > alarm
        <5>1. k - 1 \in 1..last /\ (k - 1 \in 2..(last - 2) <=>
                 IF alarm < last - 1 THEN k \in 2..(last - 1) /\ k # alarm ELSE k \in 2..(last - 2))
          BY <1>1, <2>4, <4>3
        <5> QED
          BY <1>2, <1>4, <1>9, <4>3, <5>1
      <4> QED
        BY <1>1, <4>1, <4>2, <4>3
    <3>2. pieces = {k \in 1..(last + 1) : events[k] = "piece"}
      BY <1>5
    <3>3. CASE alarm < last - 1
      <4>1. pieces = (2..(last - 1)) \ {alarm}
        <5>1. \A k \in 2..(last - 1) : k \in 1..(last + 1)
          BY <1>1
        <5> HIDE DEF pieces
        <5> QED
          BY <3>1, <3>2, <3>3, <5>1
      <4>2. IsFiniteSet(2..(last - 1)) /\ Cardinality(2..(last - 1)) = last - 2
        BY <1>1, <1>9, FS_Interval
      <4>3. alarm \in 2..(last - 1)
        BY <1>1, <2>4, <3>3
      <4> HIDE DEF pieces
      <4>4. Cardinality(pieces) = (last - 2) - 1
        BY <4>1, <4>2, <4>3, FS_RemoveElement
      <4> QED
        BY <1>1, <4>4 DEF pieces
    <3>4. CASE ~(alarm < last - 1)
      <4>1. pieces = 2..(last - 2)
        <5>1. \A k \in 2..(last - 2) : k \in 1..(last + 1)
          BY <1>1
        <5> HIDE DEF pieces
        <5> QED
          BY <3>1, <3>2, <3>4, <5>1
      <4>2. Cardinality(2..(last - 2)) = last - 3
        BY <1>1, <1>9, FS_Interval
      <4> QED
        BY <4>1, <4>2
    <3> QED
      BY <3>3, <3>4
  <2> QED
    BY <1>6, <1>7, <1>9, <2>3, <2>4 DEF events, last
<1> QED
  BY <1>8, <1>9

\* The options, argument by argument.
HttpOptions == [headers : BOOLEAN, nocache : BOOLEAN, urls : Nat, http : BOOLEAN, bad : BOOLEAN]

HttpNone == [headers |-> TRUE, nocache |-> FALSE, urls |-> 0, http |-> TRUE, bad |-> FALSE]

OptionTaken(o, arg, t) ==
  /\ t \in HttpOptions
  /\ t.headers = (arg = "-level 1.0" \/ (arg # "-level 0.9" /\ o.headers))
  /\ t.nocache = (arg = "-nocache" \/ o.nocache)

LEMMA HttpOptionIs ==
  ASSUME NEW dies \in BOOLEAN, NEW o \in HttpOptions, NEW arg
  PROVE  OptionTaken(o, arg, Http(dies)!Option(o, arg))
<1> USE DEF OptionTaken
<1> DEFINE t == Http(dies)!Option(o, arg)
<1>1. CASE arg = "-level 0.9"
  <2>1. t = [o EXCEPT !.headers = FALSE]
    BY <1>1 DEF Http!Option
  <2> QED
    BY <1>1, <2>1 DEF HttpOptions
<1>2. CASE arg = "-level 1.0"
  <2>1. t = [o EXCEPT !.headers = TRUE]
    BY <1>2 DEF Http!Option
  <2> QED
    BY <1>2, <2>1 DEF HttpOptions
<1>3. CASE arg = "-nocache"
  <2>1. t = [o EXCEPT !.nocache = TRUE]
    BY <1>3 DEF Http!Option
  <2> QED
    BY <1>3, <2>1 DEF HttpOptions
<1>4. CASE arg = "http url"
  <2>1. t = [o EXCEPT !.urls = @ + 1]
    BY <1>4 DEF Http!Option
  <2>2. t \in HttpOptions
    BY <2>1 DEF HttpOptions
  <2>3. t.headers = o.headers /\ t.nocache = o.nocache
    <3>1. t.headers = o.headers
      BY <2>1 DEF HttpOptions
    <3>2. t.nocache = o.nocache
      BY <2>1 DEF HttpOptions
    <3> QED
      BY <3>1, <3>2
  <2>4. o.headers \in BOOLEAN /\ o.nocache \in BOOLEAN
    BY DEF HttpOptions
  <2> HIDE DEF t
  <2> QED
    BY <1>4, <2>2, <2>3, <2>4 DEF t
<1>5. CASE arg = "ftp url"
  <2>1. t = [o EXCEPT !.urls = @ + 1, !.http = FALSE]
    BY <1>5 DEF Http!Option
  <2>2. t \in HttpOptions
    <3>1. t = [headers |-> o.headers, nocache |-> o.nocache, urls |-> o.urls + 1, http |-> FALSE,
               bad |-> o.bad]
      BY <2>1 DEF HttpOptions
    <3> QED
      BY <3>1 DEF HttpOptions
  <2>3. t.headers = o.headers /\ t.nocache = o.nocache
    <3>1. t.headers = o.headers
      BY <2>1 DEF HttpOptions
    <3>2. t.nocache = o.nocache
      BY <2>1 DEF HttpOptions
    <3> QED
      BY <3>1, <3>2
  <2>4. o.headers \in BOOLEAN /\ o.nocache \in BOOLEAN
    BY DEF HttpOptions
  <2> HIDE DEF t
  <2> QED
    BY <1>5, <2>2, <2>3, <2>4 DEF t
<1>6. CASE arg \notin {"-level 0.9", "-level 1.0", "-nocache", "http url", "ftp url"}
  <2>1. t = [o EXCEPT !.bad = TRUE]
    BY <1>6 DEF Http!Option
  <2> QED
    BY <1>6, <2>1 DEF HttpOptions
<1> QED
  BY <1>1, <1>2, <1>3, <1>4, <1>5, <1>6

\* What the first n arguments ask for.
LevelIs(args, n, headers) ==
  headers <=> \A k \in 1..n : args[k] = "-level 0.9" => \E j \in 1..n : j > k /\ args[j] = "-level 1.0"
NocacheIs(args, n, nocache) == nocache <=> \E k \in 1..n : args[k] = "-nocache"

LEMMA LevelStep ==
  ASSUME NEW args, NEW n \in Nat \ {0}, NEW before \in BOOLEAN, LevelIs(args, n - 1, before)
  PROVE  LevelIs(args, n, args[n] = "-level 1.0" \/ (args[n] # "-level 0.9" /\ before))
<1>1. \A k \in 1..n : k = n \/ k \in 1..(n - 1)
  OBVIOUS
<1>2. n \in 1..n /\ \A k \in 1..(n - 1) : k \in 1..n /\ n > k /\ ~(k > n)
  OBVIOUS
<1>3. ~(n > n)
  OBVIOUS
<1>4. CASE args[n] = "-level 1.0"
  BY <1>1, <1>2, <1>4 DEF LevelIs
<1>5. CASE args[n] = "-level 0.9"
  <2>1. \A j \in 1..n : ~(j > n)
    OBVIOUS
  <2> QED
    BY <1>2, <1>5, <2>1 DEF LevelIs
<1>6. CASE args[n] \notin {"-level 1.0", "-level 0.9"}
  BY <1>1, <1>2, <1>6 DEF LevelIs
<1> QED
  BY <1>4, <1>5, <1>6

LEMMA HttpOptionsAre ==
  ASSUME NEW dies \in BOOLEAN, NEW args, IsSeq(args)
  PROVE  LET o == Http(dies)!Options(args) IN
         /\ LevelIs(args, Len(args), o.headers)
         /\ NocacheIs(args, Len(args), o.nocache)
<1> DEFINE N == Len(args)
           step == [x \in (1..N) \X HttpOptions |-> Http(dies)!Option(x[2], args[x[1]])]
           Is(o) == o = [n \in 0..N |-> IF n = 0 THEN [headers |-> TRUE, nocache |-> FALSE, urls |-> 0,
                                                       http |-> TRUE, bad |-> FALSE]
                                        ELSE Http(dies)!Option(o[n - 1], args[n])]
           g == CHOOSE o : Is(o)
<1>1. N \in Nat
  BY DEF IsSeq
<1>2. step \in [(1..N) \X HttpOptions -> HttpOptions]
  BY HttpOptionIs DEF OptionTaken
<1>3. HttpNone \in HttpOptions
  BY DEF HttpNone, HttpOptions
<1>4. PICK f : IsLoop(f, N, HttpOptions, HttpNone, step)
  <2> HIDE DEF N, step
  <2> QED
    BY <1>1, <1>2, <1>3, Loop
<1>5. ASSUME NEW n \in 1..N PROVE f[n] = Http(dies)!Option(f[n - 1], args[n])
  <2>1. n - 1 \in 0..N /\ f[n - 1] \in HttpOptions /\ f[n] = step[<<n, f[n - 1]>>]
    <3> HIDE DEF step
    <3> QED
      BY <1>1, <1>4 DEF IsLoop
  <2>2. <<n, f[n - 1]>> \in (1..N) \X HttpOptions
    BY <2>1
  <2>3. step[<<n, f[n - 1]>>] = Http(dies)!Option(f[n - 1], args[n])
    BY <2>2
  <2> QED
    BY <2>1, <2>3
<1>6. Is(f)
  BY <1>4, <1>5 DEF IsLoop, HttpNone
<1>7. Http(dies)!Options(args) = g[N]
  BY DEF Http!Options
<1>8. Is(g)
  <2> HIDE DEF Is
  <2> QED
    BY <1>6
<1> HIDE DEF g
<1>9. g[0] = HttpNone /\ \A n \in 1..N : g[n] = Http(dies)!Option(g[n - 1], args[n])
  <2>1. g[0] = HttpNone
    BY <1>1, <1>8 DEF HttpNone
  <2>2. ASSUME NEW n \in 1..N PROVE g[n] = Http(dies)!Option(g[n - 1], args[n])
    <3>1. n \in 0..N /\ n # 0
      BY <1>1
    <3> HIDE DEF N
    <3> QED
      BY <1>8, <3>1
  <2> QED
    BY <2>1, <2>2
<1> DEFINE P == {n \in 0..N : g[n] \in HttpOptions /\ LevelIs(args, n, g[n].headers)
                             /\ NocacheIs(args, n, g[n].nocache)}
<1> HIDE DEF N
<1>10. 0 \in P
  <2>1. g[0] \in HttpOptions /\ g[0].headers = TRUE /\ g[0].nocache = FALSE
    BY <1>3, <1>9 DEF HttpNone
  <2>2. LevelIs(args, 0, g[0].headers) /\ NocacheIs(args, 0, g[0].nocache)
    <3>1. 1..0 = {}
      OBVIOUS
    <3> QED
      BY <2>1, <3>1 DEF LevelIs, NocacheIs
  <2> QED
    BY <1>1, <2>1, <2>2
<1>11. ASSUME NEW n \in 1..N, n - 1 \in P PROVE n \in P
  <2>1. n \in Nat \ {0} /\ n \in 0..N
    BY <1>1
  <2>2. /\ g[n - 1] \in HttpOptions /\ LevelIs(args, n - 1, g[n - 1].headers)
        /\ NocacheIs(args, n - 1, g[n - 1].nocache)
    BY <1>11
  <2>3. /\ g[n] \in HttpOptions
        /\ g[n].headers = (args[n] = "-level 1.0" \/ (args[n] # "-level 0.9" /\ g[n - 1].headers))
        /\ g[n].nocache = (args[n] = "-nocache" \/ g[n - 1].nocache)
    <3>1. g[n] = Http(dies)!Option(g[n - 1], args[n])
      BY <1>9
    <3> DEFINE b == g[n - 1]
    <3>2. b \in HttpOptions
      BY <2>2
    <3>3. OptionTaken(b, args[n], Http(dies)!Option(b, args[n]))
      <4> HIDE DEF b
      <4> QED
        BY <3>2, HttpOptionIs
    <3> QED
      BY <3>1, <3>3, Zenon DEF OptionTaken
  <2>4. g[n - 1].headers \in BOOLEAN
    BY <2>2 DEF HttpOptions
  <2>5. LevelIs(args, n, g[n].headers)
    <3> DEFINE b == g[n - 1].headers
    <3>1. LevelIs(args, n - 1, b) /\ b \in BOOLEAN
      BY <2>2, <2>4
    <3>2. LevelIs(args, n, args[n] = "-level 1.0" \/ (args[n] # "-level 0.9" /\ b))
      <4> HIDE DEF b
      <4> QED
        BY <2>1, <3>1, LevelStep
    <3> QED
      BY <2>3, <3>2, Zenon
  <2>6. NocacheIs(args, n, g[n].nocache)
    <3>1. \A k \in 1..n : k = n \/ k \in 1..(n - 1)
      OBVIOUS
    <3>2. n \in 1..n /\ \A k \in 1..(n - 1) : k \in 1..n
      BY <2>1
    <3> QED
      BY <2>2, <2>3, <3>1, <3>2 DEF NocacheIs
  <2> QED
    BY <2>1, <2>3, <2>5, <2>6
<1>12. N \in P
  <2>1. N \in 0..N /\ \A n \in 0..N : n \in P
    <3> HIDE DEF P
    <3> QED
      BY <1>1, <1>10, <1>11, Induction
  <2> QED
    BY <2>1
<1> QED
  BY <1>7, <1>12 DEF N

\* httpq, for any answer and an alarm at any time: HttpqAnswers.
LEMMA HttpqRight ==
  ASSUME NEW dies \in BOOLEAN, NEW args, IsSeq(args), NEW known,
         NEW answer, IsSeq(answer), IsAnswer(answer), NEW alarm \in 1..(Len(answer) + 1)
  PROVE  Http(dies)!HttpqAnswers(args, known, Events(answer, alarm))
<1> DEFINE last    == Len(answer)
           events  == Events(answer, alarm)
           o       == Http(dies)!Options(args)
           s       == Http(dies)!After(events)[Len(events)]
           result  == Http(dies)!Output(args, known, events)
           piece   == Http(dies)!Cardinality(Http(dies)!Places(events, "piece"))
           at      == Http(dies)!Place(events, "alarm")
           whole   == Http(dies)!Place(events, "ignore")
           connect == Http(dies)!Place(events, "accepted")
<1>1. last \in Nat /\ alarm \in 1..(last + 1)
  BY DEF IsSeq
<1>2. Len(events) = last + 1 /\ DOMAIN events = 1..(last + 1)
  BY <1>1, EventsAre
<1>3. Http(dies)!Dies(o) => result.sent = << >>
  BY DEF Http!Output
<1>4. ~Http(dies)!Dies(o) =>
        /\ result.ends = "page" <=> s.at = "close"
        /\ result.ends = "waits" <=> s.at \notin {"close", "undef"}
        /\ result.got = s.got
        /\ result.sent = << >> <=> ~s.sent
  BY DEF Http!Output
<1>5. Http(dies)!HttpqAnswers(args, known, events) <=>
        IF Http(dies)!Dies(o) THEN result.sent = << >>
        ELSE /\ result.ends = "page" <=> whole # 0 /\ (at > whole \/ (~dies /\ at > connect))
             /\ result.ends = "page" => result.got = piece
             /\ dies \/ connect = 0 => result.ends # "waits"
             /\ connect # 0 => (result.sent = << >> <=> at < connect)
             /\ result.sent # << >> =>
                  /\ result.sent[2].headers <=> Http(dies)!WithHeaders(args)
                  /\ result.sent[2].pragma <=> Http(dies)!WithPragma(args)
  BY DEF Http!HttpqAnswers
<1>9. ~Http(dies)!Dies(o) /\ result.sent # << >> =>
        /\ result.sent[2].headers <=> Http(dies)!WithHeaders(args)
        /\ result.sent[2].pragma <=> Http(dies)!WithPragma(args)
  <2>1. o.headers <=> Http(dies)!WithHeaders(args)
    <3>1. LevelIs(args, Len(args), o.headers) /\ DOMAIN args = 1..Len(args)
      BY HttpOptionsAre DEF IsSeq
    <3> QED
      BY <3>1 DEF LevelIs, Http!WithHeaders
  <2>2. o.nocache <=> \E k \in DOMAIN args : args[k] = "-nocache"
    <3>1. NocacheIs(args, Len(args), o.nocache) /\ DOMAIN args = 1..Len(args)
      BY HttpOptionsAre DEF IsSeq
    <3> QED
      BY <3>1 DEF NocacheIs
  <2>3. ~Http(dies)!Dies(o) /\ result.sent # << >> =>
          result.sent = <<Http(dies)!Asked(known), Http(dies)!Request(o)>>
    BY DEF Http!Output
  <2>4. ~Http(dies)!Dies(o) /\ result.sent # << >> => result.sent[2] = Http(dies)!Request(o)
    BY <2>3
  <2>5. LET r == Http(dies)!Request(o) IN
        r.headers = o.headers /\ r.pragma = (o.headers /\ o.nocache)
    BY DEF Http!Request
  <2> HIDE DEF o, result
  <2> QED
    BY <2>1, <2>2, <2>4, <2>5, Zenon DEF Http!WithPragma
<1> HIDE DEF s, result, o, piece, at, whole, connect
<1>6. SUFFICES ASSUME ~Http(dies)!Dies(o)
               PROVE  /\ s.at = "close" <=> whole # 0 /\ (at > whole \/ (~dies /\ at > connect))
                      /\ s.at = "close" => s.got = piece
                      /\ dies \/ connect = 0 => s.at \in {"close", "undef"}
                      /\ connect # 0 => (~s.sent <=> at < connect)
  BY <1>3, <1>4, <1>5, <1>9
<1>7. CASE IsTaken(answer)
  <2>1. HttpqIs(s, dies, answer, alarm, last + 1)
    BY <1>2, <1>7, HttpqEnds DEF s
  <2>2. /\ at = alarm
        /\ connect = IF alarm = 1 THEN 2 ELSE 1
        /\ whole = IF ~Complete(answer) THEN 0 ELSE IF alarm > last THEN last ELSE last + 1
        /\ Complete(answer) /\ alarm > 1 => piece = last - 3
    BY <1>7, PlacesOfTaken, HttpqCardinality DEF at, connect, whole, piece
  <2>3. Complete(answer) => last > 2
    BY DEF Complete
  <2> HIDE DEF events
  <2>4. CASE Killed(dies, answer, alarm)
    <3>1. s.at = "undef" /\ (s.sent <=> alarm > 1)
      BY <1>1, <2>1, <2>4 DEF HttpqIs
    <3>2. ~(whole # 0 /\ (at > whole \/ (~dies /\ at > connect)))
      <4>1. CASE alarm = 1
        BY <1>1, <2>2, <2>3, <4>1
      <4>2. CASE dies /\ (Complete(answer) => alarm <= last)
        BY <1>1, <2>2, <2>3, <4>2
      <4> QED
        BY <2>4, <4>1, <4>2 DEF Killed
    <3>3. alarm > 1 <=> ~(at < connect)
      BY <1>1, <2>2
    <3> QED
      BY <3>1, <3>2, <3>3
  <2>5. CASE ~Killed(dies, answer, alarm)
    <3>1. Undisturbed(s, answer, last)
      <4>1. (last + 1) - 1 = last /\ (last + 1 < alarm <=> FALSE)
        BY <1>1
      <4> QED
        BY <2>1, <2>5, <4>1 DEF HttpqIs
    <3>2. alarm > 1 /\ (dies => Complete(answer) /\ alarm > last)
      BY <1>1, <2>5 DEF Killed
    <3>3. last > 0
      BY <1>1, <3>2
    <3>4. AtOf(answer, last) = IF Complete(answer) THEN "close" ELSE "read"
      <4>1. last # 0 /\ ~(last < last - 1) /\ ~(last < last)
        BY <1>1, <3>3
      <4> QED
        BY <4>1 DEF AtOf
    <3>5. Complete(answer) => GotOf(answer, last) = last - 3
      <4>1. last # 0 /\ last > last - 2
        BY <1>1, <3>3
      <4> QED
        BY <4>1 DEF GotOf
    <3>6. s.at = (IF Complete(answer) THEN "close" ELSE "read") /\ s.sent
          /\ (Complete(answer) => s.got = last - 3)
      BY <3>1, <3>3, <3>4, <3>5 DEF Undisturbed, HttpIs
    <3>7. Complete(answer) => whole # 0 /\ (at > whole \/ (~dies /\ at > connect))
      BY <1>1, <2>2, <2>3, <3>2
    <3>8. ~Complete(answer) => whole = 0 /\ ~dies
      BY <2>2, <3>2
    <3>9. connect # 0 /\ ~(at < connect)
      BY <1>1, <2>2, <3>2
    <3> QED
      BY <2>2, <3>2, <3>6, <3>7, <3>8, <3>9
  <2> QED
    BY <2>4, <2>5
<1>8. CASE last = 0 \/ (last = 1 /\ answer[1] = "refused")
  <2>1. /\ \A k \in 1..(last + 1) : events[k] \in {"alarm", "refused"}
        /\ events[1] = IF alarm = 1 THEN "alarm" ELSE "refused"
    <3>1. \A k \in 1..(last + 1) :
              /\ k < alarm => events[k] = answer[k]
              /\ k = alarm => events[k] = "alarm"
              /\ k > alarm => events[k] = answer[k - 1]
      BY <1>1, EventsAre
    <3>2. \A k \in 1..(last + 1) : /\ k < alarm => k = 1 /\ last = 1
                                   /\ k > alarm => k - 1 = 1 /\ last = 1
                                   /\ k < alarm \/ k = alarm \/ k > alarm
      <4> HIDE DEF last
      <4> QED
        BY <1>1, <1>8
    <3>3. 1 \in 1..(last + 1) /\ (alarm # 1 => 1 < alarm)
      BY <1>1
    <3> HIDE DEF events, last
    <3> QED
      BY <1>8, <3>1, <3>2, <3>3
  <2>2. /\ Http(dies)!Places(events, "accepted") = {}
        /\ Http(dies)!Places(events, "ignore") = {}
    BY <1>2, <2>1 DEF Http!Places
  <2>3. connect = 0 /\ whole = 0
    BY <2>2, PlaceIs DEF connect, whole
  <2> DEFINE t == Http(dies)!After(events)
  <2>4. /\ t[0] = HttpStart /\ HttpStart \in HttpState
        /\ \A n \in 1..(last + 1) : t[n] = Http(dies)!Get(t[n - 1], events[n])
    <3>1. Len(events) \in Nat
      BY <1>1, <1>2
    <3> HIDE DEF events
    <3> QED
      BY <1>2, <3>1, HttpqRounds
  <2> HIDE DEF t, events
  <2>5. t[1].at = "undef" /\ t[1] \in HttpState
    <3>1. 1 \in 1..(last + 1) /\ t[1] = Http(dies)!Get(t[0], events[1]) /\ t[0] \in HttpState
      BY <1>1, <2>4
    <3>2. t[0].at = "connect"
      BY <2>4 DEF HttpStart
    <3>3. HttpIs(t[1], "undef", t[0].got, t[0].sent)
      <4> DEFINE u == Http(dies)!Get(t[0], events[1])
      <4>1. CASE events[1] = "alarm"
        <5>1. IF dies \/ t[0].at = "connect" THEN HttpIs(u, "undef", t[0].got, t[0].sent)
              ELSE u = t[0]
          BY <3>1, <3>2, <4>1, GetIs
        <5> HIDE DEF u
        <5> QED
          BY <3>1, <3>2, <5>1 DEF HttpIs, u
      <4>2. CASE events[1] = "refused"
        <5>1. HttpIs(u, "undef", t[0].got, t[0].sent)
          BY <3>1, <3>2, <4>2, GetIs
        <5> HIDE DEF u
        <5> QED
          BY <3>1, <5>1 DEF HttpIs, u
      <4> QED
        BY <2>1, <4>1, <4>2
    <3> QED
      BY <3>1, <3>3, GetTypes DEF HttpIs
  <2>6. t[last + 1].at = "undef"
    <3>1. CASE last = 0
      BY <2>5, <3>1
    <3>2. CASE last = 1
      <4>1. t[2] = Http(dies)!Get(t[1], events[2])
        BY <2>4, <3>2
      <4>2. t[2] = t[1]
        BY <2>5, <4>1, GetIs
      <4> QED
        BY <2>5, <3>2, <4>2
    <3> QED
      BY <1>8, <3>1, <3>2
  <2>7. s.at = "undef"
    BY <1>2, <2>6 DEF s, t
  <2> QED
    BY <2>3, <2>7
<1> QED
  BY <1>7, <1>8, TakenOrNot

----------------------------------------------------------------------------
(* quote-insert.el                                                         *)

\* Texts and how often their lines are quoted.
IsText(text) == text \in Seq(Nat) /\ text # << >>
IsQuotes(text, quotes) == quotes \in [1..Len(text) -> Nat]

LEMMA PastRounds ==
  ASSUME NEW text, IsText(text), NEW quotes, IsQuotes(text, quotes)
  PROVE  LET past == Quote!Past(text, quotes) IN
         /\ past \in [0..Len(text) -> Nat]
         /\ past[0] = 1
         /\ \A n \in 1..Len(text) : past[n] = past[n - 1] + text[n] + 2 * quotes[n] + 1
<1> DEFINE N == Len(text)
           step == [x \in (1..N) \X Nat |-> x[2] + text[x[1]] + 2 * quotes[x[1]] + 1]
           Is(s) == s = [n \in 0..N |-> IF n = 0 THEN 1
                                        ELSE s[n - 1] + text[n] + 2 * quotes[n] + 1]
<1>1. N \in Nat /\ \A n \in 1..N : text[n] \in Nat /\ quotes[n] \in Nat
  BY DEF IsText, IsQuotes
<1>2. step \in [(1..N) \X Nat -> Nat]
  <2> HIDE DEF N
  <2> QED
    BY <1>1
<1>3. PICK f : IsLoop(f, N, Nat, 1, step)
  <2> HIDE DEF N, step
  <2> QED
    BY <1>1, <1>2, Loop
<1>4. f \in [0..N -> Nat] /\ f[0] = 1
  BY <1>3 DEF IsLoop
<1>5. ASSUME NEW n \in 1..N PROVE f[n] = f[n - 1] + text[n] + 2 * quotes[n] + 1
  <2>1. f[n] = step[<<n, f[n - 1]>>]
    <3> HIDE DEF step
    <3> QED
      BY <1>3 DEF IsLoop
  <2>2. n - 1 \in 0..N /\ f[n - 1] \in Nat
    <3> HIDE DEF N
    <3> QED
      BY <1>1, <1>4
  <2>3. <<n, f[n - 1]>> \in (1..N) \X Nat
    BY <2>2
  <2> QED
    BY <2>1, <2>3
<1>6. Is(f)
  <2> HIDE DEF N
  <2> QED
    BY <1>1, <1>4, <1>5
<1>7. Quote!Past(text, quotes) = CHOOSE s : Is(s)
  BY DEF Quote!Past
<1> DEFINE past == Quote!Past(text, quotes)
<1>8. Is(past)
  <2> HIDE DEF Is
  <2> QED
    BY <1>6, <1>7
<1> HIDE DEF past
<1>9. past = [n \in 0..N |-> past[n]] /\ past[0] = 1
      /\ \A n \in 1..N : past[n] = past[n - 1] + text[n] + 2 * quotes[n] + 1
  <2> HIDE DEF N
  <2>1. past = [n \in 0..N |-> past[n]] /\ past[0] = 1
    BY <1>1, <1>8
  <2>2. \A n \in 1..N : n \in 0..N /\ n # 0
    BY <1>1
  <2>3. \A n \in 1..N : past[n] = past[n - 1] + text[n] + 2 * quotes[n] + 1
    BY <1>8, <2>2
  <2> QED
    BY <2>1, <2>3
<1> HIDE DEF N
<1> DEFINE P == {n \in 0..N : past[n] \in Nat}
<1>10. 0 \in P /\ \A n \in 1..N : n - 1 \in P => n \in P
  <2>1. 0 \in P
    BY <1>1, <1>9
  <2>2. ASSUME NEW n \in 1..N, n - 1 \in P PROVE n \in P
    <3>1. past[n - 1] \in Nat /\ text[n] \in Nat /\ quotes[n] \in Nat /\ n \in 0..N
      BY <1>1, <2>2
    <3>2. past[n] = past[n - 1] + text[n] + 2 * quotes[n] + 1
      BY <1>9
    <3> QED
      BY <3>1, <3>2
  <2> QED
    BY <2>1, <2>2
<1>11. \A n \in 0..N : n \in P
  <2> HIDE DEF P
  <2> QED
    BY <1>1, <1>10, Induction
<1>12. past \in [0..N -> Nat]
  BY <1>9, <1>11
<1> QED
  BY <1>9, <1>12 DEF past, N

\* Every line is longer than nothing: it ends with its line end.
LEMMA PastGrows ==
  ASSUME NEW text, IsText(text), NEW quotes, IsQuotes(text, quotes),
         NEW n \in 0..Len(text), NEW m \in 0..Len(text), m < n
  PROVE  Quote!Past(text, quotes)[m] < Quote!Past(text, quotes)[n]
<1> DEFINE N == Len(text)
           past == Quote!Past(text, quotes)
           P == {k \in 0..N : m < k => past[m] < past[k]}
<1>1. N \in Nat /\ \A k \in 1..N : text[k] \in Nat /\ quotes[k] \in Nat
  BY DEF IsText, IsQuotes
<1>2. /\ \A k \in 0..N : past[k] \in Nat
      /\ \A k \in 1..N : past[k] = past[k - 1] + text[k] + 2 * quotes[k] + 1
  BY PastRounds
<1> HIDE DEF N, past
<1>3. 0 \in P
  BY <1>1 DEF N
<1>4. ASSUME NEW k \in 1..N, k - 1 \in P PROVE k \in P
  <2>1. k - 1 \in 0..N /\ k \in 0..N
    BY <1>1
  <2>2. past[k - 1] < past[k]
    <3>1. past[k - 1] \in Nat /\ text[k] \in Nat /\ quotes[k] \in Nat
      BY <1>1, <1>2, <2>1
    <3>2. past[k] = past[k - 1] + text[k] + 2 * quotes[k] + 1
      BY <1>2
    <3> QED
      BY <3>1, <3>2
  <2>3. m < k => m = k - 1 \/ m < k - 1
    BY <1>1 DEF N
  <2>4. m \in 0..N
    BY DEF N
  <2> QED
    BY <1>2, <1>4, <2>1, <2>2, <2>3, <2>4
<1>5. \A k \in 0..N : k \in P
  <2> HIDE DEF P
  <2> QED
    BY <1>1, <1>3, <1>4, Induction
<1> QED
  BY <1>5 DEF N, past

\* A position depends on what was put before the lines above it only.
LEMMA PastSame ==
  ASSUME NEW text, IsText(text), NEW q, IsQuotes(text, q), NEW r, IsQuotes(text, r),
         NEW m \in 0..Len(text), \A k \in 1..m : q[k] = r[k]
  PROVE  \A n \in 0..m : Quote!Past(text, q)[n] = Quote!Past(text, r)[n]
<1> DEFINE N == Len(text)
           past(quotes) == Quote!Past(text, quotes)
           P == {n \in 0..m : past(q)[n] = past(r)[n]}
<1>1. N \in Nat /\ m \in Nat /\ \A n \in 1..m : n \in 1..N
  BY DEF IsText
<1>2. /\ past(q)[0] = 1 /\ past(r)[0] = 1
      /\ \A n \in 1..N : past(q)[n] = past(q)[n - 1] + text[n] + 2 * q[n] + 1
      /\ \A n \in 1..N : past(r)[n] = past(r)[n - 1] + text[n] + 2 * r[n] + 1
  BY PastRounds
<1> HIDE DEF N, past
<1>3. 0 \in P
  BY <1>1, <1>2
<1>4. ASSUME NEW n \in 1..m, n - 1 \in P PROVE n \in P
  <2>1. n \in 1..N /\ n \in 0..m /\ past(q)[n - 1] = past(r)[n - 1] /\ q[n] = r[n]
    BY <1>1, <1>4
  <2>2. past(q)[n] = past(r)[n]
    BY <1>2, <2>1
  <2> QED
    BY <2>1, <2>2
<1>5. \A n \in 0..m : n \in P
  <2> HIDE DEF P
  <2> QED
    BY <1>1, <1>3, <1>4, Induction
<1> QED
  BY <1>5 DEF past

\* The line of a position.
LEMMA LineIs ==
  ASSUME NEW text, IsText(text), NEW quotes, IsQuotes(text, quotes), NEW l \in 1..Len(text),
         NEW p \in Nat, Quote!Past(text, quotes)[l - 1] <= p, p < Quote!Past(text, quotes)[l]
  PROVE  Quote!LineOf(text, quotes, p) = l
<1> DEFINE N == Len(text)
           past == Quote!Past(text, quotes)
           Has(k) == past[k - 1] <= p /\ p < past[k]
<1>1. N \in Nat /\ DOMAIN text = 1..N
  BY DEF IsText
<1>2. \A k \in 0..N : past[k] \in Nat
  BY PastRounds
<1>3. Quote!LineOf(text, quotes, p) = CHOOSE k \in 1..N : Has(k)
  <2>1. \A k \in 1..N : (k + 1) - 1 = k
    BY <1>1
  <2> HIDE DEF past
  <2>2. \A k \in 1..N : (past[k - 1] <= p /\ p < past[(k + 1) - 1]) <=> Has(k)
    BY <2>1
  <2>3. Quote!LineOf(text, quotes, p) =
          CHOOSE k \in 1..N : past[k - 1] <= p /\ p < past[(k + 1) - 1]
    BY <1>1 DEF Quote!LineOf, Quote!Begin, past
  <2> HIDE DEF Has
  <2> QED
    BY <2>2, <2>3
<1>4. ASSUME NEW k \in 1..N, Has(k) PROVE k = l
  <2>1. k \in 0..N /\ k - 1 \in 0..N /\ l \in 0..N /\ l - 1 \in 0..N
    BY <1>1
  <2>2. CASE k < l
    <3>1. k = l - 1 \/ k < l - 1
      BY <2>2
    <3>2. k < l - 1 => past[k] < past[l - 1]
      BY <2>1, PastGrows
    <3> HIDE DEF past
    <3> QED
      BY <1>2, <1>4, <2>1, <3>1, <3>2 DEF past
  <2>3. CASE l < k
    <3>1. l = k - 1 \/ l < k - 1
      BY <2>3
    <3>2. l < k - 1 => past[l] < past[k - 1]
      BY <2>1, PastGrows
    <3> HIDE DEF past
    <3> QED
      BY <1>2, <1>4, <2>1, <3>1, <3>2 DEF past
  <2> QED
    BY <2>1, <2>2, <2>3
<1>5. Has(l) /\ l \in 1..N
  OBVIOUS
<1> HIDE DEF Has, N
<1> QED
  BY <1>3, <1>4, <1>5

\* A position in the text is in a line.
LEMMA LineThere ==
  ASSUME NEW text, IsText(text), NEW quotes, IsQuotes(text, quotes),
         NEW p \in Nat \ {0}, p < Quote!Past(text, quotes)[Len(text)]
  PROVE  \E l \in 1..Len(text) :
           Quote!Past(text, quotes)[l - 1] <= p /\ p < Quote!Past(text, quotes)[l]
<1> DEFINE N == Len(text)
           past == Quote!Past(text, quotes)
           P == {n \in 0..N : p < past[n] => \E l \in 1..N : past[l - 1] <= p /\ p < past[l]}
<1>1. N \in Nat
  BY DEF IsText
<1>2. past[0] = 1 /\ \A k \in 0..N : past[k] \in Nat
  BY PastRounds
<1> HIDE DEF N, past
<1>3. 0 \in P
  BY <1>1, <1>2
<1>4. ASSUME NEW n \in 1..N, n - 1 \in P PROVE n \in P
  <2>1. n - 1 \in 0..N /\ n \in 0..N
    BY <1>1
  <2>2. past[n - 1] <= p \/ p < past[n - 1]
    BY <1>2, <2>1
  <2> QED
    BY <1>4, <2>1, <2>2
<1>5. \A n \in 0..N : n \in P
  <2> HIDE DEF P
  <2> QED
    BY <1>1, <1>3, <1>4, Induction
<1> QED
  BY <1>1, <1>5 DEF N, past

\* The states of the loop: point is in the text.
QuoteState(text) ==
  {s \in [quotes : [1..Len(text) -> Nat], point : Nat \ {0}] :
     s.point < Quote!Past(text, s.quotes)[Len(text)]}

\* One round of the loop, at the line that point is in.
QuotedAt(text, s, l, t) ==
  /\ t \in QuoteState(text)
  /\ t.quotes = [s.quotes EXCEPT ![l] = @ + 1]
  /\ t.point = Quote!Past(text, t.quotes)[IF l = 1 THEN 0 ELSE l - 2]

LEMMA QuoteAt ==
  ASSUME NEW text, IsText(text), NEW s \in QuoteState(text), NEW l \in 1..Len(text),
         Quote!Past(text, s.quotes)[l - 1] <= s.point, s.point < Quote!Past(text, s.quotes)[l]
  PROVE  QuotedAt(text, s, l, Quote!Quote(text, s))
<1> DEFINE N == Len(text)
           q == [s.quotes EXCEPT ![l] = @ + 1]
           point == Quote!Past(text, q)[IF l = 1 THEN 0 ELSE l - 2]
           t == Quote!Quote(text, s)
<1>1. N \in Nat /\ l \in 1..N
  BY DEF IsText
<1>2. s.quotes \in [1..N -> Nat] /\ IsQuotes(text, s.quotes) /\ s.point \in Nat
  BY DEF QuoteState, IsQuotes
<1>3. Quote!LineOf(text, s.quotes, s.point) = l
  BY <1>2, LineIs
<1>4. t = [quotes |-> q, point |-> Quote!Begin(text, q, IF l = 1 THEN 1 ELSE l - 1)]
  BY <1>3 DEF Quote!Quote
<1>5. q \in [1..N -> Nat] /\ IsQuotes(text, q)
  BY <1>2 DEF IsQuotes
<1> HIDE DEF q
<1>6. Quote!Begin(text, q, IF l = 1 THEN 1 ELSE l - 1) = point
  <2>1. (IF l = 1 THEN 1 ELSE l - 1) - 1 = (IF l = 1 THEN 0 ELSE l - 2)
    BY <1>1
  <2> QED
    BY <2>1 DEF Quote!Begin
<1>7. point \in Nat \ {0} /\ point < Quote!Past(text, q)[N]
  <2> DEFINE at == IF l = 1 THEN 0 ELSE l - 2
  <2>1. at \in 0..N /\ at < N /\ N \in 0..N
    BY <1>1
  <2> HIDE DEF at
  <2>2. Quote!Past(text, q)[at] < Quote!Past(text, q)[N]
    BY <1>5, <2>1, PastGrows
  <2>3. Quote!Past(text, q)[at] \in Nat /\ Quote!Past(text, q)[0] = 1
    BY <1>5, <2>1, PastRounds
  <2>4. at = 0 \/ Quote!Past(text, q)[0] < Quote!Past(text, q)[at]
    <3>1. at # 0 => 0 < at /\ 0 \in 0..N
      BY <1>1, <2>1
    <3> QED
      BY <1>5, <2>1, <3>1, PastGrows
  <2>5. Quote!Past(text, q)[at] # 0
    BY <2>3, <2>4
  <2> QED
    BY <2>2, <2>3, <2>5 DEF at
<1>8. t = [quotes |-> q, point |-> point]
  BY <1>4, <1>6
<1> HIDE DEF t, point
<1>9. t \in QuoteState(text) /\ t.quotes = q /\ t.point = point
  BY <1>5, <1>7, <1>8 DEF QuoteState
<1>10. QuotedAt(text, s, l, t)
  BY <1>9 DEF q, point, QuotedAt
<1> QED
  BY <1>10 DEF t

\* The lines that the loop has come to after d rounds, from line last upwards,
\* are quoted once; point is at the line before them, or before the first.
QuotedFrom(text, s, last, start, d) ==
  LET none == Quote!Unquoted(text) IN
  /\ s \in QuoteState(text)
  /\ \A l \in 1..Len(text) : s.quotes[l] = IF last - d < l /\ l <= last THEN 1 ELSE 0
  /\ s.point = IF d = 0 THEN start ELSE IF d = last THEN 1 ELSE Quote!Past(text, none)[last - d - 1]

\* The last line of the region, and the position in it.
IsStart(text, last, start) ==
  LET none == Quote!Unquoted(text) IN
  /\ last \in 1..Len(text) /\ start \in Nat
  /\ Quote!Past(text, none)[last - 1] <= start /\ start < Quote!Past(text, none)[last]

LEMMA Unquoted ==
  ASSUME NEW text, IsText(text)
  PROVE  /\ IsQuotes(text, Quote!Unquoted(text))
         /\ \A l \in 1..Len(text) : Quote!Unquoted(text)[l] = 0
BY DEF IsText, IsQuotes, Quote!Unquoted

LEMMA QuotedStep ==
  ASSUME NEW text, IsText(text), NEW last, NEW start, IsStart(text, last, start),
         NEW d \in 0..(last - 1), NEW s, QuotedFrom(text, s, last, start, d)
  PROVE  QuotedFrom(text, Quote!Quote(text, s), last, start, d + 1)
<1> DEFINE N == Len(text)
           none == Quote!Unquoted(text)
           l == last - d
           t == Quote!Quote(text, s)
           past(q) == Quote!Past(text, q)
<1>1. N \in Nat /\ last \in 1..N /\ l \in 1..N /\ l <= last /\ d \in Nat
  BY DEF IsText, IsStart
<1>2. s \in QuoteState(text) /\ IsQuotes(text, s.quotes) /\ IsQuotes(text, none)
  BY Unquoted DEF QuotedFrom, QuoteState, IsQuotes
<1>3. \A k \in 1..N : s.quotes[k] = IF l < k /\ k <= last THEN 1 ELSE 0
  BY DEF QuotedFrom
<1>4. \A n \in 0..l : past(s.quotes)[n] = past(none)[n]
  <2>1. \A k \in 1..l : s.quotes[k] = none[k]
    <3>1. \A k \in 1..l : k \in 1..N /\ ~(l < k)
      BY <1>1
    <3> HIDE DEF l, none
    <3> QED
      BY <1>1, <1>3, <3>1, Unquoted DEF none
  <2>2. l \in 0..N
    BY <1>1
  <2> HIDE DEF l, none
  <2> QED
    BY <1>2, <2>1, <2>2, PastSame
<1>5. /\ \A n \in 0..N : past(none)[n] \in Nat
      /\ past(none)[0] = 1 /\ past(none)[l - 1] < past(none)[l]
  <2>1. l - 1 \in 0..N /\ l \in 0..N /\ l - 1 < l
    BY <1>1
  <2> HIDE DEF l, none
  <2> QED
    BY <1>2, <2>1, PastRounds, PastGrows
<1>6. past(none)[l - 1] <= s.point /\ s.point < past(none)[l]
  <2>1. CASE d = 0
    <3>1. s.point = start /\ l = last
      BY <1>1, <2>1 DEF QuotedFrom
    <3> QED
      BY <3>1 DEF IsStart
  <2>2. CASE d # 0
    <3>1. d # last /\ last - d - 1 = l - 1 /\ l - 1 \in 0..N
      BY <1>1
    <3>2. s.point = past(none)[l - 1]
      BY <2>2, <3>1 DEF QuotedFrom
    <3> HIDE DEF l, none, past
    <3> QED
      BY <1>5, <3>1, <3>2
  <2> QED
    BY <2>1, <2>2
<1>7. /\ t \in QuoteState(text)
      /\ t.quotes = [s.quotes EXCEPT ![l] = @ + 1]
      /\ t.point = past(t.quotes)[IF l = 1 THEN 0 ELSE l - 2]
  <2>1. l - 1 \in 0..l /\ l \in 0..l
    BY <1>1
  <2>2. past(s.quotes)[l - 1] <= s.point /\ s.point < past(s.quotes)[l]
    <3> HIDE DEF l, none, past
    <3> QED
      BY <1>4, <1>6, <2>1
  <2>3. l \in 1..Len(text)
    BY <1>1
  <2> HIDE DEF l, none, t, N
  <2>4. QuotedAt(text, s, l, t)
    BY <1>2, <2>2, <2>3, QuoteAt DEF t
  <2> QED
    BY <2>4 DEF QuotedAt
<1> HIDE DEF t
<1>8. \A k \in 1..N : t.quotes[k] = IF last - (d + 1) < k /\ k <= last THEN 1 ELSE 0
  <2>1. s.quotes \in [1..N -> Nat]
    BY <1>2 DEF IsQuotes
  <2>2. ASSUME NEW k \in 1..N PROVE t.quotes[k] = IF last - (d + 1) < k /\ k <= last THEN 1 ELSE 0
    <3>1. t.quotes[k] = IF k = l THEN s.quotes[k] + 1 ELSE s.quotes[k]
      <4> HIDE DEF l
      <4> QED
        BY <1>7, <2>1
    <3>2. last - (d + 1) < k <=> k = l \/ l < k
      BY <1>1
    <3> QED
      BY <1>1, <1>3, <3>1, <3>2
  <2> QED
    BY <2>2
<1>9. t.point = IF d + 1 = last THEN 1 ELSE past(none)[last - (d + 1) - 1]
  <2> DEFINE at == IF l = 1 THEN 0 ELSE l - 2
  <2>1. IsQuotes(text, t.quotes)
    BY <1>7 DEF QuoteState, IsQuotes
  <2>2. l - 1 \in 0..N /\ \A k \in 1..(l - 1) : t.quotes[k] = none[k]
    <3>1. \A k \in 1..(l - 1) : k \in 1..N /\ ~(last - (d + 1) < k)
      BY <1>1
    <3> HIDE DEF l, none
    <3>2. l - 1 \in 0..N
      BY <1>1
    <3> QED
      BY <1>1, <1>8, <3>1, <3>2, Unquoted DEF none
  <2>3. at \in 0..(l - 1) /\ (d + 1 = last <=> l = 1)
        /\ (d + 1 # last => at = last - (d + 1) - 1)
    BY <1>1
  <2> HIDE DEF l, none
  <2>4. past(t.quotes)[at] = past(none)[at]
    <3> DEFINE q == t.quotes
               m == l - 1
    <3>1. IsQuotes(text, q) /\ m \in 0..N /\ (\A k \in 1..m : q[k] = none[k]) /\ at \in 0..m
      BY <2>1, <2>2, <2>3
    <3> HIDE DEF at, q, m
    <3>2. \A n \in 0..m : past(q)[n] = past(none)[n]
      BY <1>2, <3>1, PastSame
    <3> QED
      BY <3>1, <3>2 DEF q
  <2>5. CASE l = 1
    BY <1>5, <1>7, <2>3, <2>4, <2>5
  <2>6. CASE l # 1
    BY <1>7, <2>3, <2>4, <2>6
  <2> QED
    BY <2>5, <2>6 DEF none
<1>10. d + 1 # 0
  BY <1>1
<1> QED
  BY <1>7, <1>8, <1>9, <1>10 DEF QuotedFrom, t

LEMMA QuoteTypes ==
  ASSUME NEW text, IsText(text), NEW s \in QuoteState(text)
  PROVE  Quote!Quote(text, s) \in QuoteState(text)
<1>1. IsQuotes(text, s.quotes) /\ s.point \in Nat \ {0}
      /\ s.point < Quote!Past(text, s.quotes)[Len(text)]
  BY DEF QuoteState, IsQuotes
<1>2. PICK l \in 1..Len(text) :
        Quote!Past(text, s.quotes)[l - 1] <= s.point /\ s.point < Quote!Past(text, s.quotes)[l]
  BY <1>1, LineThere
<1> QED
  BY <1>2, QuoteAt DEF QuotedAt

\* Where the loop starts: at the end of the region, or before it if that is
\* the beginning of a line.
LEMMA StartIs ==
  ASSUME NEW text, NEW beg, NEW end, IsRegion(text, beg, end)
  PROVE  LET past  == Quote!Past(text, Quote!Unquoted(text))
             start == Quote!Start(text, end)
         IN \E last \in 1..Len(text) :
              /\ IsStart(text, last, start) /\ start > 0
              /\ end > 1 => \/ start = end - 1 /\ end = past[last]
                            \/ start = end /\ past[last - 1] < end /\ end < past[last]
<1> DEFINE N == Len(text)
           none == Quote!Unquoted(text)
           past == Quote!Past(text, none)
           start == Quote!Start(text, end)
<1>1. IsText(text) /\ N \in Nat /\ N > 0 /\ end \in Nat \ {0}
  BY DEF IsRegion, IsText
<1>2. IsQuotes(text, none)
  BY <1>1, Unquoted
<1>3. end < past[N]
  <2>1. (N + 1) - 1 = N
    BY <1>1
  <2> QED
    BY <2>1 DEF IsRegion, Quote!Begin
<1>4. past[0] = 1 /\ \A k \in 0..N : past[k] \in Nat
  BY <1>1, <1>2, PastRounds
<1>5. PICK l \in 1..N : past[l - 1] <= end /\ end < past[l]
  BY <1>1, <1>2, <1>3, LineThere
<1>6. Quote!LineOf(text, none, end) = l
  BY <1>1, <1>2, <1>5, LineIs
<1>7. start = IF end = past[l - 1] /\ end > 1 THEN end - 1 ELSE end
  BY <1>6 DEF Quote!Start, Quote!Begin
<1>8. l - 1 \in 0..N /\ l \in 0..N
  BY <1>1
<1>9. CASE end = past[l - 1] /\ end > 1
  <2>1. l > 1
    BY <1>1, <1>4, <1>9
  <2>2. l - 1 \in 1..N /\ (l - 1) - 1 \in 0..N /\ (l - 1) - 1 < l - 1
    BY <1>1, <2>1
  <2>3. past[(l - 1) - 1] < past[l - 1]
    BY <1>1, <1>2, <1>8, <2>2, PastGrows
  <2> DEFINE last == l - 1
  <2>4. start = end - 1 /\ end = past[last] /\ past[last - 1] <= start /\ start < past[last]
        /\ start > 0 /\ start \in Nat
    <3>1. past[last - 1] \in Nat /\ past[last] \in Nat /\ past[last - 1] < past[last]
      BY <1>4, <1>8, <2>2, <2>3
    <3> HIDE DEF last, past, start
    <3>2. start = end - 1 /\ end = past[last]
      BY <1>7, <1>9 DEF last
    <3> QED
      BY <1>1, <1>9, <3>1, <3>2
  <2>5. IsStart(text, last, start)
    BY <2>2, <2>4 DEF IsStart
  <2> HIDE DEF last, past, start
  <2> QED
    BY <2>2, <2>4, <2>5 DEF last, past, start
<1>10. CASE ~(end = past[l - 1] /\ end > 1)
  <2>1. start = end
    BY <1>7, <1>10
  <2>2. IsStart(text, l, start)
    BY <1>1, <1>5, <2>1 DEF IsStart
  <2>3. end > 1 => past[l - 1] < end
    <3>1. past[l - 1] \in Nat
      BY <1>4, <1>8
    <3> HIDE DEF past
    <3> QED
      BY <1>1, <1>5, <1>10, <3>1
  <2> HIDE DEF past, start
  <2> QED
    BY <1>1, <1>5, <2>1, <2>2, <2>3 DEF past, start
<1> QED
  BY <1>9, <1>10

\* Rounds is what its definition says, test by test.
LEMMA QuoteRounds ==
  ASSUME NEW text, IsText(text), NEW beg \in Nat, NEW end, NEW last,
         IsStart(text, last, Quote!Start(text, end)), Quote!Start(text, end) > 0,
         NEW limit \in Nat
  PROVE  LET s == Quote!Rounds(text, beg, end, limit) IN
         /\ QuotedFrom(text, s[0], last, Quote!Start(text, end), 0)
         /\ \A n \in 1..limit :
              s[n] = IF beg <= s[n - 1].point THEN Quote!Quote(text, s[n - 1]) ELSE s[n - 1]
<1> DEFINE none  == Quote!Unquoted(text)
           start == Quote!Start(text, end)
           first == [quotes |-> none, point |-> start]
           States == QuoteState(text)
           step == [x \in (1..limit) \X States |->
                      IF beg <= x[2].point THEN Quote!Quote(text, x[2]) ELSE x[2]]
           Is(s) == s = [n \in 0..limit |->
                           IF n = 0 THEN first
                           ELSE IF beg <= s[n - 1].point THEN Quote!Quote(text, s[n - 1]) ELSE s[n - 1]]
<1>1. IsQuotes(text, none) /\ \A l \in 1..Len(text) : none[l] = 0
  BY Unquoted
<1>2. first \in States
  <2>1. start \in Nat \ {0} /\ last \in 1..Len(text) /\ start < Quote!Past(text, none)[last]
    BY DEF IsStart
  <2>2. Len(text) \in Nat /\ \A k \in 0..Len(text) : Quote!Past(text, none)[k] \in Nat
    BY <1>1, PastRounds DEF IsText
  <2>3. last \in 0..Len(text) /\ Len(text) \in 0..Len(text)
          /\ (last = Len(text) \/ last < Len(text))
    BY <2>1, <2>2
  <2>4. last = Len(text) \/ Quote!Past(text, none)[last] < Quote!Past(text, none)[Len(text)]
    BY <1>1, <2>3, PastGrows
  <2>5. start < Quote!Past(text, none)[Len(text)]
    BY <2>1, <2>2, <2>3, <2>4
  <2> HIDE DEF none, start
  <2> QED
    BY <1>1, <2>1, <2>5 DEF QuoteState, IsQuotes
<1>3. step \in [(1..limit) \X States -> States]
  BY QuoteTypes
<1>4. PICK f : IsLoop(f, limit, States, first, step)
  <2> HIDE DEF step, States, first
  <2> QED
    BY <1>2, <1>3, Loop
<1>5. f \in [0..limit -> States] /\ f[0] = first
  BY <1>4 DEF IsLoop
<1>6. ASSUME NEW n \in 1..limit
      PROVE  f[n] = IF beg <= f[n - 1].point THEN Quote!Quote(text, f[n - 1]) ELSE f[n - 1]
  <2>1. f[n] = step[<<n, f[n - 1]>>]
    <3> HIDE DEF step
    <3> QED
      BY <1>4 DEF IsLoop
  <2>2. n - 1 \in 0..limit /\ f[n - 1] \in States
    <3> HIDE DEF States
    <3> QED
      BY <1>5
  <2>3. <<n, f[n - 1]>> \in (1..limit) \X States
    BY <2>2
  <2> HIDE DEF States
  <2> QED
    BY <2>1, <2>3
<1>7. Is(f)
  <2> HIDE DEF States, first
  <2> QED
    BY <1>5, <1>6
<1>8. Quote!Rounds(text, beg, end, limit) = CHOOSE s : Is(s)
  BY DEF Quote!Rounds
<1> DEFINE s == Quote!Rounds(text, beg, end, limit)
<1>9. Is(s)
  <2> HIDE DEF Is
  <2> QED
    BY <1>7, <1>8
<1> HIDE DEF s
<1>10. s[0] = first
  BY <1>9
<1>11. \A n \in 1..limit : s[n] = IF beg <= s[n - 1].point THEN Quote!Quote(text, s[n - 1]) ELSE s[n - 1]
  <2>1. \A n \in 1..limit : n \in 0..limit /\ n # 0
    OBVIOUS
  <2> HIDE DEF first
  <2> QED
    BY <1>9, <2>1
<1>12. QuotedFrom(text, s[0], last, start, 0)
  <2>1. s[0].quotes = none /\ s[0].point = start /\ s[0] \in QuoteState(text)
    BY <1>2, <1>10
  <2>2. \A l \in 1..Len(text) : ~(last - 0 < l /\ l <= last)
    BY DEF IsStart, IsText
  <2> HIDE DEF none, start
  <2> QED
    BY <1>1, <2>1, <2>2 DEF QuotedFrom
<1> QED
  BY <1>11, <1>12 DEF s

\* Where point is when the loop tests line l.
TestedAt(text, last, start, l) ==
  IF l = last THEN start ELSE Quote!Past(text, Quote!Unquoted(text))[l - 1]

\* The loop so far, for a region that does not start with the buffer: it has
\* quoted d lines whose tests succeeded, and goes on or has ended.
QuoteIs(text, beg, last, start, s, n, d) ==
  /\ d \in 0..n /\ d <= last
  /\ QuotedFrom(text, s, last, start, d)
  /\ \A l \in 1..last : last - d < l => beg <= TestedAt(text, last, start, l)
  /\ d = n \/ s.point < beg

LEMMA QuoteRound ==
  ASSUME NEW text, IsText(text), NEW beg \in Nat, beg > 1, NEW last, NEW start,
         IsStart(text, last, start), NEW n \in Nat \ {0}, NEW s, NEW d,
         QuoteIs(text, beg, last, start, s, n - 1, d),
         NEW t, t = IF beg <= s.point THEN Quote!Quote(text, s) ELSE s
  PROVE  \E e : QuoteIs(text, beg, last, start, t, n, e)
<1>1. last \in Nat /\ last > 0 /\ d \in Nat /\ d <= last /\ d <= n - 1 /\ last \in 1..Len(text)
  BY DEF IsStart, QuoteIs, IsText
<1>2. s.point \in Nat
  BY DEF QuoteIs, QuotedFrom, QuoteState
<1>3. CASE s.point < beg
  <2>1. t = s
    BY <1>2, <1>3
  <2>2. QuoteIs(text, beg, last, start, t, n, d)
    BY <1>1, <1>3, <2>1 DEF QuoteIs
  <2> QED
    BY <2>2
<1>4. CASE ~(s.point < beg)
  <2>1. d = n - 1 /\ t = Quote!Quote(text, s)
    BY <1>2, <1>4 DEF QuoteIs
  <2>2. d < last /\ s.point = TestedAt(text, last, start, last - d)
    <3>1. d # last
      <4>1. d = last => s.point = 1
        BY <1>1 DEF QuoteIs, QuotedFrom
      <4> QED
        BY <1>4, <4>1
    <3>2. s.point = IF d = 0 THEN start
                    ELSE Quote!Past(text, Quote!Unquoted(text))[last - d - 1]
      BY <3>1 DEF QuoteIs, QuotedFrom
    <3>3. d = 0 <=> last - d = last
      BY <1>1
    <3> QED
      BY <1>1, <3>1, <3>2, <3>3 DEF TestedAt
  <2>3. QuotedFrom(text, t, last, start, d + 1)
    <3>1. d \in 0..(last - 1)
      BY <1>1, <2>2
    <3>2. QuotedFrom(text, Quote!Quote(text, s), last, start, d + 1)
      BY <3>1, QuotedStep DEF QuoteIs
    <3> QED
      BY <2>1, <3>2
  <2>4. ASSUME NEW l \in 1..last, last - (d + 1) < l PROVE beg <= TestedAt(text, last, start, l)
    <3>1. l = last - d \/ last - d < l
      BY <1>1, <2>4
    <3>2. beg <= s.point
      BY <1>2, <1>4
    <3> QED
      BY <2>2, <3>1, <3>2 DEF QuoteIs
  <2>5. QuoteIs(text, beg, last, start, t, n, d + 1)
    BY <1>1, <2>1, <2>2, <2>3, <2>4 DEF QuoteIs
  <2> QED
    BY <2>5
<1> QED
  BY <1>3, <1>4

\* The lines whose tests succeed are the ones to be quoted.
LEMMA CitedIs ==
  ASSUME NEW text, NEW beg, NEW end, IsRegion(text, beg, end), beg > 1,
         Quote!AtLineStart(text, beg), NEW last, NEW start, IsStart(text, last, start),
         LET past == Quote!Past(text, Quote!Unquoted(text)) IN
         \/ start = end - 1 /\ end = past[last]
         \/ start = end /\ past[last - 1] < end /\ end < past[last]
  PROVE  \A l \in 1..Len(text) : l \in Quote!Cited(text, beg, end) <=>
           l <= last /\ beg <= TestedAt(text, last, start, l)
<1> DEFINE N == Len(text)
           none == Quote!Unquoted(text)
           past == Quote!Past(text, none)
<1>1. /\ IsText(text) /\ N \in Nat /\ beg \in Nat /\ end \in Nat /\ beg <= end
      /\ DOMAIN text = 1..N /\ last \in 1..N
  BY DEF IsRegion, IsText, IsStart
<1>2. IsQuotes(text, none)
  BY <1>1, Unquoted
<1>3. \A k \in 0..N : past[k] \in Nat
  BY <1>1, <1>2, PastRounds
<1>4. \A m, n \in 0..N : m <= n => past[m] <= past[n]
  <2>1. \A m, n \in 0..N : m < n => past[m] < past[n]
    BY <1>1, <1>2, PastGrows
  <2>2. \A m, n \in 0..N : m <= n => m = n \/ m < n
    BY <1>1
  <2> HIDE DEF past
  <2> QED
    BY <1>3, <2>1, <2>2
<1>5. \A l \in 1..N : past[l - 1] < past[l]
  <2>1. \A l \in 1..N : l - 1 \in 0..N /\ l \in 0..N /\ l - 1 < l
    BY <1>1
  <2> QED
    BY <1>1, <1>2, <2>1, PastGrows
<1>6. /\ \A l \in 1..N : l \in Quote!Cited(text, beg, end) <=>
           beg <= past[l - 1] /\ past[l - 1] < end
      /\ \E m \in 1..N : beg = past[m - 1]
  <2> HIDE DEF N
  <2> QED
    BY <1>1 DEF Quote!Cited, Quote!AtLineStart, Quote!Begin
<1>0. \A l \in 1..N : past[l - 1] < beg => past[l] <= beg
  <2>1. PICK m \in 1..N : beg = past[m - 1]
    BY <1>6
  <2>2. ASSUME NEW l \in 1..N, past[l - 1] < beg PROVE past[l] <= beg
    <3>1. l \in 0..N /\ l - 1 \in 0..N /\ m - 1 \in 0..N /\ (l <= m - 1 \/ m - 1 <= l - 1)
      BY <1>1
    <3>2. past[l - 1] \in Nat /\ past[m - 1] \in Nat
      BY <1>3, <3>1
    <3>3. l <= m - 1 => past[l] <= past[m - 1]
      BY <1>4, <3>1
    <3>4. m - 1 <= l - 1 => past[m - 1] <= past[l - 1]
      BY <1>4, <3>1
    <3> HIDE DEF past
    <3> QED
      BY <2>1, <2>2, <3>1, <3>2, <3>3, <3>4
  <2> QED
    BY <2>2
<1> HIDE DEF past, none
<1>7. \/ start = end - 1 /\ end = past[last]
      \/ start = end /\ past[last - 1] < end /\ end < past[last]
  BY DEF past, none
<1>8. past[last - 1] < end /\ end <= past[last] /\ past[last] \in Nat /\ past[last - 1] \in Nat
      /\ last \in 0..N /\ last - 1 \in 0..N
  <2>1. last \in 0..N /\ last - 1 \in 0..N
    BY <1>1
  <2> QED
    BY <1>1, <1>3, <1>5, <1>7, <2>1
<1>9. ASSUME NEW l \in 1..N
      PROVE  l \in Quote!Cited(text, beg, end) <=> l <= last
               /\ beg <= TestedAt(text, last, start, l)
  <2>1. l \in 0..N /\ l - 1 \in 0..N
    BY <1>1
  <2>2. past[l] \in Nat /\ past[l - 1] \in Nat
    BY <1>3, <2>1
  <2>0. l \in Quote!Cited(text, beg, end) <=> beg <= past[l - 1] /\ past[l - 1] < end
    BY <1>6
  <2>6. past[l - 1] < beg => past[l] <= beg
    BY <1>0
  <2>3. CASE l > last
    <3>1. last <= l - 1
      BY <1>1, <2>3
    <3>2. past[last] <= past[l - 1]
      BY <1>4, <1>8, <2>1, <3>1
    <3>3. ~(l <= last)
      BY <1>1, <2>3
    <3> QED
      BY <1>1, <1>6, <1>8, <2>2, <3>2, <3>3
  <2>4. CASE l < last
    <3>1. l <= last - 1 /\ l # last /\ l <= last
      BY <1>1, <2>4
    <3>2. past[l] <= past[last - 1] /\ past[l - 1] < past[l]
      BY <1>4, <1>5, <1>8, <2>1, <3>1
    <3>3. TestedAt(text, last, start, l) = past[l - 1]
      BY <3>1 DEF TestedAt, past, none
    <3> QED
      <4>1. past[l - 1] < end
        BY <1>1, <1>8, <2>2, <3>2
      <4> QED
        BY <2>0, <3>1, <3>3, <4>1
  <2>5. CASE l = last
    <3>1. TestedAt(text, last, start, l) = start /\ l <= last
      BY <1>1, <2>5 DEF TestedAt
    <3>2. start \in Nat
      BY DEF IsStart
    <3> QED
      <4>1. past[l - 1] < end /\ past[l - 1] <= start /\ start < past[l]
        BY <1>1, <1>7, <1>8, <2>2, <2>5, <3>2
      <4>2. beg <= start <=> beg <= past[l - 1]
        BY <1>1, <2>2, <2>6, <3>2, <4>1
      <4> QED
        BY <2>0, <3>1, <4>1, <4>2
  <2> QED
    BY <1>1, <2>3, <2>4, <2>5
<1> QED
  BY <1>9 DEF N

\* quote-insert, for any text and region: QuotesRegion.
LEMMA QuotesRight ==
  ASSUME NEW text, NEW beg, NEW end, IsRegion(text, beg, end)
  PROVE  Quote!QuotesRegion(text, beg, end)
<1>0. SUFFICES ASSUME beg > 1, Quote!AtLineStart(text, beg) PROVE Quote!QuotesRegion(text, beg, end)
  BY DEF Quote!QuotesRegion
<1> DEFINE N     == Len(text)
           limit == N + 1
           start == Quote!Start(text, end)
           past  == Quote!Past(text, Quote!Unquoted(text))
           s     == Quote!Rounds(text, beg, end, limit)
<1>1. IsText(text) /\ N \in Nat /\ limit \in Nat /\ beg \in Nat /\ beg > 0 /\ end \in Nat
        /\ beg <= end
      /\ DOMAIN text = 1..N
  BY DEF IsRegion, IsText
<1>2. PICK last \in 1..N :
        /\ IsStart(text, last, start) /\ start > 0
        /\ end > 1 => \/ start = end - 1 /\ end = past[last]
                      \/ start = end /\ past[last - 1] < end /\ end < past[last]
  BY StartIs
<1>3. /\ QuotedFrom(text, s[0], last, start, 0)
      /\ \A n \in 1..limit :
           s[n] = IF beg <= s[n - 1].point THEN Quote!Quote(text, s[n - 1]) ELSE s[n - 1]
  BY <1>1, <1>2, QuoteRounds
<1>4. Quote!QuotesRegion(text, beg, end) <=>
        /\ s[limit].point < beg
        /\ \A l \in 1..N :
             s[limit].quotes[l] = (IF l \in Quote!Cited(text, beg, end) THEN 1 ELSE 0)
  BY <1>0, <1>1 DEF Quote!QuotesRegion
<1> HIDE DEF s, start, past, limit
<1>5. limit = N + 1
  BY DEF limit
<1>6. CASE beg > 1
  <2> DEFINE P == {n \in 0..limit : \E d : QuoteIs(text, beg, last, start, s[n], n, d)}
  <2>1. 0 \in P
    <3>1. QuoteIs(text, beg, last, start, s[0], 0, 0)
      BY <1>1, <1>2, <1>3 DEF QuoteIs
    <3> QED
      BY <1>1, <3>1
  <2>2. ASSUME NEW n \in 1..limit, n - 1 \in P PROVE n \in P
    <3>1. PICK d : QuoteIs(text, beg, last, start, s[n - 1], n - 1, d)
      BY <2>2
    <3>2. n \in Nat \ {0} /\ n \in 0..limit
      BY <1>1
    <3>3. \E e : QuoteIs(text, beg, last, start, s[n], n, e)
      BY <1>1, <1>2, <1>3, <1>6, <3>1, <3>2, QuoteRound
    <3> QED
      BY <3>2, <3>3
  <2>3. \A n \in 0..limit : n \in P
    <3> HIDE DEF P
    <3> QED
      BY <1>1, <2>1, <2>2, Induction
  <2>4. PICK d : QuoteIs(text, beg, last, start, s[limit], limit, d)
    BY <1>1, <2>3
  <2>5. d \in Nat /\ d <= last /\ last \in 1..N /\ s[limit].point < beg
    BY <1>1, <1>5, <2>4 DEF QuoteIs
  <2>6. /\ \A l \in 1..N : s[limit].quotes[l] = IF last - d < l /\ l <= last THEN 1 ELSE 0
        /\ \A l \in 1..last : last - d < l => beg <= TestedAt(text, last, start, l)
    BY <2>4 DEF QuoteIs, QuotedFrom
  <2>7. ASSUME NEW l \in 1..N, l <= last - d PROVE TestedAt(text, last, start, l) < beg
    <3>1. d # last /\ last - d \in 1..N
      BY <1>1, <2>5, <2>7
    <3>2. s[limit].point = TestedAt(text, last, start, last - d)
      <4>1. d = 0 <=> last - d = last
        BY <2>5
      <4> QED
        BY <2>4, <3>1, <4>1 DEF QuoteIs, QuotedFrom, TestedAt
    <3>3. TestedAt(text, last, start, l) <= TestedAt(text, last, start, last - d)
      <4>1. IsQuotes(text, Quote!Unquoted(text))
        BY <1>1, Unquoted
      <4>2. /\ \A k \in 0..N : past[k] \in Nat
            /\ \A m, n \in 0..N : m < n => past[m] < past[n]
        BY <1>1, <4>1, PastRounds, PastGrows DEF past
      <4>3. start \in Nat /\ past[last - 1] <= start
        BY <1>2 DEF IsStart, past
      <4>4. \A k \in 1..N : TestedAt(text, last, start, k) = IF k = last THEN start ELSE past[k - 1]
        BY DEF TestedAt, past
      <4> DEFINE m == last - d
      <4>5. l - 1 \in 0..N /\ m - 1 \in 0..N /\ last - 1 \in 0..N /\ m \in 1..N
            /\ (l = m \/ l - 1 < m - 1) /\ (m = last \/ m - 1 < last - 1)
            /\ (l = last => m = last) /\ (l < m => l # last /\ l - 1 < last - 1)
            /\ (l = m \/ l < m)
        BY <1>1, <2>5, <2>7, <3>1
      <4> HIDE DEF m
      <4>6. CASE l = m
        BY <4>2, <4>3, <4>4, <4>5, <4>6 DEF m
      <4>7. CASE l < m
        <5>1. TestedAt(text, last, start, l) = past[l - 1]
          BY <4>4, <4>5, <4>7
        <5>2. past[l - 1] <= TestedAt(text, last, start, m)
          <6>1. past[l - 1] \in Nat /\ past[m - 1] \in Nat /\ past[last - 1] \in Nat
                /\ past[l - 1] < past[m - 1]
            BY <4>2, <4>5, <4>7
          <6>2. CASE m = last
            <7>1. TestedAt(text, last, start, m) = start
              BY <4>4, <4>5, <6>2
            <7> QED
              BY <4>3, <6>1, <6>2, <7>1
          <6>3. CASE m # last
            <7>1. TestedAt(text, last, start, m) = past[m - 1]
              BY <4>4, <4>5, <6>3
            <7> QED
              BY <6>1, <7>1
          <6> QED
            BY <6>2, <6>3
        <5> QED
          BY <5>1, <5>2 DEF m
      <4> QED
        BY <4>5, <4>6, <4>7
    <3>4. TestedAt(text, last, start, l) \in Int /\ s[limit].point \in Int
      <4>1. l - 1 \in 0..N
        BY <1>1
      <4>2. IsQuotes(text, Quote!Unquoted(text))
        BY <1>1, Unquoted
      <4>3. start \in Int /\ Quote!Past(text, Quote!Unquoted(text))[l - 1] \in Int
        <5>1. start \in Int
          BY <1>2 DEF IsStart
        <5>2. Quote!Past(text, Quote!Unquoted(text)) \in [0..N -> Nat]
          BY <1>1, <4>2, PastRounds
        <5> QED
          BY <4>1, <5>1, <5>2
      <4>4. s[limit] \in QuoteState(text)
        BY <2>4 DEF QuoteIs, QuotedFrom
      <4> QED
        BY <4>3, <4>4 DEF TestedAt, QuoteState
    <3> QED
      BY <1>1, <2>5, <3>2, <3>3, <3>4
  <2>8. \A l \in 1..N : l \in Quote!Cited(text, beg, end) <=>
          l <= last /\ beg <= TestedAt(text, last, start, l)
    <3>1. end > 1
      BY <1>1, <1>6
    <3> QED
      BY <1>0, <1>2, <1>6, <3>1, CitedIs DEF past
  <2>9. ASSUME NEW l \in 1..N
        PROVE  s[limit].quotes[l] = (IF l \in Quote!Cited(text, beg, end) THEN 1 ELSE 0)
    <3>1. CASE l > last
      <4>1. ~(l <= last)
        BY <2>5, <3>1
      <4> QED
        BY <2>6, <2>8, <4>1
    <3>2. CASE l <= last /\ last - d < l
      <4>1. l \in 1..last
        BY <2>5, <3>2
      <4> QED
        BY <2>6, <2>8, <3>2, <4>1
    <3>3. CASE l <= last /\ l <= last - d
      <4>1. ~(last - d < l)
        BY <2>5, <3>3
      <4>2. TestedAt(text, last, start, l) < beg
        BY <2>7, <3>3
      <4>3. TestedAt(text, last, start, l) \in Int
        <5>1. l - 1 \in 0..N
          BY <1>1
        <5>2. IsQuotes(text, Quote!Unquoted(text))
          BY <1>1, Unquoted
        <5>3. start \in Int /\ Quote!Past(text, Quote!Unquoted(text))[l - 1] \in Int
          <6>1. start \in Int
            BY <1>2 DEF IsStart
          <6>2. Quote!Past(text, Quote!Unquoted(text)) \in [0..N -> Nat]
            BY <1>1, <5>2, PastRounds
          <6> QED
            BY <5>1, <6>1, <6>2
        <5> QED
          BY <5>3 DEF TestedAt
      <4>4. ~(beg <= TestedAt(text, last, start, l))
        BY <1>1, <4>2, <4>3
      <4> QED
        BY <2>6, <2>8, <4>1, <4>4
    <3> QED
      BY <2>5, <3>1, <3>2, <3>3
  <2> QED
    BY <1>4, <1>6, <2>5, <2>9
<1> QED
  BY <1>0, <1>6

----------------------------------------------------------------------------
(* shpath.c and shpath.sh                                                  *)

LEMMA ShpathCardinality == \A S : Sh!Cardinality(S) = Cardinality(S)
BY DEF Sh!Cardinality, Cardinality

\* What Kept has after n elements: the elements of the set among them, each at
\* its rank.
KeptIs(kept, seq, set, n) ==
  LET A == {k \in DOMAIN seq : seq[k] \in set} IN
  /\ kept \in Seq({seq[k] : k \in DOMAIN seq})
  /\ Len(kept) = Cardinality(A \cap (1..n))
  /\ \A k \in A \cap (1..n) : kept[Cardinality(A \cap (1..k))] = seq[k]
  /\ \A k \in 1..Len(kept) : \E j \in A \cap (1..n) : kept[k] = seq[j]

LEMMA KeptStep ==
  ASSUME NEW seq, IsSeq(seq), NEW set, NEW n \in 1..Len(seq), NEW kept,
         KeptIs(kept, seq, set, n - 1)
  PROVE  KeptIs(IF seq[n] \in set THEN Append(kept, seq[n]) ELSE kept, seq, set, n)
<1> DEFINE N == Len(seq)
           E == {seq[k] : k \in DOMAIN seq}
           A == {k \in DOMAIN seq : seq[k] \in set}
           C(k) == Cardinality(A \cap (1..k))
           next == IF seq[n] \in set THEN Append(kept, seq[n]) ELSE kept
<1>1. N \in Nat /\ DOMAIN seq = 1..N /\ n \in 1..N /\ n \in Nat /\ n > 0
  BY DEF IsSeq
<1>2. /\ kept \in Seq(E) /\ Len(kept) = C(n - 1)
      /\ \A k \in A \cap (1..(n - 1)) : kept[C(k)] = seq[k]
      /\ \A k \in 1..Len(kept) : \E j \in A \cap (1..(n - 1)) : kept[k] = seq[j]
  BY DEF KeptIs
<1>3. C(n - 1) \in Nat /\ C(n) = C(n - 1) + (IF n \in A THEN 1 ELSE 0)
  <2> HIDE DEF A
  <2> QED
    BY <1>1, OneMore
<1>4. n \in A <=> seq[n] \in set
  BY <1>1
<1>5. seq[n] \in E
  BY <1>1
<1>6. CASE n \notin A
  <2>1. A \cap (1..n) = A \cap (1..(n - 1))
    <3>1. \A k \in 1..n : k = n \/ k \in 1..(n - 1)
      BY <1>1
    <3>2. \A k \in 1..(n - 1) : k \in 1..n
      BY <1>1
    <3> HIDE DEF A
    <3> QED
      BY <1>6, <3>1, <3>2
  <2> QED
    BY <1>2, <1>4, <1>6, <2>1 DEF KeptIs
<1>7. CASE n \in A
  <2> HIDE DEF E, C, A
  <2>1. next = Append(kept, seq[n])
    BY <1>4, <1>7
  <2>2. /\ next \in Seq(E) /\ Len(next) = C(n - 1) + 1 /\ next[C(n - 1) + 1] = seq[n]
        /\ \A k \in 1..C(n - 1) : next[k] = kept[k]
    BY <1>2, <1>5, <2>1, AppendProperties
  <2>3. \A k \in A \cap (1..n) : k = n \/ k \in A \cap (1..(n - 1))
    <3>1. \A k \in 1..n : k = n \/ k \in 1..(n - 1)
      BY <1>1
    <3> QED
      BY <3>1
  <2>4. \A k \in A \cap (1..(n - 1)) : C(k) \in 1..C(n - 1)
    <3>1. ASSUME NEW k \in A \cap (1..(n - 1)) PROVE C(k) \in 1..C(n - 1)
      <4>1. k \in Nat /\ k > 0 /\ k \in A
        BY <1>1
      <4>2. C(k - 1) \in Nat /\ C(k) = C(k - 1) + 1
        BY <4>1, OneMore DEF C
      <4>3. C(k) <= C(n - 1)
        <5>1. A \cap (1..k) \subseteq A \cap (1..(n - 1))
          <6>1. \A j \in 1..k : j \in 1..(n - 1)
            BY <1>1
          <6> QED
            BY <6>1
        <5>2. IsFiniteSet(A \cap (1..(n - 1)))
          <6>1. IsFiniteSet(1..(n - 1))
            BY <1>1, FS_Interval
          <6> QED
            BY <6>1, FS_Intersection
        <5> QED
          BY <5>1, <5>2, FS_Subset DEF C
      <4> QED
        BY <1>3, <4>2, <4>3
    <3> QED
      BY <3>1
  <2>5. Len(next) = C(n)
    BY <1>3, <1>7, <2>2
  <2>6. \A k \in A \cap (1..n) : next[C(k)] = seq[k]
    <3>1. C(n) = C(n - 1) + 1
      BY <1>3, <1>7
    <3> HIDE DEF next
    <3> QED
      BY <1>2, <2>2, <2>3, <2>4, <3>1
  <2>7. \A k \in 1..Len(next) : \E j \in A \cap (1..n) : next[k] = seq[j]
    <3>1. \A k \in 1..Len(next) : k = C(n - 1) + 1 \/ k \in 1..C(n - 1)
      BY <1>3, <2>2
    <3>2. n \in A \cap (1..n) /\ \A j \in A \cap (1..(n - 1)) : j \in A \cap (1..n)
      BY <1>1, <1>7
    <3> HIDE DEF next
    <3> QED
      BY <1>2, <2>2, <3>1, <3>2
  <2> QED
    BY <2>2, <2>5, <2>6, <2>7 DEF KeptIs, A, C, E
<1> QED
  BY <1>6, <1>7

LEMMA KeptRight ==
  ASSUME NEW seq, IsSeq(seq), NEW set
  PROVE  KeptIs(Sh!Kept(seq, set), seq, set, Len(seq))
<1> DEFINE N == Len(seq)
           States == Seq({seq[k] : k \in DOMAIN seq})
           step == [x \in (1..N) \X States |->
                      IF seq[x[1]] \in set THEN Append(x[2], seq[x[1]]) ELSE x[2]]
           Is(s) == s = [n \in 0..N |->
                           IF n = 0 THEN << >>
                           ELSE IF seq[n] \in set THEN Append(s[n - 1], seq[n]) ELSE s[n - 1]]
<1>1. N \in Nat /\ DOMAIN seq = 1..N /\ seq \in States
  BY DEF IsSeq
<1>2. step \in [(1..N) \X States -> States]
  <2>1. ASSUME NEW n \in 1..N, NEW s \in States PROVE Append(s, seq[n]) \in States
    <3>1. seq[n] \in {seq[k] : k \in DOMAIN seq}
      BY <1>1
    <3> QED
      BY <3>1, AppendProperties
  <2> HIDE DEF States, N
  <2> QED
    BY <2>1
<1>3. << >> \in States
  OBVIOUS
<1>4. PICK f : IsLoop(f, N, States, << >>, step)
  <2> HIDE DEF step, States, N
  <2> QED
    BY <1>1, <1>2, <1>3, Loop
<1>5. f \in [0..N -> States] /\ f[0] = << >>
  BY <1>4 DEF IsLoop
<1>6. ASSUME NEW n \in 1..N
      PROVE  f[n] = IF seq[n] \in set THEN Append(f[n - 1], seq[n]) ELSE f[n - 1]
  <2>1. f[n] = step[<<n, f[n - 1]>>]
    <3> HIDE DEF step
    <3> QED
      BY <1>4 DEF IsLoop
  <2>2. n - 1 \in 0..N /\ f[n - 1] \in States
    <3> HIDE DEF States, N
    <3> QED
      BY <1>1, <1>5
  <2>3. <<n, f[n - 1]>> \in (1..N) \X States
    BY <2>2
  <2> HIDE DEF States
  <2> QED
    BY <2>1, <2>3
<1>7. Is(f)
  <2> DEFINE body(s, n) == IF n = 0 THEN << >>
                           ELSE IF seq[n] \in set THEN Append(s[n - 1], seq[n]) ELSE s[n - 1]
  <2>1. ASSUME NEW n \in 0..N PROVE f[n] = body(f, n)
    <3>1. n = 0 \/ n \in 1..N
      BY <1>1
    <3> HIDE DEF States, N
    <3> QED
      BY <1>5, <1>6, <3>1
  <2>2. f = [n \in 0..N |-> body(f, n)]
    <3> HIDE DEF States, N, body
    <3> QED
      BY <1>5, <2>1
  <2> QED
    BY <2>2
<1> DEFINE kept == CHOOSE s : Is(s)
<1>8. Sh!Kept(seq, set) = kept[N]
  BY DEF Sh!Kept
<1>9. Is(kept)
  <2> HIDE DEF Is
  <2> QED
    BY <1>7
<1> HIDE DEF kept, N
<1>10. kept[0] = << >>
  BY <1>1, <1>9
<1>11. \A n \in 1..N : kept[n] = IF seq[n] \in set THEN Append(kept[n - 1], seq[n]) ELSE kept[n - 1]
  <2>1. \A n \in 1..N : n \in 0..N /\ n # 0
    BY <1>1
  <2> QED
    BY <1>9, <2>1
<1> DEFINE P == {n \in 0..N : KeptIs(kept[n], seq, set, n)}
<1>12. 0 \in P
  <2>1. {k \in DOMAIN seq : seq[k] \in set} \cap (1..0) = {}
    OBVIOUS
  <2>2. Cardinality({}) = 0
    BY FS_EmptySet
  <2>3. KeptIs(<< >>, seq, set, 0)
    BY <1>3, <2>1, <2>2 DEF KeptIs
  <2> QED
    BY <1>1, <1>10, <2>3
<1>13. ASSUME NEW n \in 1..N, n - 1 \in P PROVE n \in P
  <2>1. KeptIs(IF seq[n] \in set THEN Append(kept[n - 1], seq[n]) ELSE kept[n - 1], seq, set, n)
    BY <1>13, KeptStep DEF N
  <2>2. n \in 0..N
    BY <1>1
  <2> QED
    BY <1>11, <2>1, <2>2
<1>14. \A n \in 0..N : n \in P
  <2> HIDE DEF P
  <2> QED
    BY <1>1, <1>12, <1>13, Induction
<1>15. N \in P
  BY <1>1, <1>14
<1> QED
  BY <1>8, <1>15 DEF N

\* The elements of a sequence that are in a set are those of what is kept.
LEMMA KeptElements ==
  ASSUME NEW seq, IsSeq(seq), NEW set
  PROVE  /\ Sh!Elements(Sh!Kept(seq, set)) = Sh!Elements(seq) \cap set
         /\ IsSeq(Sh!Kept(seq, set))
<1> DEFINE kept == Sh!Kept(seq, set)
           N == Len(seq)
           A == {k \in DOMAIN seq : seq[k] \in set}
           C(k) == Cardinality(A \cap (1..k))
<1>1. N \in Nat /\ DOMAIN seq = 1..N
  BY DEF IsSeq
<1>2. /\ kept \in Seq({seq[k] : k \in DOMAIN seq}) /\ Len(kept) = C(N)
      /\ \A k \in A \cap (1..N) : kept[C(k)] = seq[k]
      /\ \A k \in 1..Len(kept) : \E j \in A \cap (1..N) : kept[k] = seq[j]
  <2>1. KeptIs(kept, seq, set, N)
    BY KeptRight
  <2> HIDE DEF kept
  <2> QED
    BY <2>1 DEF KeptIs
<1>3. DOMAIN kept = 1..Len(kept) /\ Len(kept) \in Nat
  BY <1>2
<1> HIDE DEF kept
<1>4. ASSUME NEW e \in Sh!Elements(kept) PROVE e \in Sh!Elements(seq) \cap set
  BY <1>1, <1>2, <1>3 DEF Sh!Elements
<1>5. ASSUME NEW k \in 1..N, seq[k] \in set PROVE seq[k] \in Sh!Elements(kept)
  <2>1. k \in A \cap (1..N) /\ k \in Nat /\ k > 0
    BY <1>1, <1>5
  <2>2. C(k) \in 1..Len(kept)
    <3> HIDE DEF A
    <3>1. C(k - 1) \in Nat /\ C(k) = C(k - 1) + 1
      BY <2>1, OneMore
    <3>2. C(k) <= C(N)
      <4>1. A \cap (1..k) \subseteq A \cap (1..N)
        <5>1. \A j \in 1..k : j \in 1..N
          BY <1>1
        <5> QED
          BY <5>1
      <4>2. IsFiniteSet(A \cap (1..N))
        <5>1. IsFiniteSet(1..N)
          BY <1>1, FS_Interval
        <5> QED
          BY <5>1, FS_Intersection
      <4> QED
        BY <4>1, <4>2, FS_Subset
    <3> HIDE DEF C
    <3> QED
      BY <1>2, <1>3, <3>1, <3>2
  <2> HIDE DEF A, C
  <2> QED
    BY <1>2, <1>3, <2>1, <2>2 DEF Sh!Elements
<1>6. Sh!Elements(kept) = Sh!Elements(seq) \cap set
  BY <1>1, <1>4, <1>5 DEF Sh!Elements
<1>7. IsSeq(kept)
  <2>1. kept = [k \in 1..Len(kept) |-> kept[k]]
    BY <1>2, <1>3
  <2> DEFINE E == {kept[k] : k \in DOMAIN kept}
             n == Len(kept)
  <2>2. kept \in [1..n -> E]
    BY <1>3, <2>1
  <2> HIDE DEF E
  <2>3. kept \in Seq(E)
    <3> HIDE DEF n
    <3>1. n \in Nat
      BY <1>3 DEF n
    <3> QED
      BY <2>2, <3>1
  <2> QED
    BY <2>3 DEF IsSeq, E
<1> QED
  BY <1>6, <1>7 DEF kept

\* The options after n arguments.
ShpathOptionsAre(o, args, n) ==
  /\ o \in [first : BOOLEAN, path : {"PATH", "MANPATH"}]
  /\ o.first <=> \E k \in 1..n : args[k] = "-f"
  /\ o.path = IF \E k \in 1..n : args[k] = "-pMANPATH" THEN "MANPATH" ELSE "PATH"

LEMMA ShpathOptionStep ==
  ASSUME NEW args, NEW n \in Nat \ {0}, NEW o, ShpathOptionsAre(o, args, n - 1)
  PROVE  ShpathOptionsAre(Sh!Option(o, args[n]), args, n)
<1> DEFINE arg == args[n]
           p == Sh!Option(o, arg)
<1>1. /\ o \in [first : BOOLEAN, path : {"PATH", "MANPATH"}]
      /\ o.first <=> \E k \in 1..(n - 1) : args[k] = "-f"
      /\ o.path = IF \E k \in 1..(n - 1) : args[k] = "-pMANPATH" THEN "MANPATH" ELSE "PATH"
  BY DEF ShpathOptionsAre
<1>2. n \in 1..n /\ (\A k \in 1..n : k = n \/ k \in 1..(n - 1))
        /\ (\A k \in 1..(n - 1) : k \in 1..n)
  OBVIOUS
<1>3. /\ (\E k \in 1..n : args[k] = "-f") <=> arg = "-f" \/ \E k \in 1..(n - 1) : args[k] = "-f"
      /\ (\E k \in 1..n : args[k] = "-pMANPATH") <=>
           arg = "-pMANPATH" \/ \E k \in 1..(n - 1) : args[k] = "-pMANPATH"
  BY <1>2
<1>4. /\ p \in [first : BOOLEAN, path : {"PATH", "MANPATH"}]
      /\ p.first <=> arg = "-f" \/ o.first
      /\ p.path = IF arg = "-pMANPATH" THEN "MANPATH" ELSE o.path
  <2>1. CASE arg = "-f"
    <3>1. p = [o EXCEPT !.first = TRUE]
      BY <2>1 DEF Sh!Option
    <3>2. LET q == [o EXCEPT !.first = TRUE] IN
          q \in [first : BOOLEAN, path : {"PATH", "MANPATH"}] /\ q.first /\ q.path = o.path
      BY <1>1
    <3> HIDE DEF p
    <3> QED
      BY <2>1, <3>1, <3>2
  <2>2. CASE arg = "-pMANPATH"
    <3>1. p = [o EXCEPT !.path = "MANPATH"]
      BY <2>2 DEF Sh!Option
    <3>2. LET q == [o EXCEPT !.path = "MANPATH"] IN
          q \in [first : BOOLEAN, path : {"PATH", "MANPATH"}] /\ q.path = "MANPATH"
          /\ (q.first <=> o.first)
      BY <1>1
    <3> HIDE DEF p
    <3> QED
      BY <2>2, <3>1, <3>2
  <2>3. CASE arg # "-f" /\ arg # "-pMANPATH"
    <3>1. p = o
      BY <2>3 DEF Sh!Option
    <3> HIDE DEF p
    <3> QED
      BY <1>1, <2>3, <3>1
  <2> QED
    BY <2>1, <2>2, <2>3
<1> HIDE DEF p
<1>5. p.first <=> \E k \in 1..n : args[k] = "-f"
  BY <1>1, <1>3, <1>4
<1>6. p.path = IF \E k \in 1..n : args[k] = "-pMANPATH" THEN "MANPATH" ELSE "PATH"
  BY <1>1, <1>3, <1>4
<1> QED
  BY <1>4, <1>5, <1>6 DEF ShpathOptionsAre, p

LEMMA ShpathOptionsRight ==
  ASSUME NEW args, IsSeq(args)
  PROVE  LET o == Sh!Options(args) IN
         /\ o.first \in BOOLEAN /\ (o.first <=> "-f" \in Sh!Elements(args))
         /\ o.path = IF "-pMANPATH" \in Sh!Elements(args) THEN "MANPATH" ELSE "PATH"
<1> DEFINE N == Len(args)
           None == [first |-> FALSE, path |-> "PATH"]
           States == [first : BOOLEAN, path : {"PATH", "MANPATH"}]
           step == [x \in (1..N) \X States |-> Sh!Option(x[2], args[x[1]])]
           Is(s) == s = [n \in 0..N |-> IF n = 0 THEN None ELSE Sh!Option(s[n - 1], args[n])]
<1>1. N \in Nat /\ DOMAIN args = 1..N
  BY DEF IsSeq
<1>2. step \in [(1..N) \X States -> States]
  <2>1. ASSUME NEW s \in States, NEW arg PROVE Sh!Option(s, arg) \in States
    BY DEF Sh!Option
  <2> HIDE DEF States
  <2> QED
    BY <2>1
<1>3. None \in States
  OBVIOUS
<1>4. PICK f : IsLoop(f, N, States, None, step)
  <2> HIDE DEF step, States, N, None
  <2> QED
    BY <1>1, <1>2, <1>3, Loop
<1>5. f \in [0..N -> States] /\ f[0] = None
  BY <1>4 DEF IsLoop
<1>6. ASSUME NEW n \in 1..N PROVE f[n] = Sh!Option(f[n - 1], args[n])
  <2>1. f[n] = step[<<n, f[n - 1]>>]
    <3> HIDE DEF step
    <3> QED
      BY <1>4 DEF IsLoop
  <2>2. n - 1 \in 0..N /\ f[n - 1] \in States
    <3> HIDE DEF States, N
    <3> QED
      BY <1>1, <1>5
  <2>3. <<n, f[n - 1]>> \in (1..N) \X States
    BY <2>2
  <2> HIDE DEF States
  <2> QED
    BY <2>1, <2>3
<1>7. Is(f)
  <2> HIDE DEF States, N, None
  <2> QED
    BY <1>1, <1>5, <1>6
<1> DEFINE o == CHOOSE s : Is(s)
<1>8. Sh!Options(args) = o[N]
  BY DEF Sh!Options
<1>9. Is(o)
  <2> HIDE DEF Is
  <2> QED
    BY <1>7
<1> HIDE DEF o, N
<1>10. o[0] = None /\ \A n \in 1..N : o[n] = Sh!Option(o[n - 1], args[n])
  <2>1. \A n \in 1..N : n \in 0..N /\ n # 0
    BY <1>1
  <2> HIDE DEF None
  <2> QED
    BY <1>1, <1>9, <2>1
<1> DEFINE P == {n \in 0..N : ShpathOptionsAre(o[n], args, n)}
<1>11. 0 \in P
  <2>1. ~\E k \in 1..0 : TRUE
    OBVIOUS
  <2>2. None.path = "PATH" /\ ~None.first
    OBVIOUS
  <2> HIDE DEF None, States
  <2>3. ShpathOptionsAre(None, args, 0)
    BY <1>3, <2>1, <2>2 DEF ShpathOptionsAre, States
  <2> QED
    BY <1>1, <1>10, <2>3
<1>12. ASSUME NEW n \in 1..N, n - 1 \in P PROVE n \in P
  <2>1. n \in Nat \ {0} /\ n \in 0..N
    BY <1>1
  <2> QED
    BY <1>10, <1>12, <2>1, ShpathOptionStep
<1>13. \A n \in 0..N : n \in P
  <2> HIDE DEF P
  <2> QED
    BY <1>1, <1>11, <1>12, Induction
<1>14. ShpathOptionsAre(Sh!Options(args), args, N)
  BY <1>1, <1>8, <1>13
<1> QED
  BY <1>1, <1>14 DEF ShpathOptionsAre, Sh!Elements

\* shpath and the script, for any arguments, paths and directories:
\* ShpathReports.
LEMMA ShpathRight ==
  ASSUME NEW args, IsSeq(args), NEW env, IsSeq(env["PATH"]), IsSeq(env["MANPATH"]),
         NEW named \in BOOLEAN, NEW at
  PROVE  Sh!ShpathReports(args, env, named, at)
<1> DEFINE first  == "-f" \in Sh!Elements(args)
           path   == env[IF "-pMANPATH" \in Sh!Elements(args) THEN "MANPATH" ELSE "PATH"]
           good   == {dir \in Sh!Components(path) : Sh!Stat(at, dir, named)}
           found  == Sh!Kept(path, good)
           result == Sh!Main(args, env, named, at)
           fewer  == Sh!Kept(args, Sh!Elements(args) \ {"-f"})
           all    == Sh!Main(fewer, env, named, at)
           places == {k \in DOMAIN path : path[k] # Sh!NoName /\ Sh!Stat(at, path[k], named)}
           script == Sh!Script(path, named, at)
           N      == Len(path)
           C(k)   == Cardinality({j \in places : j <= k})
<1>1. IsSeq(path) /\ N \in Nat /\ DOMAIN path = 1..N
  BY DEF IsSeq
<1> HIDE DEF path, N
<1>2. path # << >> =>
        /\ result.ends = "failure" <=> path = <<Sh!NoName>>
        /\ path # <<Sh!NoName>> => result.lines = IF first
             /\ found # << >> THEN <<found[1]>> ELSE found
        /\ path = <<Sh!NoName>> => result.lines = << >>
  <2> DEFINE o == Sh!Options(args)
  <2>1. env[o.path] = path /\ (o.first <=> first) /\ o.first \in BOOLEAN
    BY ShpathOptionsRight DEF path
  <2> HIDE DEF o, first, good, result
  <2>2. result = IF path = << >> THEN [lines |-> << >>, ends |-> "crash"]
                 ELSE IF path = <<Sh!NoName>> THEN [lines |-> << >>, ends |-> "failure"]
                 ELSE [lines |-> IF o.first /\ found # << >> THEN <<found[1]>> ELSE found,
                       ends  |-> "success"]
    BY <2>1 DEF Sh!Main, good, o, result
  <2> QED
    BY <2>1, <2>2
<1>3. path # << >> => all.lines = IF path = <<Sh!NoName>> THEN << >> ELSE found
  <2> DEFINE o == Sh!Options(fewer)
  <2>1. IsSeq(fewer) /\ Sh!Elements(fewer) = Sh!Elements(args) \ {"-f"}
    BY KeptElements
  <2> HIDE DEF fewer
  <2>2. /\ o.first \in BOOLEAN /\ (o.first <=> "-f" \in Sh!Elements(fewer))
        /\ o.path = IF "-pMANPATH" \in Sh!Elements(fewer) THEN "MANPATH" ELSE "PATH"
    BY <2>1, ShpathOptionsRight
  <2>3. "-f" \notin Sh!Elements(fewer)
        /\ ("-pMANPATH" \in Sh!Elements(fewer) <=> "-pMANPATH" \in Sh!Elements(args))
    BY <2>1
  <2>4. env[o.path] = path /\ ~o.first
    BY <2>2, <2>3 DEF path
  <2> HIDE DEF o, good, all
  <2>5. all = IF path = << >> THEN [lines |-> << >>, ends |-> "crash"]
              ELSE IF path = <<Sh!NoName>> THEN [lines |-> << >>, ends |-> "failure"]
              ELSE [lines |-> IF o.first /\ found # << >> THEN <<found[1]>> ELSE found,
                    ends  |-> "success"]
    BY <2>4 DEF Sh!Main, good, o, all
  <2> QED
    BY <2>4, <2>5
<1>4. places = {k \in DOMAIN path : path[k] \in good}
  BY DEF Sh!Components, Sh!Elements
<1>5. places \subseteq 1..N
  <2>1. places \subseteq DOMAIN path
    OBVIOUS
  <2> HIDE DEF places
  <2> QED
    BY <1>1, <2>1
<1> HIDE DEF found, good, places, result, all, script, first
<1>6. /\ found \in Seq({path[k] : k \in DOMAIN path})
      /\ Len(found) = Cardinality(places \cap (1..N))
      /\ \A k \in places \cap (1..N) : found[Cardinality(places \cap (1..k))] = path[k]
  <2>1. KeptIs(found, path, good, N)
    BY <1>1, KeptRight DEF N, found
  <2> QED
    BY <1>4, <2>1 DEF KeptIs
<1>7. Len(found) = Cardinality(places) /\ Len(found) \in Nat /\ (Len(found) = 0 <=> found = << >>)
  <2>1. places \cap (1..N) = places
    BY <1>5
  <2>2. Len(found) \in Nat /\ (Len(found) = 0 <=> found = << >>)
    BY <1>6
  <2> QED
    BY <1>6, <2>1, <2>2
<1>8. \A k \in places : C(k) \in Nat /\ found[C(k)] = path[k]
  <2>1. ASSUME NEW k \in places PROVE C(k) \in Nat /\ found[C(k)] = path[k]
    <3>1. {j \in places : j <= k} = places \cap (1..k) /\ k \in places \cap (1..N)
      <4>1. \A j \in places : j \in 1..N
        BY <1>5
      <4>2. \A j \in places : j <= k <=> j \in 1..k
        BY <1>1, <4>1
      <4> QED
        BY <4>1, <4>2
    <3>2. C(k) = Cardinality(places \cap (1..k))
      BY <3>1
    <3>3. IsFiniteSet(1..k)
      BY <1>5, FS_Interval
    <3>4. C(k) \in Nat
      <4>1. IsFiniteSet(places \cap (1..k))
        BY <3>3, FS_Intersection
      <4> HIDE DEF C
      <4> QED
        BY <3>2, <4>1, FS_CardinalityType
    <3> HIDE DEF C
    <3> QED
      BY <1>6, <3>1, <3>2, <3>4
  <2> QED
    BY <2>1
<1> HIDE DEF C
<1>9. places = {} <=> found = << >>
  <2>1. IsFiniteSet(places)
    <3>1. IsFiniteSet(1..N)
      BY <1>1, FS_Interval
    <3> QED
      BY <1>5, <3>1, FS_Subset
  <2>2. Cardinality(places) = 0 <=> places = {}
    BY <2>1, FS_EmptySet
  <2> QED
    BY <1>7, <2>2
<1>10. path = <<Sh!NoName>> => found = << >>
  <2>1. path = <<Sh!NoName>> => places = {}
    <3> SUFFICES ASSUME path = <<Sh!NoName>>, NEW k \in places PROVE FALSE
      OBVIOUS
    <3>1. k \in DOMAIN path /\ path[k] # Sh!NoName
      BY DEF places
    <3>2. Len(<<Sh!NoName>>) = 1 /\ <<Sh!NoName>>[1] = Sh!NoName
      OBVIOUS
    <3>3. N = 1 /\ path[1] = Sh!NoName
      BY <3>2 DEF N
    <3>4. k = 1
      BY <1>1, <3>1, <3>3
    <3> QED
      BY <3>1, <3>3, <3>4
  <2> QED
    BY <1>9, <2>1
<1>11. path # << >> => result.lines = IF first /\ found # << >> THEN <<found[1]>> ELSE found
  BY <1>2, <1>10
<1>12. path # << >> => all.lines = found
  BY <1>3, <1>10
<1>13. Sh!NoName \notin Sh!Elements(path) /\ named =>
         /\ Sh!Elements(script) \subseteq Sh!Elements(found)
         /\ (\A k \in places : at[path[k]] = "file") => script = found
  <2> DEFINE files == {dir \in Sh!Elements(path) : named /\ at[dir] = "file"}
  <2> SUFFICES ASSUME Sh!NoName \notin Sh!Elements(path), named
               PROVE  /\ Sh!Elements(script) \subseteq Sh!Elements(found)
                      /\ (\A k \in places : at[path[k]] = "file") => script = found
    OBVIOUS
  <2>1. Sh!FieldsOf(path) = path
    <3>1. path # << >> => N \in 1..N
      <4>1. N = 0 => path = << >>
        <5> DEFINE E == {path[k] : k \in DOMAIN path}
        <5>1. path \in Seq(E)
          BY <1>1 DEF IsSeq
        <5> HIDE DEF E
        <5> QED
          BY <5>1 DEF N
      <4>2. N \in Nat
        BY <1>1
      <4>3. N # 0 => N \in 1..N
        BY <4>2
      <4> QED
        BY <4>1, <4>3
    <3>2. ~(path # << >> /\ path[N] = Sh!NoName)
      BY <1>1, <3>1 DEF Sh!Elements
    <3> QED
      BY <3>2 DEF Sh!FieldsOf, N
  <2>2. script = Sh!Kept(path, files)
    BY <2>1 DEF Sh!Script, script
  <2>3. files \subseteq good
    BY DEF Sh!Components, Sh!Stat, good
  <2>4. Sh!Elements(script) = Sh!Elements(path) \cap files
        /\ Sh!Elements(found) = Sh!Elements(path) \cap good
    BY <1>1, <2>2, KeptElements DEF found
  <2>5. ASSUME \A k \in places : at[path[k]] = "file" PROVE script = found
    <3>1. good \subseteq files
      <4> SUFFICES ASSUME NEW dir \in good PROVE dir \in files
        OBVIOUS
      <4>1. dir \in Sh!Elements(path)
        BY DEF good, Sh!Components
      <4>2. PICK k \in DOMAIN path : dir = path[k]
        BY <4>1 DEF Sh!Elements
      <4>3. at[dir] = "file"
        BY <1>4, <2>5, <4>2
      <4> QED
        BY <4>1, <4>3
    <3>2. good = files
      BY <2>3, <3>1
    <3> HIDE DEF files
    <3> QED
      BY <2>2, <3>2 DEF found
  <2> HIDE DEF files
  <2> QED
    BY <2>3, <2>4, <2>5
<1>14. Sh!ShpathReports(args, env, named, at) <=>
         (path # << >> =>
            /\ result.ends = "failure" <=> path = <<Sh!NoName>>
            /\ first => Len(result.lines) = (IF places = {} THEN 0 ELSE 1)
            /\ ~first => Len(result.lines) = Cardinality(places)
            /\ \A k \in places : C(k) = 1 \/ ~first => result.lines[C(k)] = path[k]
            /\ Sh!NoName \notin Sh!Elements(path) /\ named =>
                 /\ Sh!Elements(script) \subseteq Sh!Elements(all.lines)
                 /\ (\A k \in places : at[path[k]] = "file") /\ ~first => script = result.lines)
  BY ShpathCardinality DEF Sh!ShpathReports, path, first, result, all, places, script, C
<1>15. ASSUME path # << >>
       PROVE  /\ first => Len(result.lines) = (IF places = {} THEN 0 ELSE 1)
              /\ ~first => Len(result.lines) = Cardinality(places)
  <2>1. CASE first
    <3>1. CASE found = << >>
      <4>1. result.lines = << >> /\ places = {}
        BY <1>11, <1>15, <1>9, <3>1
      <4> QED
        BY <2>1, <4>1
    <3>2. CASE found # << >>
      <4>1. result.lines = <<found[1]>> /\ places # {}
        BY <1>11, <1>15, <1>9, <2>1, <3>2
      <4> QED
        BY <2>1, <4>1
    <3> QED
      BY <3>1, <3>2
  <2>2. CASE ~first
    BY <1>7, <1>11, <1>15, <2>2
  <2> QED
    BY <2>1, <2>2
<1>16. ASSUME path # << >>, NEW k \in places, C(k) = 1 \/ ~first PROVE result.lines[C(k)] = path[k]
  <2>1. CASE first
    <3>1. found # << >> /\ C(k) = 1
      BY <1>16, <1>9, <2>1
    <3>2. result.lines = <<found[1]>>
      BY <1>11, <1>16, <2>1, <3>1
    <3> QED
      BY <1>8, <3>1, <3>2
  <2>2. CASE ~first
    BY <1>8, <1>11, <1>16, <2>2
  <2> QED
    BY <2>1, <2>2
<1>17. path # << >> /\ ~first => result.lines = found
  BY <1>11
<1> QED
  BY <1>2, <1>12, <1>13, <1>14, <1>15, <1>16, <1>17

----------------------------------------------------------------------------
(* pcapurlstats.cc                                                         *)

\* The difference of two numbers, in the range of the type or below it.
LEMMA UrlMinus ==
  ASSUME UrlNumbers, NEW w, NEW a \in Nat, NEW b \in Nat, a < UrlWord, b < UrlWord
  PROVE  /\ b <= a => Url(w)!Minus(a, b) = a - b
         /\ a < b => Url(w)!Minus(a, b) = UrlWord + a - b
<1>1. UrlWord \in Nat /\ UrlWord > 0
  BY DEF UrlNumbers
<1>2. ASSUME b <= a PROVE (a - b) % UrlWord = a - b
  <2> DEFINE d == a - b
  <2>1. d \in Nat /\ d < UrlWord
    BY <1>1, <1>2
  <2>2. d % UrlWord = d
    <3> HIDE DEF d
    <3> QED
      BY <1>1, <2>1
  <2> QED
    BY <2>2
<1>3. ASSUME a < b PROVE (a - b) % UrlWord = UrlWord + a - b
  <2> DEFINE r == UrlWord + a - b
  <2>1. r \in 0..(UrlWord - 1) /\ a - b = (-1) * UrlWord + r
    BY <1>1, <1>3
  <2>2. a - b \in Int
    OBVIOUS
  <2> DEFINE d == a - b
  <2>3. d % UrlWord = r
    <3> DEFINE W == UrlWord
               q == d \div W
               m == d % W
    <3>1. W \in Nat /\ W > 0 /\ d \in Int /\ r \in 0..(W - 1) /\ d = r - W
      BY <1>1, <2>1, <2>2
    <3> HIDE DEF W, d, r
    <3>2. q \in Int /\ m \in 0..(W - 1) /\ d = W * q + m
      BY <3>1
    <3> HIDE DEF q, m
    <3>3. q < 0
      <4>1. q >= 0 => W * q >= 0
        BY <3>1, <3>2
      <4>2. W * q \in Int
        BY <3>1, <3>2
      <4> QED
        BY <3>1, <3>2, <4>1, <4>2
    <3>4. q > -2
      <4>1. q <= -2 => W * q <= W * (-2)
        BY <3>1, <3>2
      <4>2. W * q \in Int
        BY <3>1, <3>2
      <4> QED
        BY <3>1, <3>2, <4>1, <4>2
    <3>5. q = -1 /\ m = r
      BY <3>1, <3>2, <3>3, <3>4
    <3> QED
      BY <3>5 DEF m, W
  <2> QED
    BY <2>3
<1> QED
  BY <1>2, <1>3 DEF Url!Minus

\* The smallest number of a set, or -1 for none.
LEMMA FirstOfIs ==
  ASSUME NEW w, NEW S \in SUBSET Nat
  PROVE  \/ S = {} /\ Url(w)!FirstOf(S) = -1
         \/ Url(w)!FirstOf(S) \in S /\ \A j \in S : Url(w)!FirstOf(S) <= j
<1>1. CASE S = {}
  BY <1>1 DEF Url!FirstOf
<1>2. CASE S # {}
  <2>1. \E i \in S : \A j \in S : i <= j
    BY <1>2, Smallest
  <2> QED
    BY <1>2, <2>1 DEF Url!FirstOf
<1> QED
  BY <1>1, <1>2

LEMMA FirstOfEquals ==
  ASSUME NEW w, NEW S \in SUBSET Nat, NEW m \in S, \A j \in S : m <= j
  PROVE  Url(w)!FirstOf(S) = m
<1>1. Url(w)!FirstOf(S) \in S /\ \A j \in S : Url(w)!FirstOf(S) <= j
  BY FirstOfIs
<1>2. Url(w)!FirstOf(S) \in Nat /\ m \in Nat
  BY <1>1
<1> QED
  BY <1>1, <1>2

\* What is cut off inside the TCP header, or is not IP.
UrlShort(p) == ~p.isIp \/ p.cap < Ether + p.ipLen + Tcp

PacketIs(w, p) ==
         LET h == Url(w)!Headers(p) IN
         /\ h = Ether + p.ipLen + p.tcpLen /\ h \in Nat
         /\ p.isIp \in BOOLEAN /\ p.ipLen \in Nat /\ p.tcpLen \in Nat
         /\ Len(p.text) \in Nat /\ DOMAIN p.text = 1..Len(p.text) /\ Len(p.behind) \in Nat
         /\ p.cap \in Nat /\ p.cap <= h + Len(p.text)
         /\ Base + BufLen + h + Len(p.text) + Len(p.behind) < UrlWord

LEMMA PacketNumbers ==
  ASSUME UrlNumbers, NEW w, NEW p, IsPacket(p)
  PROVE  PacketIs(w, p)
<1>1. Ether \in Nat /\ Base \in Nat /\ BufLen \in Nat
  BY DEF UrlNumbers
<1>2. Len(p.text) \in Nat /\ DOMAIN p.text = 1..Len(p.text) /\ Len(p.behind) \in Nat
  <2>1. IsSeq(p.text) /\ IsSeq(p.behind)
    BY DEF IsPacket
  <2> DEFINE text == p.text
             behind == p.behind
  <2> HIDE DEF text, behind
  <2>2. IsSeq(text) /\ IsSeq(behind)
    BY <2>1 DEF text, behind
  <2>3. Len(text) \in Nat /\ DOMAIN text = 1..Len(text) /\ Len(behind) \in Nat
    BY <2>2 DEF IsSeq
  <2> QED
    BY <2>3 DEF text, behind
<1> DEFINE text == Len(p.text)
           behind == Len(p.behind)
<1>3. /\ p.isIp \in BOOLEAN /\ p.ipLen \in Nat /\ p.tcpLen \in Nat
      /\ p.cap \in 0..(Ether + p.ipLen + p.tcpLen + text)
      /\ Base + BufLen + Ether + p.ipLen + p.tcpLen + text + behind < UrlWord
  BY DEF IsPacket
<1>4. text \in Nat /\ behind \in Nat
  BY <1>2
<1> HIDE DEF text, behind
<1>5. /\ p.cap \in Nat /\ p.cap <= Ether + p.ipLen + p.tcpLen + text
      /\ Ether + p.ipLen + p.tcpLen \in Nat
      /\ Base + BufLen + (Ether + p.ipLen + p.tcpLen) + text + behind < UrlWord
  BY <1>1, <1>3, <1>4
<1>6. Url(w)!Headers(p) = Ether + p.ipLen + p.tcpLen
  BY DEF Url!Headers
<1> QED
  BY <1>2, <1>3, <1>5, <1>6 DEF text, behind, PacketIs

LEMMA GetHdrLenIs ==
  ASSUME UrlNumbers, NEW w, NEW p, IsPacket(p), Url(w)!Accepted(p)
  PROVE  /\ Url(w)!Headers(p) \in Nat
         /\ Url(w)!GetHdrLen(p) = IF UrlShort(p) THEN -1 ELSE Url(w)!Headers(p)
<1> DEFINE cap == p.cap
           ip == p.ipLen
           h == Ether + ip + p.tcpLen
<1>1. /\ Ether \in Nat /\ Ip \in Nat /\ Tcp \in Nat /\ Flags \in Nat /\ Ip <= Tcp
      /\ Base \in Nat /\ BufLen \in Nat /\ UrlWord \in Nat
  BY DEF UrlNumbers
<1>2. /\ p.isIp \in BOOLEAN /\ ip \in Nat /\ p.tcpLen \in Nat /\ Len(p.text) \in Nat
      /\ Len(p.behind) \in Nat /\ cap \in Nat /\ cap <= h + Len(p.text) /\ h \in Nat
      /\ h + Len(p.text) < UrlWord /\ Ether < UrlWord /\ cap < UrlWord
      /\ Url(w)!Headers(p) = h
  <2> DEFINE head == Url(w)!Headers(p)
             t == Len(p.text)
             b == Len(p.behind)
             tcp == p.tcpLen
  <2>1. PacketIs(w, p)
    BY PacketNumbers
  <2>2. /\ p.isIp \in BOOLEAN /\ ip \in Nat /\ tcp \in Nat /\ t \in Nat
        /\ b \in Nat /\ cap \in Nat /\ cap <= head + t /\ head \in Nat
        /\ head = Ether + ip + tcp /\ Base + BufLen + head + t + b < UrlWord
    BY <2>1 DEF PacketIs
  <2> HIDE DEF head, t, b, tcp, ip, cap
  <2>3. /\ head + t < UrlWord /\ Ether < UrlWord /\ cap < UrlWord
    BY <1>1, <2>2
  <2> QED
    BY <2>2, <2>3 DEF head, t, b, tcp
<1>3. ip < UrlWord
  <2> DEFINE tcp == p.tcpLen
             t == Len(p.text)
  <2>1. tcp \in Nat /\ t \in Nat /\ h = Ether + ip + tcp /\ h + t < UrlWord
    BY <1>2
  <2> HIDE DEF tcp, t, h, ip
  <2> QED
    BY <1>1, <1>2, <2>1
<1>4. Url(w)!Headers(p) = h
  BY DEF Url!Headers
<1>5. CASE ~p.isIp
  BY <1>2, <1>4, <1>5 DEF Url!GetHdrLen, UrlShort
<1>6. CASE p.isIp
  <2>1. cap >= Ether + ip + Flags
    BY <1>6 DEF Url!Accepted
  <2> HIDE DEF cap, ip, h
  <2>2. Url(w)!Minus(cap, Ether) = cap - Ether
    BY <1>1, <1>2, <1>3, <2>1, UrlMinus
  <2> DEFINE rest == cap - Ether
  <2>3. rest \in Nat /\ rest < UrlWord /\ ip <= rest
    BY <1>1, <1>2, <1>3, <2>1
  <2>4. Url(w)!Minus(rest, ip) = rest - ip
    <3> HIDE DEF rest
    <3> QED
      BY <1>2, <1>3, <2>3, UrlMinus
  <2>5. Url(w)!GetHdrLen(p) = IF cap < Ether \/ rest < Ip THEN -1
                              ELSE IF rest - ip < Tcp THEN -1 ELSE h
    BY <1>4, <1>6, <2>2, <2>4 DEF Url!GetHdrLen, cap, ip
  <2>6. UrlShort(p) <=> cap < Ether + ip + Tcp
    BY <1>6 DEF UrlShort, cap, ip
  <2> QED
    BY <1>1, <1>2, <1>4, <2>1, <2>5, <2>6
<1> QED
  BY <1>2, <1>5, <1>6

----------------------------------------------------------------------------

\* A packet with all of its headers, and what was captured of its text.
CapturedFrom(w, p, h, t) ==
  /\ h \in Nat /\ p.cap \in Nat /\ p.cap - h = Len(t)
  /\ Len(t) \in Nat /\ DOMAIN t = 1..Len(t)
  /\ Base \in Nat /\ Base > 0 /\ BufLen \in Nat /\ UrlWord \in Nat
  /\ Len(p.text) \in Nat /\ Len(p.behind) \in Nat /\ Len(t) <= Len(p.text)
  /\ Base + BufLen + h + Len(p.text) + Len(p.behind) < UrlWord
  /\ \A i \in h..(h + Len(t) - 1) : Url(w)!Byte(p, i) = t[i - h + 1]

LEMMA CapturedIs ==
  ASSUME UrlNumbers, NEW w, NEW p, IsPacket(p)
  PROVE  /\ p.cap <= Url(w)!Headers(p) => Url(w)!Captured(p) = << >>
         /\ p.cap >= Url(w)!Headers(p) => CapturedFrom(w, p, Url(w)!Headers(p), Url(w)!Captured(p))
<1> DEFINE h == Url(w)!Headers(p)
           t == Url(w)!Captured(p)
           cap == p.cap
           text == p.text
           bl == Len(p.behind)
<1>1. /\ h \in Nat /\ Len(text) \in Nat /\ DOMAIN text = 1..Len(text) /\ bl \in Nat
      /\ cap \in Nat /\ cap <= h + Len(text)
      /\ Base + BufLen + h + Len(text) + bl < UrlWord
  <2>1. PacketIs(w, p)
    BY PacketNumbers
  <2> QED
    BY <2>1 DEF PacketIs
<1>2. Base \in Nat /\ Base > 0 /\ BufLen \in Nat /\ UrlWord \in Nat
  BY DEF UrlNumbers
<1>3. t = IF cap <= h THEN << >> ELSE SubSeq(text, 1, cap - h)
  BY DEF Url!Captured
<1>4. ASSUME cap >= h PROVE CapturedFrom(w, p, h, t)
  <2>1. Len(t) = cap - h /\ DOMAIN t = 1..Len(t) /\ \A i \in 1..(cap - h) : t[i] = text[i]
    <3>1. CASE cap <= h
      <4>1. t = << >> /\ cap - h = 0
        BY <1>1, <1>3, <1>4, <3>1
      <4> HIDE DEF t, cap, h
      <4> QED
        BY <4>1
    <3>2. CASE cap > h
      <4> DEFINE S == {text[i] : i \in DOMAIN text}
                 n == cap - h
      <4>1. t = SubSeq(text, 1, n)
        BY <1>1, <1>3, <3>2
      <4>2. text \in Seq(S)
        BY DEF IsPacket, IsSeq
      <4>3. n \in 1..Len(text)
        BY <1>1, <3>2
      <4> HIDE DEF S, n, t, text
      <4>4. t \in Seq(S) /\ Len(t) = n /\ \A i \in 1..n : t[i] = text[i]
        BY <4>1, <4>2, <4>3, SubSeqProperties
      <4>5. DOMAIN t = 1..Len(t)
        BY <4>4
      <4> QED
        BY <4>4, <4>5 DEF n
    <3> QED
      BY <1>1, <3>1, <3>2
  <2>2. \A i \in h..(h + Len(t) - 1) : Url(w)!Byte(p, i) = t[i - h + 1]
    <3>1. ASSUME NEW i \in h..(h + Len(t) - 1) PROVE Url(w)!Byte(p, i) = t[i - h + 1]
      <4> HIDE DEF h, t
      <4>1. i < cap /\ ~(i < h) /\ i - h + 1 \in 1..(cap - h)
        BY <1>1, <2>1
      <4> DEFINE k == i - h + 1
      <4>2. Url(w)!Byte(p, i) = text[k]
        BY <4>1 DEF Url!Byte, h
      <4>3. t[k] = text[k]
        <5> HIDE DEF k, text
        <5>1. k \in 1..(cap - h)
          BY <4>1 DEF k
        <5> QED
          BY <2>1, <5>1
      <4> QED
        BY <4>2, <4>3
    <3> QED
      BY <3>1
  <2>3. Len(t) \in Nat /\ Len(t) <= Len(text)
    <3> HIDE DEF t, h, text
    <3> QED
      BY <1>1, <1>4, <2>1
  <2> HIDE DEF t
  <2> QED
    BY <1>1, <1>2, <2>1, <2>2, <2>3 DEF CapturedFrom
<1> QED
  BY <1>1, <1>3, <1>4

\* The search for "Host:" finds the one in what was captured, or nothing.
LEMMA FindHostIs ==
  ASSUME NEW w \in BOOLEAN, NEW p, NEW h, NEW t, CapturedFrom(w, p, h, t),
         UrlNumbers, p.cap < UrlWord, h = Url(w)!Headers(p)
  PROVE  /\ Url(w)!HostAt(t) # -1 => Url(w)!HostAt(t) \in 1..Len(t)
              /\ t[Url(w)!HostAt(t)] \in {"Host:", "0"}
         /\ Url(w)!HostAt(t) # -1 /\ t[Url(w)!HostAt(t)] = "Host:" =>
              /\ Url(w)!FindHost(p, h) = h + Url(w)!HostAt(t) - 1
         /\ Url(w)!HostAt(t) # -1 /\ t[Url(w)!HostAt(t)] # "Host:" => Url(w)!FindHost(p, h) = -1
         /\ Url(w)!HostAt(t) = -1 /\ w => Url(w)!FindHost(p, h) = -1
<1> DEFINE A == {k \in DOMAIN t : t[k] \in {"Host:", "0"}}
           a == Url(w)!HostAt(t)
           M == h + Len(p.text) + Len(p.behind)
           lim == IF w THEN Url(w)!Minus(p.cap, h) ELSE UrlWord
           range == {i \in h..M : i - h < lim}
           S == {i \in range : Url(w)!Byte(p, i) = "Host:"
             /\ \A j \in h..i : Url(w)!Byte(p, j) # "0"}
           f == Url(w)!FindHost(p, h)
           n == Len(t)
<1>0. \A i \in h..(h + n - 1) : Url(w)!Byte(p, i) = t[i - h + 1]
  BY DEF CapturedFrom
<1>d. DOMAIN t = 1..n /\ p.cap \in Nat /\ p.cap - h = n
  BY DEF CapturedFrom
<1>1. /\ h \in Nat /\ n \in Nat
      /\ M \in Nat /\ h + n <= M /\ M < UrlWord /\ UrlWord \in Nat
  <2> DEFINE x == Len(p.text)
             y == Len(p.behind)
  <2>1. /\ h \in Nat /\ n \in Nat
        /\ x \in Nat /\ y \in Nat /\ n <= x /\ UrlWord \in Nat /\ Base \in Nat /\ BufLen \in Nat
        /\ Base + BufLen + h + x + y < UrlWord
    BY DEF CapturedFrom
  <2>2. M = h + x + y
    OBVIOUS
  <2> HIDE DEF x, y, M, n
  <2>3. M \in Nat /\ h + n <= M
    BY <2>1, <2>2
  <2>4. M < UrlWord
    BY <2>1, <2>2
  <2> QED
    BY <2>1, <2>3, <2>4
<1>2. a = Url(w)!FirstOf(A)
  BY DEF Url!HostAt
<1>3. f = Url(w)!FirstOf(S)
  BY DEF Url!FindHost, Url!Within
<1>4. lim \in Nat /\ lim >= n /\ (w => lim = n)
  <2> DEFINE cap == p.cap
  <2>1. cap \in Nat /\ cap < UrlWord /\ h < UrlWord /\ h <= cap
    <3> HIDE DEF M, n
    <3> QED
      BY <1>1, <1>d
  <2>2. Url(w)!Minus(cap, h) = cap - h
    <3> HIDE DEF cap
    <3> QED
      BY <1>1, <2>1, UrlMinus
  <2> HIDE DEF n, M
  <2> QED
    BY <1>1, <1>d, <2>1, <2>2
<1>5. A \in SUBSET Nat /\ S \in SUBSET Nat
  BY <1>1, <1>d
<1>6. \/ a = -1 /\ A = {}
      \/ a \in A /\ \A j \in A : a <= j
  BY <1>2, <1>5, FirstOfIs
<1> HIDE DEF a, f, lim, n, M
<1>7. \A i \in S : i \in h..M /\ i - h < lim /\ Url(w)!Byte(p, i) = "Host:"
                   /\ \A j \in h..i : Url(w)!Byte(p, j) # "0"
  OBVIOUS
<1>8. ASSUME NEW i \in S, i - h < n PROVE a # -1 /\ a <= i - h + 1 /\ t[a] # "0"
  <2>1. i \in h..(h + n - 1) /\ i - h + 1 \in 1..n
    BY <1>1, <1>7, <1>8
  <2>2. t[i - h + 1] = "Host:"
    BY <1>0, <1>7, <2>1
  <2>3. i - h + 1 \in A
    BY <1>1, <1>d, <2>1, <2>2
  <2>4. a \in A /\ a <= i - h + 1
    BY <1>6, <2>3
  <2>5. a \in 1..n /\ a \in Nat
    BY <1>1, <1>d, <2>4
  <2>6. h + a - 1 \in h..i /\ h + a - 1 \in h..(h + n - 1) /\ (h + a - 1) - h + 1 = a
    <3> HIDE DEF S, A
    <3>1. i \in Int
      BY <2>1
    <3> QED
      BY <1>1, <2>1, <2>4, <2>5, <3>1
  <2>7. t[a] # "0"
    BY <1>0, <1>7, <2>6
  <2> QED
    BY <2>4, <2>5, <2>7
<1>9. a # -1 => a \in 1..n /\ t[a] \in {"Host:", "0"} /\ \A j \in A : a <= j
  BY <1>1, <1>d, <1>6
<1>10. ASSUME a # -1, t[a] = "Host:" PROVE f = h + a - 1
  <2> DEFINE m == h + a - 1
  <2>1. m \in h..(h + n - 1) /\ m - h + 1 = a /\ m \in h..M /\ m - h < lim
    <3>1. a \in 1..n
      BY <1>9, <1>10
    <3> HIDE DEF S, A
    <3> QED
      BY <1>1, <1>4, <3>1
  <2>2. Url(w)!Byte(p, m) = "Host:"
    <3> HIDE DEF m
    <3> QED
      BY <1>0, <1>10, <2>1
  <2>3. ASSUME NEW j \in h..m PROVE Url(w)!Byte(p, j) # "0"
    <3> DEFINE k == j - h + 1
    <3>1. j \in h..(h + n - 1) /\ k \in 1..n /\ k <= a
      <4>1. a \in 1..n
        BY <1>9, <1>10
      <4> HIDE DEF S, A
      <4> QED
        BY <1>1, <4>1
    <3>2. Url(w)!Byte(p, j) = t[k]
      BY <1>0, <3>1
    <3>3. t[k] # "0"
      <4> HIDE DEF k
      <4>1. t[k] = "0" => k \in A
        BY <1>1, <1>d, <3>1
      <4>2. k # a => ~(a <= k)
        BY <1>9, <1>10, <3>1
      <4>3. t[a] # "0"
        BY <1>10
      <4> QED
        BY <1>9, <1>10, <4>1, <4>2, <4>3
    <3> QED
      BY <3>2, <3>3
  <2>4. m \in S
    <3> HIDE DEF m
    <3> QED
      BY <2>1, <2>2, <2>3
  <2>5. ASSUME NEW i \in S PROVE m <= i
    <3>1. CASE i - h < n
      <4>1. a <= i - h + 1 /\ a \in 1..n
        BY <1>8, <1>9, <1>10, <3>1
      <4>2. i \in Nat
        BY <1>5
      <4> HIDE DEF S, A
      <4> QED
        BY <1>1, <4>1, <4>2
    <3>2. CASE ~(i - h < n)
      <4>1. i \in Nat
        BY <1>5
      <4> QED
        BY <1>1, <1>9, <1>10, <3>2, <4>1
    <3> QED
      BY <3>1, <3>2
  <2> HIDE DEF S, m
  <2>6. Url(w)!FirstOf(S) = m
    BY <1>5, <2>4, <2>5, FirstOfEquals
  <2> QED
    BY <1>3, <2>6 DEF m
<1>11. ASSUME a # -1, t[a] # "Host:" PROVE f = -1
  <2>1. t[a] = "0"
    BY <1>9, <1>11
  <2>2. ASSUME NEW i \in S PROVE FALSE
    <3>1. CASE i - h < n
      BY <1>8, <2>1, <3>1
    <3>2. CASE ~(i - h < n)
      <4>1. i \in Nat
        BY <1>5
      <4>2. h + a - 1 \in h..i /\ h + a - 1 \in h..(h + n - 1) /\ (h + a - 1) - h + 1 = a
        <5>1. a \in 1..n
          BY <1>9, <1>11
        <5> HIDE DEF S, A
        <5> QED
          BY <1>1, <3>2, <4>1, <5>1
      <4> QED
        BY <1>0, <1>7, <2>1, <4>2
    <3> QED
      BY <3>1, <3>2
  <2>3. S = {}
    BY <2>2
  <2> HIDE DEF S
  <2> QED
    BY <1>3, <1>5, <2>3, FirstOfIs
<1>12. ASSUME a = -1, w PROVE f = -1
  <2>1. \A i \in S : FALSE
    BY <1>4, <1>7, <1>8, <1>12
  <2>2. S = {}
    BY <2>1
  <2> HIDE DEF S
  <2> QED
    BY <1>3, <1>5, <2>2, FirstOfIs
<1> HIDE DEF S
<1> QED
  BY <1>9, <1>10, <1>11, <1>12 DEF a, f, n

----------------------------------------------------------------------------

\* The newline behind it is found if it was captured.
LEMMA FindEndIs ==
  ASSUME NEW w \in BOOLEAN, NEW p, NEW h, NEW t, CapturedFrom(w, p, h, t),
         UrlNumbers, p.cap < UrlWord, h = Url(w)!Headers(p),
         NEW a \in 1..Len(t), t[a] # "\n"
  PROVE  LET e == Url(w)!EndAt(t, a) IN
         /\ Url(w)!FindEnd(p, h + a - 1) = IF e = -1 THEN 0 ELSE Base + h + e - 1
         /\ e # -1 => e \in (a + 1)..Len(t)
<1> DEFINE n == Len(t)
           A == {k \in DOMAIN t : k >= a /\ t[k] = "\n"}
           e == Url(w)!EndAt(t, a)
           host == h + a - 1
           M == h + Len(p.text) + Len(p.behind)
           lim == Url(w)!Minus(p.cap, host)
           range == {i \in host..M : i - host < lim}
           S == {i \in range : Url(w)!Byte(p, i) = "\n"}
           f == Url(w)!FirstOf(S)
<1>0. \A i \in h..(h + n - 1) : Url(w)!Byte(p, i) = t[i - h + 1]
  BY DEF CapturedFrom
<1>d. DOMAIN t = 1..n /\ p.cap \in Nat /\ p.cap - h = n
  BY DEF CapturedFrom
<1>1. h \in Nat /\ n \in Nat /\ M \in Nat /\ h + n <= M /\ Base \in Nat /\ UrlWord \in Nat
  <2> DEFINE x == Len(p.text)
             y == Len(p.behind)
  <2>1. /\ h \in Nat /\ n \in Nat /\ Base \in Nat /\ UrlWord \in Nat
        /\ x \in Nat /\ y \in Nat /\ n <= x
    BY DEF CapturedFrom
  <2>2. M = h + x + y
    OBVIOUS
  <2> HIDE DEF x, y, M, n
  <2> QED
    BY <2>1, <2>2
<1>2. a \in 1..n
  OBVIOUS
<1>3. e = Url(w)!FirstOf(A)
  BY DEF Url!EndAt
<1>4. Url(w)!FindEnd(p, host) = IF f = -1 THEN 0 ELSE Base + f
  BY DEF Url!FindEnd, Url!Within
<1>5. lim = n - a + 1 /\ host \in Nat
  <2> DEFINE cap == p.cap
  <2> HIDE DEF n, M
  <2>1. cap \in Nat /\ cap < UrlWord /\ host \in Nat /\ host < UrlWord /\ host <= cap
        /\ cap - host = n - a + 1
    BY <1>1, <1>2, <1>d
  <2>2. Url(w)!Minus(cap, host) = cap - host
    <3> HIDE DEF cap, host
    <3> QED
      BY <1>1, <2>1, UrlMinus
  <2> HIDE DEF cap
  <2> QED
    BY <2>1, <2>2 DEF cap
<1>6. A \in SUBSET Nat /\ S \in SUBSET Nat
  <2> HIDE DEF n, M, host
  <2> QED
    BY <1>1, <1>d, <1>5
<1>7. \/ A = {} /\ e = -1
      \/ e \in A /\ \A j \in A : e <= j
  BY <1>3, <1>6, FirstOfIs
<1>h. host = h + a - 1 /\ host \in Nat /\ a \in Nat
  BY <1>1, <1>2
<1> HIDE DEF n, M, e, f, lim
<1>8. e # -1 => e \in 1..n /\ e >= a /\ t[e] = "\n" /\ e # a
  BY <1>d, <1>7
<1>9. ASSUME NEW i \in S PROVE i - h + 1 \in A /\ i \in Nat
  <2>1. i \in host..M /\ i - host < lim /\ Url(w)!Byte(p, i) = "\n"
    OBVIOUS
  <2> HIDE DEF S
  <2>2. i \in h..(h + n - 1) /\ i - h + 1 \in 1..n /\ i - h + 1 >= a /\ i \in Nat
    <3>1. i \in host..M /\ i - host < n - a + 1
      BY <1>5, <2>1
    <3> HIDE DEF host, A
    <3>2. i \in Nat /\ i >= h + a - 1 /\ i - (h + a - 1) < n - a + 1
      BY <1>1, <1>2, <1>h, <3>1
    <3> HIDE DEF S
    <3>5. i >= h
      BY <1>1, <1>2, <3>2
    <3>6. i < h + n
      BY <1>1, <1>2, <3>2
    <3>3. i >= h /\ i <= h + n - 1 /\ i - h + 1 <= n
      BY <1>1, <3>2, <3>5, <3>6
    <3>4. i - h + 1 >= a /\ i - h + 1 >= 1 /\ i - h + 1 \in Int
      BY <1>1, <1>2, <3>2
    <3> QED
      BY <1>1, <3>2, <3>3, <3>4
  <2>3. t[i - h + 1] = "\n"
    BY <1>0, <2>1, <2>2
  <2> DEFINE k == i - h + 1
  <2>4. k \in 1..n /\ k >= a /\ t[k] = "\n"
    BY <2>2, <2>3
  <2> HIDE DEF k
  <2>5. k \in A
    BY <1>d, <2>4
  <2> QED
    BY <2>2, <2>5 DEF k
<1>10. CASE e = -1
  <2>1. A = {}
    BY <1>7, <1>10, <1>6
  <2>2. S = {}
    <3> HIDE DEF A, S
    <3> QED
      BY <1>9, <2>1
  <2>3. f = -1
    <3> HIDE DEF S
    <3> QED
      BY <1>6, <2>2, FirstOfIs DEF f
  <2> QED
    BY <1>4, <1>10, <2>3 DEF e, host
<1>11. CASE e # -1
  <2> DEFINE m == h + e - 1
  <2>1. m \in h..(h + n - 1) /\ m - h + 1 = e /\ m \in host..M /\ m - host < lim
    <3>1. e \in 1..n /\ e >= a
      BY <1>8, <1>11
    <3>2. host = h + a - 1 /\ lim = n - a + 1
      BY <1>5
    <3> HIDE DEF A, S, host
    <3>3. m \in h..(h + n - 1) /\ m - h + 1 = e /\ m \in Nat /\ m <= M
      BY <1>1, <1>2, <3>1
    <3>4. m >= host /\ m - host < lim
      BY <1>1, <1>2, <3>1, <3>2
    <3> QED
      BY <1>1, <1>h, <3>3, <3>4
  <2>2. Url(w)!Byte(p, m) = "\n"
    <3>1. t[e] = "\n"
      BY <1>8, <1>11
    <3> HIDE DEF m
    <3> QED
      BY <1>0, <2>1, <3>1
  <2>3. m \in S
    <3> HIDE DEF m
    <3> QED
      BY <2>1, <2>2
  <2>4. \A i \in S : m <= i
    <3>1. ASSUME NEW i \in S PROVE m <= i
      <4>1. e <= i - h + 1 /\ i \in Nat
        BY <1>7, <1>9, <1>11
      <4>2. e \in 1..n
        BY <1>8, <1>11
      <4> HIDE DEF A, S
      <4> QED
        BY <1>1, <4>1, <4>2
    <3> QED
      BY <3>1
  <2>5. f = m
    <3> HIDE DEF S, m
    <3> QED
      BY <1>6, <2>3, <2>4, FirstOfEquals DEF f
  <2>6. f # -1 /\ Base + f = Base + h + e - 1 /\ e \in (a + 1)..n
    <3>1. e \in 1..n /\ e >= a /\ e # a
      BY <1>8, <1>11
    <3> HIDE DEF A, S
    <3> QED
      BY <1>1, <1>2, <2>5, <3>1
  <2> QED
    BY <1>4, <1>11, <2>6 DEF e, host, n
<1> QED
  BY <1>10, <1>11

\* The line for a "Host:" that was captured.
LEMMA FoundLineIs ==
  ASSUME NEW w \in BOOLEAN, NEW p, NEW h, NEW t, CapturedFrom(w, p, h, t),
         UrlNumbers, p.cap < UrlWord, h = Url(w)!Headers(p), IsPacket(p),
         t = Url(w)!Captured(p), IsSeq(t),
         Url(w)!HostAt(t) # -1, t[Url(w)!HostAt(t)] = "Host:"
  PROVE  Url(w)!LineRight(p, Url(w)!FindHostname(p, h))
<1> DEFINE a == Url(w)!HostAt(t)
           e == Url(w)!EndAt(t, a)
           n == Len(t)
           host == Url(w)!FindHost(p, h)
           end == Url(w)!FindEnd(p, host)
           hostlen == Url(w)!Minus(end, Base + host)
           null == IF hostlen > BufLen THEN BufLen ELSE hostlen - 1
           line == Url(w)!FindHostname(p, h)
<1>0. \A i \in h..(h + n - 1) : Url(w)!Byte(p, i) = t[i - h + 1]
  BY DEF CapturedFrom
<1>1. /\ h \in Nat /\ n \in Nat /\ Base \in Nat /\ Base > 0 /\ BufLen \in Nat /\ UrlWord \in Nat
      /\ Base + BufLen + h + n < UrlWord
  <2> DEFINE x == Len(p.text)
             y == Len(p.behind)
  <2>1. /\ h \in Nat /\ n \in Nat /\ Base \in Nat /\ Base > 0 /\ BufLen \in Nat /\ UrlWord \in Nat
        /\ x \in Nat /\ y \in Nat /\ n <= x /\ Base + BufLen + h + x + y < UrlWord
    BY DEF CapturedFrom
  <2> HIDE DEF x, y, n
  <2> QED
    BY <2>1
<1>2. a \in 1..n /\ t[a] = "Host:" /\ host = h + a - 1
  BY FindHostIs
<1>3. t[a] # "\n"
  BY <1>2
<1>4. /\ Url(w)!FindEnd(p, h + a - 1) = IF e = -1 THEN 0 ELSE Base + h + e - 1
      /\ e # -1 => e \in (a + 1)..n
  <2> HIDE DEF a
  <2> QED
    BY <1>2, <1>3, FindEndIs
<1>5. end = IF e = -1 THEN 0 ELSE Base + h + e - 1
  <2> HIDE DEF host, a
  <2> QED
    BY <1>2, <1>4
<1>6. line = [found |-> TRUE, host |-> host, end |-> end - Base, null |-> null,
              name |-> Url(w)!Copied(p, host, null)]
  <2>1. host # -1
    <3> HIDE DEF host, a, n
    <3> QED
      BY <1>1, <1>2
  <2> QED
    BY <2>1 DEF Url!FindHostname
<1> DEFINE named == (\A k \in a..e : t[k] # "0") => line.name = SubSeq(t, a, e - 2)
           right == /\ line.found
                    /\ line.host = h + a - 1
                    /\ IF e # -1 /\ e - a <= BufLen
                       THEN /\ line.end = h + e - 1
                            /\ line.null < BufLen
                            /\ named
                       ELSE line.null = BufLen
<1>l. right => Url(w)!LineRight(p, line)
  <2> HIDE DEF line
  <2> QED
    BY DEF Url!LineRight
<1> HIDE DEF a, e, n, host, end, hostlen, line, named
<1>7. /\ line.found = TRUE /\ line.host = host /\ line.end = end - Base /\ line.null = null
      /\ line.name = Url(w)!Copied(p, host, null)
  <2> HIDE DEF null
  <2> QED
    BY <1>6
<1>8. CASE e = -1
  <2>1. end = 0 /\ Base + host \in Nat /\ Base + host < UrlWord /\ 0 < Base + host
        /\ UrlWord + 0 - (Base + host) > BufLen /\ host = h + a - 1
    <3>1. end = 0 /\ a \in 1..n /\ host = h + a - 1
      BY <1>2, <1>5, <1>8
    <3> HIDE DEF null
    <3>2. Base + host \in Nat /\ Base + host < UrlWord /\ 0 < Base + host
      BY <1>1, <3>1
    <3>3. UrlWord + 0 - (Base + host) > BufLen
      BY <1>1, <3>1
    <3> QED
      BY <3>1, <3>2, <3>3
  <2> DEFINE b == Base + host
  <2>2. Url(w)!Minus(0, b) = UrlWord + 0 - b
    <3> HIDE DEF b
    <3> QED
      BY <1>1, <2>1, UrlMinus DEF b
  <2>3. hostlen > BufLen
    BY <2>1, <2>2 DEF hostlen
  <2>4. line.found /\ line.host = h + a - 1 /\ line.null = BufLen
    BY <1>7, <2>1, <2>3
  <2>5. right
    BY <1>8, <2>4
  <2> HIDE DEF right
  <2> QED
    BY <1>l, <2>5 DEF line
<1>9. CASE e # -1
  <2>1. e \in (a + 1)..n /\ end = Base + h + e - 1
    BY <1>4, <1>5, <1>9
  <2> DEFINE b == Base + host
  <2>2. b \in Nat /\ b < UrlWord /\ end \in Nat /\ end < UrlWord /\ b <= end /\ end - b = e - a
        /\ e - a \in Nat /\ e - a > 0
    <3>1. a \in 1..n /\ host = h + a - 1
      BY <1>2
    <3> HIDE DEF null
    <3>2. b \in Nat /\ b < UrlWord
      BY <1>1, <3>1
    <3>3. end \in Nat /\ end < UrlWord
      BY <1>1, <2>1, <3>1
    <3>4. b <= end /\ end - b = e - a /\ e - a \in Nat /\ e - a > 0
      BY <1>1, <2>1, <3>1
    <3> QED
      BY <3>2, <3>3, <3>4
  <2>3. hostlen = e - a
    <3>1. Url(w)!Minus(end, b) = end - b
      <4> HIDE DEF b
      <4> QED
        BY <1>1, <2>2, UrlMinus
    <3> QED
      BY <2>2, <3>1 DEF hostlen
  <2>4. CASE ~(e - a <= BufLen)
    <3>1. null = BufLen
      BY <1>1, <2>2, <2>3, <2>4
    <3>2. line.found /\ line.host = h + a - 1 /\ line.null = BufLen
      BY <1>2, <1>7, <3>1
    <3>3. right
      BY <2>4, <3>2
    <3> HIDE DEF right
    <3> QED
      BY <1>l, <3>3 DEF line
  <2>5. CASE e - a <= BufLen
    <3>1. null = e - a - 1 /\ null < BufLen
      <4>1. null = hostlen - 1
        BY <1>1, <2>2, <2>3, <2>5
      <4> DEFINE d == e - a
      <4>2. d \in Nat /\ d <= BufLen /\ null = d - 1
        BY <2>2, <2>3, <2>5, <4>1
      <4> HIDE DEF d, null
      <4>3. null < BufLen
        BY <1>1, <4>2
      <4> QED
        BY <4>2, <4>3 DEF d
    <3>2. line.end = h + e - 1
      BY <1>1, <1>7, <2>1
    <3>3. ASSUME \A k \in a..e : t[k] # "0" PROVE line.name = SubSeq(t, a, e - 2)
      <4> DEFINE m == e - a - 1
                 N == {i \in 0..(m - 1) : Url(w)!Byte(p, host + i) = "0"}
                 first == Url(w)!FirstOf(N)
      <4>1. m \in Nat /\ a \in 1..n /\ e \in 1..n /\ e = a + m + 1 /\ host = h + a - 1
        BY <1>1, <1>2, <2>1, <2>2
      <4>2. \A i \in 0..m : host + i \in h..(h + n - 1) /\ (host + i) - h + 1 = a + i
              /\ a + i \in a..e
        <5>1. ASSUME NEW i \in 0..m
              PROVE  host + i \in h..(h + n - 1) /\ (host + i) - h + 1 = a + i /\ a + i \in a..e
          <6> HIDE DEF m, N, first, null
          <6>1. (host + i) - h + 1 = a + i /\ a + i \in a..e
            BY <1>1, <4>1
          <6>2. host + i \in h..(h + n - 1)
            BY <1>1, <4>1
          <6> QED
            BY <6>1, <6>2
        <5> QED
          BY <5>1
      <4>3. \A i \in 0..m : Url(w)!Byte(p, host + i) = t[a + i] /\ t[a + i] # "0"
        <5>1. ASSUME NEW i \in 0..m PROVE Url(w)!Byte(p, host + i) = t[a + i] /\ t[a + i] # "0"
          <6>1. Url(w)!Byte(p, host + i) = t[(host + i) - h + 1]
            BY <1>0, <4>2
          <6>2. (host + i) - h + 1 = a + i /\ a + i \in a..e
            BY <4>2
          <6> QED
            BY <3>3, <6>1, <6>2
        <5> QED
          BY <5>1
      <4>4. N = {}
        <5>1. \A i \in 0..(m - 1) : i \in 0..m
          <6> HIDE DEF m
          <6> QED
            BY <4>1
        <5> QED
          BY <4>3, <5>1
      <4>5. first = -1
        <5> HIDE DEF N
        <5> QED
          BY <4>4, FirstOfIs
      <4>6. Url(w)!Copied(p, host, m) = [i \in 1..m |-> Url(w)!Byte(p, host + i - 1)]
        <5>1. Url(w)!Copied(p, host, m) =
                [i \in 1..(IF first = -1 THEN m ELSE first) |-> Url(w)!Byte(p, host + i - 1)]
          BY DEF Url!Copied
        <5> HIDE DEF first, m
        <5> QED
          BY <4>5, <5>1
      <4>7. SubSeq(t, a, e - 2) = [i \in 1..m |-> t[a + i - 1]]
        <5> DEFINE s == SubSeq(t, a, e - 2)
                   E == {t[k] : k \in DOMAIN t}
                   d == e - 2
        <5>1. t \in Seq(E)
          BY DEF IsSeq
        <5>2. a \in 1..(Len(t) + 1) /\ d \in (a - 1)..Len(t) /\ d - a + 1 = m
          <6> HIDE DEF m, E, s
          <6> QED
            BY <1>1, <4>1 DEF n
        <5>3. \A i \in a..d : t[i] \in E
          <6>1. DOMAIN t = 1..n
            BY DEF CapturedFrom, n
          <6>2. \A i \in a..d : i \in 1..n
            <7> HIDE DEF m, E, s
            <7> QED
              BY <1>1, <4>1
          <6> QED
            BY <6>1, <6>2
        <5>5. a \in Int /\ d \in Int
          <6> HIDE DEF m, E, s
          <6> QED
            BY <4>1
        <5> HIDE DEF E, d, s
        <5>6. Len(SubSeq(t, a, d)) = IF a <= d THEN d - a + 1 ELSE 0
          BY <5>3, <5>5, SubSeqProperties
        <5>7. SubSeq(t, a, d) \in Seq(E)
                /\ \A i \in 1..(d - a + 1) : SubSeq(t, a, d)[i] = t[a + i - 1]
          BY <5>3, <5>5, SubSeqProperties
        <5>8. (IF a <= d THEN d - a + 1 ELSE 0) = m
          <6> HIDE DEF m
          <6> QED
            BY <1>1, <4>1, <5>2
        <5> HIDE DEF m
        <5>4. s = SubSeq(t, a, d)
          BY DEF s, d
        <5> QED
          BY <4>1, <5>2, <5>4, <5>6, <5>7, <5>8
      <4>8. \A i \in 1..m : Url(w)!Byte(p, host + i - 1) = t[a + i - 1]
        <5>1. ASSUME NEW i \in 1..m PROVE Url(w)!Byte(p, host + i - 1) = t[a + i - 1]
          <6> DEFINE k == i - 1
          <6>1. k \in 0..m /\ host + i - 1 = host + k /\ a + i - 1 = a + k
            <7> HIDE DEF m
            <7> QED
              BY <1>1, <4>1
          <6> HIDE DEF k, m
          <6> QED
            BY <4>3, <6>1
        <5> QED
          BY <5>1
      <4>9. line.name = Url(w)!Copied(p, host, m)
        BY <1>7, <3>1
      <4> HIDE DEF m
      <4> QED
        BY <4>6, <4>7, <4>8, <4>9
    <3>5. named
      BY <3>3 DEF named
    <3>4. line.found /\ line.host = h + a - 1 /\ line.null < BufLen
      BY <1>2, <1>7, <3>1
    <3>6. right
      BY <1>9, <2>5, <3>2, <3>4, <3>5
    <3> HIDE DEF right
    <3> QED
      BY <1>l, <3>6 DEF line
  <2> QED
    BY <2>4, <2>5
<1> QED
  BY <1>8, <1>9 DEF line

----------------------------------------------------------------------------

\* The values for the numbers of a set up to n, each at its rank.
Ranked(seq, values, A, n) ==
  /\ Len(seq) = Cardinality(A \cap (1..n))
  /\ \A k \in A \cap (1..n) : seq[Cardinality(A \cap (1..k))] = values[k]

LEMMA RankedSkip ==
  ASSUME NEW A, NEW n \in Nat, n > 0, n \notin A, NEW values, NEW seq, Ranked(seq, values, A, n - 1)
  PROVE  Ranked(seq, values, A, n)
<1>1. A \cap (1..n) = A \cap (1..(n - 1))
  <2>1. \A k \in 1..n : k = n \/ k \in 1..(n - 1)
    OBVIOUS
  <2>2. \A k \in 1..(n - 1) : k \in 1..n
    OBVIOUS
  <2> QED
    BY <2>1, <2>2
<1> QED
  BY <1>1 DEF Ranked

LEMMA RankedAppend ==
  ASSUME NEW A, NEW n \in Nat, n > 0, n \in A, NEW V, NEW seq \in Seq(V), NEW v \in V,
         NEW values, v = values[n], Ranked(seq, values, A, n - 1)
  PROVE  Ranked(Append(seq, v), values, A, n)
<1> DEFINE C(k) == Cardinality(A \cap (1..k))
           next == Append(seq, v)
<1>1. Len(seq) = C(n - 1) /\ \A k \in A \cap (1..(n - 1)) : seq[C(k)] = values[k]
  BY DEF Ranked
<1>2. C(n - 1) \in Nat /\ C(n) = C(n - 1) + 1
  BY OneMore
<1> HIDE DEF C
<1>3. /\ Len(next) = C(n - 1) + 1 /\ next[C(n - 1) + 1] = v
      /\ \A k \in 1..C(n - 1) : next[k] = seq[k]
  BY <1>1, AppendProperties
<1>4. \A k \in A \cap (1..n) : k = n \/ k \in A \cap (1..(n - 1))
  <2>1. \A k \in 1..n : k = n \/ k \in 1..(n - 1)
    OBVIOUS
  <2> QED
    BY <2>1
<1>5. ASSUME NEW k \in A \cap (1..(n - 1)) PROVE C(k) \in 1..C(n - 1)
  <2>1. k \in Nat /\ k > 0 /\ k \in A
    OBVIOUS
  <2>2. C(k - 1) \in Nat /\ C(k) = C(k - 1) + 1
    BY <2>1, OneMore DEF C
  <2>3. C(k) <= C(n - 1)
    <3>1. A \cap (1..k) \subseteq A \cap (1..(n - 1))
      <4>1. \A j \in 1..k : j \in 1..(n - 1)
        OBVIOUS
      <4> QED
        BY <4>1
    <3>2. IsFiniteSet(A \cap (1..(n - 1)))
      <4>1. IsFiniteSet(1..(n - 1))
        BY FS_Interval
      <4> QED
        BY <4>1, FS_Intersection
    <3> QED
      BY <3>1, <3>2, FS_Subset DEF C
  <2> QED
    BY <1>2, <2>2, <2>3
<1> HIDE DEF next
<1>6. \A k \in A \cap (1..n) : next[C(k)] = values[k]
  BY <1>1, <1>2, <1>3, <1>4, <1>5
<1>7. Len(next) = C(n)
  BY <1>2, <1>3
<1> QED
  BY <1>6, <1>7 DEF Ranked, C, next

\* The packets that the filter lets through, and those before the first short
\* one; the line for each; and how things stand after n of them.
UrlChosen(w, packets) == {k \in DOMAIN packets : Url(w)!Accepted(packets[k])}

UrlGood(w, packets) ==
  {k \in UrlChosen(w, packets) :
     \A j \in UrlChosen(w, packets) : j <= k => ~UrlShort(packets[j])}

UrlLine(w, packets) ==
  [k \in DOMAIN packets |-> Url(w)!FindHostname(packets[k], Url(w)!Headers(packets[k]))]

UrlStates(w, packets) ==
  [lines : Seq({UrlLine(w, packets)[k] : k \in DOMAIN packets}), status : {"success", "abort"}]

UrlIs(s, w, packets, n) ==
  LET chosen == UrlChosen(w, packets)
      good   == UrlGood(w, packets) IN
  /\ s.status = IF good \cap (1..n) = chosen \cap (1..n) THEN "success" ELSE "abort"
  /\ Ranked(s.lines, UrlLine(w, packets), good, n)

ArePackets(packets) == UrlNumbers /\ IsSeq(packets)
  /\ \A k \in DOMAIN packets : IsPacket(packets[k])

Handled(next, s, w, packets, n) ==
  LET stays == s.status = "abort" \/ n \notin UrlChosen(w, packets) IN
  /\ stays => next = s
  /\ ~stays /\ UrlShort(packets[n]) => next = [s EXCEPT !.status = "abort"]
  /\ ~stays /\ ~UrlShort(packets[n]) =>
       next = [s EXCEPT !.lines = Append(s.lines, UrlLine(w, packets)[n])]

LEMMA HandleIs ==
  ASSUME NEW w, NEW packets, ArePackets(packets), NEW n \in 1..Len(packets),
         NEW s \in UrlStates(w, packets)
  PROVE  Handled(Url(w)!Handle(s, packets[n]), s, w, packets, n)
<1> DEFINE p == packets[n]
<1>1. n \in DOMAIN packets /\ IsPacket(p) /\ UrlNumbers
  BY DEF ArePackets, IsSeq
<1>2. n \in UrlChosen(w, packets) <=> Url(w)!Accepted(p)
  BY <1>1 DEF UrlChosen
<1>3. UrlLine(w, packets)[n] = Url(w)!FindHostname(p, Url(w)!Headers(p))
  BY <1>1 DEF UrlLine
<1> HIDE DEF p
<1>4. Url(w)!Accepted(p) =>
        /\ UrlShort(p) => Url(w)!GetHdrLen(p) = -1
        /\ ~UrlShort(p) => Url(w)!GetHdrLen(p) = Url(w)!Headers(p) /\ Url(w)!GetHdrLen(p) # -1
  <2>1. Url(w)!Accepted(p) =>
        /\ Url(w)!Headers(p) \in Nat
        /\ Url(w)!GetHdrLen(p) = IF UrlShort(p) THEN -1 ELSE Url(w)!Headers(p)
    BY <1>1, GetHdrLenIs
  <2> QED
    BY <2>1
<1>5. CASE s.status = "abort" \/ ~Url(w)!Accepted(p)
  <2>1. Url(w)!Handle(s, p) = s
    BY <1>5 DEF Url!Handle
  <2> QED
    BY <1>2, <1>5, <2>1 DEF p, Handled
<1>6. CASE ~(s.status = "abort" \/ ~Url(w)!Accepted(p)) /\ UrlShort(p)
  <2>1. Url(w)!Handle(s, p) = [s EXCEPT !.status = "abort"]
    BY <1>4, <1>6 DEF Url!Handle
  <2> QED
    BY <1>2, <1>6, <2>1 DEF p, Handled
<1>7. CASE ~(s.status = "abort" \/ ~Url(w)!Accepted(p)) /\ ~UrlShort(p)
  <2>1. Url(w)!Handle(s, p) = [s EXCEPT !.lines = Append(s.lines, UrlLine(w, packets)[n])]
    BY <1>3, <1>4, <1>7 DEF Url!Handle
  <2> QED
    BY <1>2, <1>7, <2>1 DEF p, Handled
<1> QED
  BY <1>5, <1>6, <1>7

LEMMA HandleTypes ==
  ASSUME NEW w, NEW packets, ArePackets(packets), NEW n \in 1..Len(packets),
         NEW s \in UrlStates(w, packets)
  PROVE  Url(w)!Handle(s, packets[n]) \in UrlStates(w, packets)
<1> DEFINE V == {UrlLine(w, packets)[k] : k \in DOMAIN packets}
           v == UrlLine(w, packets)[n]
           next == Url(w)!Handle(s, packets[n])
<1>1. v \in V
  <2>1. n \in DOMAIN packets
    BY DEF ArePackets, IsSeq
  <2> QED
    BY <2>1
<1>2. UrlStates(w, packets) = [lines : Seq(V), status : {"success", "abort"}]
  BY DEF UrlStates
<1>3. \/ next = s \/ next = [s EXCEPT !.status = "abort"]
      \/ next = [s EXCEPT !.lines = Append(s.lines, v)]
  <2>1. Handled(next, s, w, packets, n)
    BY HandleIs
  <2> HIDE DEF next, V
  <2> QED
    BY <2>1 DEF Handled
<1> HIDE DEF V, v, next
<1>4. s \in [lines : Seq(V), status : {"success", "abort"}]
  BY <1>2
<1>5. Append(s.lines, v) \in Seq(V)
  BY <1>1, <1>4, AppendProperties
<1>6. next \in [lines : Seq(V), status : {"success", "abort"}]
  BY <1>3, <1>4, <1>5
<1> QED
  BY <1>2, <1>6 DEF next

LEMMA UrlRound ==
  ASSUME NEW w, NEW packets, ArePackets(packets), NEW n \in 1..Len(packets),
         NEW s \in UrlStates(w, packets), UrlIs(s, w, packets, n - 1)
  PROVE  UrlIs(Url(w)!Handle(s, packets[n]), w, packets, n)
<1> DEFINE chosen == UrlChosen(w, packets)
           good == UrlGood(w, packets)
           V == {UrlLine(w, packets)[k] : k \in DOMAIN packets}
           line == UrlLine(w, packets)
           next == Url(w)!Handle(s, packets[n])
           short == {k \in DOMAIN packets : UrlShort(packets[k])}
<1>1. /\ n \in Nat /\ n > 0 /\ n \in DOMAIN packets /\ n \in short <=> UrlShort(packets[n])
      /\ chosen \subseteq DOMAIN packets /\ DOMAIN packets \subseteq Nat
  BY DEF ArePackets, IsSeq, UrlChosen
<1>2. \A k : k \in good <=> k \in chosen /\ \A j \in chosen : j <= k => j \notin short
  BY DEF UrlGood, UrlChosen
<1>3. /\ s.status = IF good \cap (1..(n - 1)) = chosen \cap (1..(n - 1)) THEN "success" ELSE "abort"
      /\ Ranked(s.lines, line, good, n - 1)
  BY DEF UrlIs
<1>4. s.lines \in Seq(V) /\ DOMAIN s = {"lines", "status"} /\ line[n] \in V
  BY <1>1 DEF UrlStates
<1>5. LET stays == s.status = "abort" \/ n \notin chosen IN
      /\ stays => next = s
      /\ ~stays /\ n \in short => next = [s EXCEPT !.status = "abort"]
      /\ ~stays /\ n \notin short => next = [s EXCEPT !.lines = Append(s.lines, line[n])]
  <2>1. Handled(next, s, w, packets, n)
    BY HandleIs
  <2> HIDE DEF next, V, good
  <2> QED
    BY <1>1, <2>1 DEF Handled
<1> HIDE DEF chosen, good, short, V, line, next
<1>6. \A k : k \in 1..n <=> k = n \/ k \in 1..(n - 1)
  BY <1>1
<1>7. CASE s.status = "abort"
  <2>1. PICK j \in chosen \cap (1..(n - 1)) : j \notin good
    <3>1. \A k \in good : k \in chosen
      BY <1>2
    <3>2. good \cap (1..(n - 1)) # chosen \cap (1..(n - 1))
      BY <1>3, <1>7
    <3> QED
      BY <3>1, <3>2
  <2>2. PICK i \in chosen : i <= j /\ i \in short
    BY <1>2, <2>1
  <2>3. i <= n /\ n \notin good
    <3>1. i \in Nat /\ j \in Nat /\ j <= n
      BY <1>1, <2>1
    <3>2. i <= n
      BY <1>1, <2>2, <3>1
    <3> QED
      BY <1>2, <2>2, <3>2
  <2>4. good \cap (1..n) # chosen \cap (1..n)
    BY <1>6, <2>1
  <2>5. Ranked(s.lines, line, good, n)
    BY <1>1, <1>3, <2>3, RankedSkip
  <2>6. next = s
    BY <1>5, <1>7
  <2> QED
    BY <1>7, <2>4, <2>5, <2>6 DEF UrlIs, chosen, good, line, next
<1>8. CASE s.status # "abort"
  <2>1. s.status = "success" /\ good \cap (1..(n - 1)) = chosen \cap (1..(n - 1))
    BY <1>3, <1>8
  <2>2. CASE n \notin chosen
    <3>1. n \notin good /\ next = s
      BY <1>2, <1>5, <2>2
    <3>2. good \cap (1..n) = chosen \cap (1..n)
      BY <1>6, <2>1, <2>2, <3>1
    <3>3. Ranked(s.lines, line, good, n)
      BY <1>1, <1>3, <3>1, RankedSkip
    <3> QED
      BY <2>1, <3>1, <3>2, <3>3 DEF UrlIs, chosen, good, line, next
  <2>3. CASE n \in chosen /\ n \in short
    <3>1. n \notin good /\ next = [s EXCEPT !.status = "abort"]
      <4>1. n <= n
        BY <1>1
      <4> QED
        BY <1>2, <1>5, <1>8, <2>3, <4>1
    <3>2. good \cap (1..n) # chosen \cap (1..n)
      BY <1>6, <2>3, <3>1
    <3>3. Ranked(s.lines, line, good, n)
      BY <1>1, <1>3, <3>1, RankedSkip
    <3>4. next.status = "abort" /\ next.lines = s.lines
      BY <1>4, <3>1
    <3> QED
      BY <3>2, <3>3, <3>4 DEF UrlIs, chosen, good, line, next
  <2>4. CASE n \in chosen /\ n \notin short
    <3>1. next = [s EXCEPT !.lines = Append(s.lines, line[n])]
      BY <1>5, <1>8, <2>4
    <3>2. n \in good
      <4>1. ASSUME NEW j \in chosen, j <= n PROVE j \notin short
        <5>1. CASE j = n
          BY <2>4, <5>1
        <5>2. CASE j # n
          <6>1. j \in 1..(n - 1) /\ j <= j
            <7>1. j \in DOMAIN packets
              BY <1>1
            <7>2. j \in 1..Len(packets)
              BY <7>1 DEF ArePackets, IsSeq
            <7> QED
              BY <1>1, <4>1, <5>2, <7>2
          <6>2. j \in good
            BY <2>1, <6>1
          <6> QED
            BY <1>2, <6>1, <6>2
        <5> QED
          BY <5>1, <5>2
      <4> QED
        BY <1>2, <2>4, <4>1
    <3>3. good \cap (1..n) = chosen \cap (1..n)
      BY <1>6, <2>1, <2>4, <3>2
    <3>4. Ranked(Append(s.lines, line[n]), line, good, n)
      BY <1>1, <1>3, <1>4, <3>2, RankedAppend
    <3>5. next.status = "success" /\ next.lines = Append(s.lines, line[n])
      BY <1>4, <2>1, <3>1
    <3> QED
      BY <3>3, <3>4, <3>5 DEF UrlIs, chosen, good, line, next
  <2> QED
    BY <2>2, <2>3, <2>4
<1> QED
  BY <1>7, <1>8

\* How things stand after all of the packets.
LEMMA UrlAfter ==
  ASSUME NEW w, NEW packets, ArePackets(packets)
  PROVE  UrlIs(Url(w)!After(packets)[Len(packets)], w, packets, Len(packets))
<1> DEFINE N == Len(packets)
           States == UrlStates(w, packets)
           first == [lines |-> << >>, status |-> "success"]
           step == [x \in (1..N) \X States |-> Url(w)!Handle(x[2], packets[x[1]])]
           body(s, n) == IF n = 0 THEN first ELSE Url(w)!Handle(s[n - 1], packets[n])
           Is(s) == s = [n \in 0..N |->
                           IF n = 0 THEN [lines |-> << >>, status |-> "success"]
                           ELSE Url(w)!Handle(s[n - 1], packets[n])]
<1>1. N \in Nat
  BY DEF ArePackets, IsSeq
<1>2. first \in States
  BY DEF UrlStates
<1>3. step \in [(1..N) \X States -> States]
  <2>1. \A n \in 1..N : \A s \in States : Url(w)!Handle(s, packets[n]) \in States
    BY HandleTypes
  <2> HIDE DEF States, N
  <2> QED
    BY <2>1
<1> HIDE DEF States, N, first
<1>4. PICK f : IsLoop(f, N, States, first, step)
  <2> HIDE DEF step
  <2> QED
    BY <1>1, <1>2, <1>3, Loop
<1>5. f \in [0..N -> States] /\ f[0] = first
  BY <1>4 DEF IsLoop
<1>6. ASSUME NEW n \in 1..N PROVE f[n] = Url(w)!Handle(f[n - 1], packets[n])
  <2>1. f[n] = step[<<n, f[n - 1]>>]
    <3> HIDE DEF step
    <3> QED
      BY <1>4 DEF IsLoop
  <2>2. n - 1 \in 0..N
    BY <1>1
  <2>3. <<n, f[n - 1]>> \in (1..N) \X States
    BY <1>5, <2>2
  <2> QED
    BY <2>1, <2>3
<1>7. Is(f)
  <2>1. ASSUME NEW n \in 0..N PROVE f[n] = body(f, n)
    <3>1. n = 0 \/ n \in 1..N
      BY <1>1
    <3> QED
      BY <1>5, <1>6, <3>1
  <2>2. f = [n \in 0..N |-> body(f, n)]
    <3> HIDE DEF body
    <3> QED
      BY <1>5, <2>1
  <2> QED
    BY <2>2 DEF first
<1> DEFINE after == CHOOSE s : Is(s)
<1>8. Url(w)!After(packets) = after
  BY DEF Url!After, N
<1>9. Is(after)
  <2> HIDE DEF Is
  <2> QED
    BY <1>7
<1>10. after = [n \in 0..N |-> body(after, n)]
  <2> HIDE DEF after
  <2> QED
    BY <1>9 DEF first
<1> HIDE DEF after
<1>11. after[0] = first /\ \A n \in 1..N : after[n] = Url(w)!Handle(after[n - 1], packets[n])
  <2>1. \A n \in 1..N : n \in 0..N /\ n # 0
    BY <1>1
  <2>2. 0 \in 0..N
    BY <1>1
  <2> HIDE DEF Is
  <2>3. \A n \in 0..N : after[n] = body(after, n)
    <3> HIDE DEF body
    <3> QED
      BY <1>10
  <2> QED
    BY <2>1, <2>2, <2>3
<1> DEFINE P == {n \in 0..N : after[n] \in States /\ UrlIs(after[n], w, packets, n)}
<1>12. 0 \in P
  <2>1. UrlIs(first, w, packets, 0)
    <3>1. \A A : A \cap (1..0) = {}
      OBVIOUS
    <3>2. Cardinality({}) = 0
      BY FS_EmptySet
    <3>3. first.lines = << >> /\ first.status = "success" /\ Len(<< >>) = 0
      BY DEF first
    <3> QED
      BY <3>1, <3>2, <3>3 DEF UrlIs, Ranked
  <2> QED
    BY <1>1, <1>2, <1>11, <2>1
<1>13. ASSUME NEW n \in 1..N, n - 1 \in P PROVE n \in P
  <2>1. after[n - 1] \in States /\ UrlIs(after[n - 1], w, packets, n - 1)
    BY <1>13
  <2>2. after[n] = Url(w)!Handle(after[n - 1], packets[n])
    BY <1>11
  <2>3. after[n] \in States /\ UrlIs(after[n], w, packets, n)
    BY <2>1, <2>2, HandleTypes, UrlRound DEF States, N
  <2>4. n \in 0..N
    BY <1>1
  <2> QED
    BY <2>3, <2>4
<1>14. \A n \in 0..N : n \in P
  <2> HIDE DEF P
  <2> QED
    BY <1>1, <1>12, <1>13, Induction
<1>15. N \in P
  BY <1>1, <1>14
<1> QED
  BY <1>8, <1>15 DEF N

----------------------------------------------------------------------------

LEMMA UrlCardinality == \A w, S : Url(w)!Cardinality(S) = Cardinality(S)
BY DEF Url!Cardinality, Cardinality

\* What the line for a packet should be.
UrlLineRight(w, p, line) ==
  LET t == Url(w)!Captured(p) IN
  IF Url(w)!HostAt(t) # -1 /\ t[Url(w)!HostAt(t)] = "Host:" THEN Url(w)!LineRight(p, line)
  ELSE (Url(w)!HostAt(t) # -1 \/ w) /\ p.cap >= Url(w)!Headers(p) => ~line.found

LEMMA CapturedSeq ==
  ASSUME UrlNumbers, NEW w, NEW p, IsPacket(p)
  PROVE  IsSeq(Url(w)!Captured(p))
<1> DEFINE t == Url(w)!Captured(p)
           h == Url(w)!Headers(p)
           text == p.text
           n == p.cap - h
           E == {text[k] : k \in DOMAIN text}
<1>1. CASE p.cap <= h
  <2>1. t = << >>
    BY <1>1 DEF Url!Captured
  <2> HIDE DEF t
  <2>2. IsSeq(t)
    BY <2>1 DEF IsSeq
  <2> QED
    BY <2>2 DEF t
<1>2. CASE ~(p.cap <= h)
  <2>1. t = SubSeq(text, 1, n)
    BY <1>2 DEF Url!Captured
  <2>2. PacketIs(w, p)
    BY PacketNumbers
  <2>3. n \in 0..Len(text) /\ DOMAIN text = 1..Len(text) /\ Len(text) \in Nat
    <3>1. /\ h \in Nat /\ p.cap \in Nat /\ Len(text) \in Nat /\ DOMAIN text = 1..Len(text)
          /\ p.cap <= h + Len(text)
      BY <2>2 DEF PacketIs
    <3> HIDE DEF h, text
    <3> QED
      BY <1>2, <3>1
  <2> HIDE DEF t, n, text
  <2>4. \A i \in 1..n : text[i] \in E
    BY <2>3
  <2>5. n \in Int
    BY <2>3
  <2> HIDE DEF E
  <2>6. t \in Seq(E)
    BY <2>1, <2>4, <2>5, SubSeqProperties
  <2>7. t \in Seq({t[k] : k \in DOMAIN t})
    <3>1. Len(t) \in Nat /\ t = [k \in 1..Len(t) |-> t[k]] /\ DOMAIN t = 1..Len(t)
      BY <2>6
    <3> DEFINE l == Len(t)
    <3> HIDE DEF l, t
    <3>2. l \in Nat /\ t = [k \in 1..l |-> t[k]] /\ DOMAIN t = 1..l
      BY <3>1 DEF l
    <3> QED
      BY <3>2
  <2> QED
    BY <2>7 DEF IsSeq, t
<1> QED
  BY <1>1, <1>2

LEMMA EachLineRight ==
  ASSUME UrlNumbers, NEW w \in BOOLEAN, NEW p, IsPacket(p)
  PROVE  UrlLineRight(w, p, Url(w)!FindHostname(p, Url(w)!Headers(p)))
<1> DEFINE h == Url(w)!Headers(p)
           t == Url(w)!Captured(p)
           a == Url(w)!HostAt(t)
           f == Url(w)!FindHost(p, h)
           line == Url(w)!FindHostname(p, h)
<1>1. IsSeq(t)
  BY CapturedSeq
<1>2. p.cap <= h => a = -1
  <2>1. p.cap <= h => t = << >>
    BY CapturedIs
  <2>2. \A s : s = << >> => Url(w)!HostAt(s) = -1
    <3>1. {k \in DOMAIN << >> : << >>[k] \in {"Host:", "0"}} = {}
      OBVIOUS
    <3>2. Url(w)!FirstOf({}) = -1
      BY FirstOfIs
    <3> QED
      BY <3>1, <3>2 DEF Url!HostAt
  <2> QED
    BY <2>1, <2>2
<1>3. p.cap \in Nat /\ h \in Nat /\ p.cap < UrlWord
  <2> DEFINE cap == p.cap
             x == Len(p.text)
             y == Len(p.behind)
  <2>1. PacketIs(w, p)
    BY PacketNumbers
  <2>2. /\ cap \in Nat /\ h \in Nat /\ x \in Nat /\ y \in Nat /\ cap <= h + x
        /\ Base + BufLen + h + x + y < UrlWord
    BY <2>1 DEF PacketIs
  <2>3. Base \in Nat /\ BufLen \in Nat /\ UrlWord \in Nat
    BY DEF UrlNumbers
  <2> HIDE DEF h, x, y, cap
  <2>4. cap \in Nat /\ h \in Nat /\ cap < UrlWord
    BY <2>2, <2>3
  <2> QED
    BY <2>4 DEF cap
<1>4. p.cap >= h => CapturedFrom(w, p, h, t)
  BY CapturedIs
<1>5. f = -1 => ~line.found
  <2>1. f = -1 => line = [found |-> FALSE]
    BY DEF Url!FindHostname
  <2> HIDE DEF f, line
  <2>2. f = -1 => line.found = FALSE
    BY <2>1
  <2> QED
    BY <2>2
<1> HIDE DEF h, t, a, f, line
<1>6. CASE a # -1 /\ t[a] = "Host:"
  <2>1. ~(p.cap <= h)
    BY <1>2, <1>6
  <2>2. CapturedFrom(w, p, h, t)
    BY <1>3, <1>4, <2>1
  <2>3. Url(w)!LineRight(p, line)
    BY <1>1, <1>3, <1>6, <2>2, FoundLineIs DEF h, t, a, line
  <2> QED
    BY <1>6, <2>3 DEF UrlLineRight, h, t, a, line
<1>7. CASE ~(a # -1 /\ t[a] = "Host:")
  <2>1. ASSUME a # -1 \/ w, p.cap >= h PROVE f = -1
    <3>1. CapturedFrom(w, p, h, t)
      BY <1>4, <2>1
    <3>2. /\ a # -1 /\ t[a] # "Host:" => f = -1
          /\ a = -1 /\ w => f = -1
      BY <1>3, <3>1, FindHostIs DEF h, a, f
    <3> QED
      BY <1>7, <2>1, <3>2
  <2>2. (a # -1 \/ w) /\ p.cap >= h => ~line.found
    BY <1>5, <2>1
  <2> QED
    BY <1>7, <2>2 DEF UrlLineRight, h, t, a, line
<1> QED
  BY <1>6, <1>7

LEMMA UrlRight ==
  ASSUME NEW w \in BOOLEAN, NEW packets, ArePackets(packets), NEW c
  PROVE  Url(w)!UrlstatsReports(c, packets)
<1> DEFINE usable == Url(w)!Usable(c)
           result == Url(w)!Main(c, packets)
           chosen == {k \in DOMAIN packets : usable /\ Url(w)!Accepted(packets[k])}
           good == {k \in chosen : \A j \in chosen : j <= k => ~UrlShort(packets[j])}
           N == Len(packets)
           after == Url(w)!After(packets)[N]
           right(k) == LET p    == packets[k]
                           line == result.lines[Cardinality({j \in good : j <= k})]
                       IN  UrlLineRight(w, p, line)
<1>1. N \in Nat /\ DOMAIN packets = 1..N /\ \A k \in DOMAIN packets : IsPacket(packets[k])
  BY DEF ArePackets, IsSeq
<1>2. ASSUME Len(result.lines) = Cardinality(good),
             result.status = (IF ~usable THEN "failure" ELSE IF good # chosen THEN "abort" ELSE "success"),
             \A k \in good : right(k)
      PROVE  Url(w)!UrlstatsReports(c, packets)
  <2> DEFINE isRight == \A k \in good : right(k)
  <2>1. Url(w)!UrlstatsReports(c, packets) <=>
          /\ Len(result.lines) = Cardinality(good)
          /\ result.status = (IF ~usable THEN "failure" ELSE IF good # chosen THEN "abort" ELSE "success")
          /\ \A k \in good : right(k)
    BY UrlCardinality DEF Url!UrlstatsReports, UrlShort, UrlLineRight
  <2> QED
    BY <1>2, <2>1
<1>3. CASE ~usable
  <2>1. chosen = {} /\ good = {}
    BY <1>3
  <2>2. result = [lines |-> << >>, status |-> "failure"]
    BY <1>3 DEF Url!Main
  <2> HIDE DEF result, usable
  <2>3. Len(result.lines) = 0 /\ result.status = "failure"
    BY <2>2
  <2>4. Cardinality(good) = 0
    BY <2>1, FS_EmptySet
  <2>5. \A k \in good : right(k)
    BY <2>1
  <2>6. result.status = (IF ~usable THEN "failure" ELSE IF good # chosen THEN "abort" ELSE "success")
    BY <1>3, <2>3
  <2> HIDE DEF good, chosen
  <2> QED
    BY <1>2, <2>3, <2>4, <2>5, <2>6 DEF result, usable, good, chosen
<1>4. CASE usable
  <2> DEFINE line == UrlLine(w, packets)
  <2>1. result = after
    BY <1>4 DEF Url!Main
  <2>2. chosen = UrlChosen(w, packets)
    BY <1>4 DEF UrlChosen
  <2>3. good = UrlGood(w, packets)
    BY <2>2 DEF UrlGood
  <2>4. chosen \subseteq 1..N /\ good \subseteq chosen
    BY <1>1
  <2>5. /\ after.status = IF good \cap (1..N) = chosen \cap (1..N) THEN "success" ELSE "abort"
        /\ Ranked(after.lines, line, good, N)
    BY <2>2, <2>3, UrlAfter DEF UrlIs
  <2> HIDE DEF result, after, usable, chosen, good, N
  <2>6. good \cap (1..N) = good /\ chosen \cap (1..N) = chosen
    BY <2>4
  <2>7. /\ Len(after.lines) = Cardinality(good)
        /\ \A k \in good : after.lines[Cardinality(good \cap (1..k))] = line[k]
    BY <2>5, <2>6 DEF Ranked
  <2>8. ASSUME NEW k \in good PROVE right(k)
    <3>1. k \in 1..N /\ k \in DOMAIN packets
      BY <1>1, <2>4
    <3>2. {j \in good : j <= k} = good \cap (1..k)
      <4>1. \A j \in good : j \in 1..N
        BY <2>4
      <4>2. \A j \in 1..N : j <= k <=> j \in 1..k
        BY <1>1, <3>1
      <4> QED
        BY <4>1, <4>2
    <3>3. UrlLineRight(w, packets[k], line[k])
      <4>1. line[k] = Url(w)!FindHostname(packets[k], Url(w)!Headers(packets[k]))
        BY <3>1 DEF UrlLine
      <4>2. UrlNumbers /\ IsPacket(packets[k])
        BY <1>1, <3>1 DEF ArePackets
      <4> HIDE DEF line
      <4> QED
        BY <4>1, <4>2, EachLineRight
    <3> HIDE DEF line
    <3> QED
      BY <2>1, <2>7, <3>2, <3>3
  <2>9. result.status = (IF ~usable THEN "failure" ELSE IF good # chosen THEN "abort" ELSE "success")
    BY <1>4, <2>1, <2>5, <2>6
  <2>10. Len(result.lines) = Cardinality(good)
    BY <2>1, <2>7
  <2> QED
    BY <1>2, <2>8, <2>9, <2>10 DEF result, usable, good, chosen
<1> QED
  BY <1>3, <1>4

----------------------------------------------------------------------------
(* fhist1d                                                                 *)

LEMMA HistogramCardinality == \A S : H!Cardinality(S) = Cardinality(S)
BY DEF H!Cardinality, Cardinality

\* Multiplying keeps the order, and can be undone.
LEMMA TimesOrder ==
  ASSUME NEW d \in Nat, d > 0, NEW a \in Int, NEW b \in Int
  PROVE  a * d \in Int /\ b * d \in Int /\ (a < b => a * d < b * d) /\ (a <= b => a * d <= b * d)
<1>1. ASSUME NEW c \in Nat PROVE c * d \in Nat /\ (c > 0 => c * d > 0)
  OBVIOUS
<1>2. ASSUME a <= b PROVE b * d = a * d + (b - a) * d /\ b - a \in Nat
  BY <1>2
<1>3. a * d \in Int /\ b * d \in Int
  OBVIOUS
<1>4. ASSUME a <= b PROVE (b - a) * d \in Nat /\ (b - a > 0 => (b - a) * d > 0)
  <2> DEFINE c == b - a
  <2>1. c \in Nat
    BY <1>4
  <2> HIDE DEF c
  <2>2. c * d \in Nat /\ (c > 0 => c * d > 0)
    BY <1>1, <2>1
  <2> QED
    BY <2>2 DEF c
<1>5. ASSUME a < b PROVE a * d < b * d
  <2> DEFINE x == a * d
             y == b * d
             z == (b - a) * d
  <2>1. y = x + z /\ x \in Int /\ z \in Nat /\ z > 0
    BY <1>2, <1>3, <1>4, <1>5
  <2> HIDE DEF x, y, z
  <2>2. x < y
    BY <2>1
  <2> QED
    BY <2>2 DEF x, y
<1>6. ASSUME a <= b PROVE a * d <= b * d
  <2>1. a = b \/ a < b
    BY <1>6
  <2>2. CASE a = b
    BY <1>3, <2>2
  <2>3. CASE a < b
    BY <1>3, <1>5, <2>3
  <2> QED
    BY <2>1, <2>2, <2>3
<1> QED
  BY <1>3, <1>5, <1>6

\* Dividing gives how often a number fits.
LEMMA Division ==
  ASSUME NEW d \in Nat, d > 0, NEW q \in Nat
  PROVE  q \div d \in Nat /\ (q \div d) * d <= q /\ q < (q \div d + 1) * d
<1> DEFINE f == q \div d
           r == q % d
<1>1. f \in Int /\ r \in 0..(d - 1) /\ q = d * f + r
  OBVIOUS
<1> HIDE DEF f, r
<1>2. f * d = d * f /\ (f + 1) * d = d * f + d /\ d * f \in Int
  BY <1>1
<1> DEFINE p == d * f
<1>3. p <= q /\ q < p + d
  <2>1. p \in Int /\ q = p + r
    BY <1>1, <1>2
  <2> HIDE DEF p
  <2> QED
    BY <1>1, <2>1
<1>4. f >= 0
  <2> SUFFICES ASSUME f < 0 PROVE FALSE
    BY <1>1
  <2>1. (f + 1) * d <= 0 * d /\ 0 * d = 0
    BY <1>1, TimesOrder
  <2>2. p + d <= 0
    BY <1>2, <2>1
  <2>3. p \in Int
    BY <1>2
  <2> HIDE DEF p
  <2> QED
    BY <1>3, <2>2, <2>3
<1>5. f \in Nat
  BY <1>1, <1>4
<1> QED
  BY <1>2, <1>3, <1>5 DEF f

\* The sizes of the bins, and how many there are.
LEMMA OptionsAre ==
  ASSUME NEW o, H!IsOptions(o)
  PROVE  /\ o.l \in Int /\ o.u \in Int /\ o.L \in BOOLEAN /\ o.w \in BOOLEAN /\ o.p \in BOOLEAN
         /\ H!BinSize(o).num \in Nat /\ H!BinSize(o).num > 0
         /\ H!BinSize(o).den \in Nat /\ H!BinSize(o).den > 0
         /\ H!NBins(o) \in Nat
<1>1. /\ o.l \in Int /\ o.u \in Int /\ o.b \in Nat /\ o.b > 0 /\ o.d \in Int
      /\ o.L \in BOOLEAN /\ o.w \in BOOLEAN /\ o.p \in BOOLEAN
      /\ o.l < o.u /\ (o.d = -1 \/ o.d > 0)
  BY DEF H!IsOptions
<1>2. CASE o.d = -1
  <2>1. H!BinSize(o) = [num |-> o.u - o.l, den |-> o.b] /\ H!NBins(o) = o.b
    BY <1>2 DEF H!BinSize, H!NBins
  <2>2. H!BinSize(o).num = o.u - o.l /\ H!BinSize(o).den = o.b
    BY <2>1
  <2> QED
    BY <1>1, <2>1, <2>2
<1>3. CASE o.d # -1
  <2> DEFINE range == o.u - o.l
             d == o.d
             rest == IF range % d > 0 THEN 1 ELSE 0
  <2>1. range \in Nat /\ d \in Nat /\ d > 0
    BY <1>1, <1>3
  <2>2. H!BinSize(o) = [num |-> d, den |-> 1] /\ H!NBins(o) = range \div d + rest
    BY <1>3 DEF H!BinSize, H!NBins
  <2>3. H!BinSize(o).num = d /\ H!BinSize(o).den = 1
    BY <2>2
  <2>4. range \div d \in Nat
    <3> HIDE DEF range, d
    <3> QED
      BY <2>1, Division
  <2>5. rest \in Nat
    OBVIOUS
  <2>6. range \div d + rest \in Nat
    <3> DEFINE f == range \div d
    <3> HIDE DEF f, rest
    <3>1. f \in Nat
      BY <2>4 DEF f
    <3>2. f + rest \in Nat
      BY <2>5, <3>1
    <3> QED
      BY <3>2 DEF f
  <2> QED
    BY <1>1, <2>1, <2>2, <2>3, <2>6
<1> QED
  BY <1>2, <1>3

\* A value lies below the edge k exactly if its bin does.
LEMMA IbinIs ==
  ASSUME NEW o, H!IsOptions(o), NEW v \in Int
  PROVE  H!Ibin(o, v) \in Int /\ \A k \in Nat : H!UpTo(o, v, k) <=> H!Ibin(o, v) < k
<1> DEFINE den == H!BinSize(o).den
           D == H!BinSize(o).num
           l == o.l
           q == (v - l) * den
           rbin == [num |-> q, den |-> D]
           trunc == H!Trunc(rbin)
           floor == trunc - (IF q < 0 THEN 1 ELSE 0)
           ibin == floor + (IF o.L \/ q > floor * D THEN 0 ELSE -1)
<1>1. l \in Int /\ den \in Nat /\ den > 0 /\ D \in Nat /\ D > 0 /\ o.L \in BOOLEAN
  BY OptionsAre
<1>2. H!Ibin(o, v) = ibin
  <2>1. rbin.num = q /\ rbin.den = D
    OBVIOUS
  <2> QED
    BY <2>1 DEF H!Ibin
<1>3. trunc = IF q >= 0 THEN q \div D ELSE -((-q) \div D)
  <2>1. rbin.num = q /\ rbin.den = D
    OBVIOUS
  <2> HIDE DEF q, D, rbin
  <2> QED
    BY <2>1 DEF H!Trunc
<1>4. q \in Int /\ q = v * den - l * den /\ v * den \in Int /\ l * den \in Int
  <2> HIDE DEF den, l
  <2> QED
    BY <1>1
<1>5. ASSUME NEW k \in Nat
      PROVE  /\ k * D \in Int
             /\ H!UpTo(o, v, k) <=> IF o.L THEN q < k * D ELSE q <= k * D
  <2> DEFINE x == v * den
             y == l * den
             z == k * D
  <2>1. H!UpTo(o, v, k) <=> IF o.L THEN x < y + z ELSE x <= y + z
    BY DEF H!UpTo
  <2>2. z \in Int
    BY <1>1
  <2>3. x \in Int /\ y \in Int /\ q = x - y
    BY <1>4
  <2> HIDE DEF x, y, z, q
  <2>4. (x < y + z <=> q < z) /\ (x <= y + z <=> q <= z)
    BY <2>2, <2>3
  <2> QED
    BY <2>1, <2>2, <2>4 DEF z
<1> HIDE DEF den, D, l, q, trunc
<1>6. CASE q >= 0
  <2>1. q \in Nat
    BY <1>4, <1>6
  <2> DEFINE f == q \div D
             g == f * D
  <2>2. f \in Nat /\ g <= q /\ q < (f + 1) * D
    BY <1>1, <2>1, Division
  <2>3. floor = f /\ g \in Int /\ (f + 1) * D \in Int
    <3>1. trunc = f /\ (IF q < 0 THEN 1 ELSE 0) = 0
      BY <1>3, <1>4, <1>6
    <3> HIDE DEF f
    <3> QED
      BY <1>1, <2>2, <3>1
  <2> HIDE DEF f
  <2>4. ibin = IF o.L \/ q > g THEN f ELSE f - 1
    <3> HIDE DEF floor
    <3> QED
      BY <2>2, <2>3
  <2>5. ASSUME NEW k \in Nat PROVE H!UpTo(o, v, k) <=> ibin < k
    <3> DEFINE z == k * D
               h == (f + 1) * D
    <3>1. z \in Int /\ g \in Int /\ h \in Int /\ g <= q /\ q < h
      BY <1>5, <2>2, <2>3
    <3>2. (f < k => h <= z) /\ (k <= f => z <= g) /\ (k < f => z < g) /\ (f <= k => g <= z)
      <4>1. f \in Int /\ k \in Int /\ f + 1 \in Int /\ (f < k => f + 1 <= k)
        BY <2>2
      <4>2. f + 1 <= k => h <= z
        BY <1>1, <4>1, TimesOrder
      <4>3. (k <= f => z <= g) /\ (k < f => z < g) /\ (f <= k => g <= z)
        BY <1>1, <4>1, TimesOrder
      <4> QED
        BY <4>1, <4>2, <4>3
    <3>3. H!UpTo(o, v, k) <=> IF o.L THEN q < z ELSE q <= z
      BY <1>5
    <3> HIDE DEF z, h, g, ibin
    <3>4. CASE o.L
      <4>1. ibin = f
        BY <2>4, <3>4
      <4>2. q < z <=> f < k
        BY <1>4, <2>2, <3>1, <3>2
      <4> QED
        BY <3>3, <3>4, <4>1, <4>2
    <3>5. CASE ~o.L /\ q > g
      <4>1. ibin = f
        BY <2>4, <3>5
      <4>2. q <= z <=> f < k
        BY <1>4, <2>2, <3>1, <3>2, <3>5
      <4> QED
        BY <3>3, <3>5, <4>1, <4>2
    <3>6. CASE ~o.L /\ ~(q > g)
      <4>1. ibin = f - 1 /\ q = g
        BY <1>4, <2>4, <3>1, <3>6
      <4>2. q <= z <=> f - 1 < k
        BY <1>4, <2>2, <3>1, <3>2, <4>1
      <4> QED
        BY <3>3, <3>6, <4>1, <4>2
    <3> QED
      BY <3>4, <3>5, <3>6
  <2>6. ibin \in Int
    <3> HIDE DEF ibin
    <3> QED
      BY <2>2, <2>4
  <2> QED
    BY <1>2, <2>5, <2>6
<1>7. CASE ~(q >= 0)
  <2> DEFINE a == (-q) \div D
  <2>1. -q \in Nat
    BY <1>4, <1>7
  <2>2. a \in Nat
    BY <1>1, <2>1, Division
  <2>3. floor = -a - 1
    <3>1. trunc = -a /\ (IF q < 0 THEN 1 ELSE 0) = 1
      BY <1>3, <1>4, <1>7
    <3> HIDE DEF a
    <3> QED
      BY <2>2, <3>1
  <2> HIDE DEF a
  <2>4. ibin = floor \/ ibin = floor - 1
    <3>1. floor \in Int
      <4> HIDE DEF floor
      <4> QED
        BY <2>2, <2>3
    <3> HIDE DEF floor
    <3> QED
      BY <3>1
  <2> HIDE DEF ibin, floor
  <2>5. ibin \in Int /\ ibin < 0
    BY <2>2, <2>3, <2>4
  <2>6. ASSUME NEW k \in Nat PROVE H!UpTo(o, v, k) /\ ibin < k
    <3>1. k * D >= 0
      BY <1>1
    <3> DEFINE z == k * D
    <3>2. z \in Int /\ z >= 0
      BY <1>5, <3>1
    <3>3. H!UpTo(o, v, k) <=> IF o.L THEN q < z ELSE q <= z
      BY <1>5
    <3> HIDE DEF z
    <3>4. q < z /\ q <= z
      BY <1>4, <1>7, <3>2
    <3> QED
      BY <2>5, <3>3, <3>4
  <2> QED
    BY <1>2, <2>5, <2>6
<1> QED
  BY <1>6, <1>7

----------------------------------------------------------------------------

\* The weight of a row if it is one of some rows, and how the weights of these
\* add up.
WeightAt(o, rows, ns, n) == IF n \notin ns THEN 0 ELSE IF o.w THEN rows[n].w ELSE 1

IsWeight(f, o, rows, ns) ==
  /\ f \in [0..Len(rows) -> Int] /\ f[0] = 0
  /\ \A n \in 1..Len(rows) : f[n] = f[n - 1] + WeightAt(o, rows, ns, n)
  /\ H!WeightOf(o, rows, ns) = f[Len(rows)]

LEMMA WeightRounds ==
  ASSUME NEW o, NEW rows \in Seq(Row), NEW ns
  PROVE  \E f : IsWeight(f, o, rows, ns)
<1> DEFINE N == Len(rows)
           step == [x \in (1..N) \X Int |-> x[2] + WeightAt(o, rows, ns, x[1])]
           body(s, n) == IF n = 0 THEN 0 ELSE s[n - 1] + WeightAt(o, rows, ns, n)
           Is(s) == s = [n \in 0..N |->
                           IF n = 0 THEN 0
                           ELSE s[n - 1] + (IF n \notin ns THEN 0 ELSE IF o.w THEN rows[n].w ELSE 1)]
<1>1. N \in Nat
  OBVIOUS
<1>2. \A n \in 1..N : WeightAt(o, rows, ns, n) \in Int
  <2>1. ASSUME NEW n \in 1..N PROVE WeightAt(o, rows, ns, n) \in Int
    <3>1. rows[n] \in Row
      OBVIOUS
    <3>2. rows[n].w \in Int
      BY <3>1 DEF Row
    <3> QED
      BY <3>2 DEF WeightAt
  <2> QED
    BY <2>1
<1> HIDE DEF N
<1>3. step \in [(1..N) \X Int -> Int]
  <2>1. ASSUME NEW x \in (1..N) \X Int PROVE x[2] + WeightAt(o, rows, ns, x[1]) \in Int
    <3> DEFINE a == x[2]
               b == WeightAt(o, rows, ns, x[1])
    <3>1. a \in Int /\ b \in Int
      BY <1>2
    <3> HIDE DEF a, b
    <3>2. a + b \in Int
      BY <3>1
    <3> QED
      BY <3>2 DEF a, b
  <2> QED
    BY <2>1
<1>4. PICK f : IsLoop(f, N, Int, 0, step)
  <2> DEFINE S == Int
  <2>1. step \in [(1..N) \X S -> S] /\ 0 \in S
    BY <1>3
  <2> HIDE DEF step, S
  <2>2. \E f : IsLoop(f, N, S, 0, step)
    BY <1>1, <2>1, Loop
  <2> QED
    BY <2>2 DEF S
<1>5. f \in [0..N -> Int] /\ f[0] = 0
  BY <1>4 DEF IsLoop
<1>6. ASSUME NEW n \in 1..N PROVE f[n] = f[n - 1] + WeightAt(o, rows, ns, n)
  <2>1. f[n] = step[<<n, f[n - 1]>>]
    <3> HIDE DEF step
    <3> QED
      BY <1>4 DEF IsLoop
  <2>2. n - 1 \in 0..N
    BY <1>1
  <2>3. <<n, f[n - 1]>> \in (1..N) \X Int
    BY <1>5, <2>2
  <2> QED
    BY <2>1, <2>3
<1>7. Is(f)
  <2>1. ASSUME NEW n \in 0..N PROVE f[n] = body(f, n)
    <3>1. n = 0 \/ n \in 1..N
      BY <1>1
    <3> QED
      BY <1>5, <1>6, <3>1
  <2>2. f = [n \in 0..N |-> body(f, n)]
    <3> HIDE DEF body
    <3> QED
      BY <1>5, <2>1
  <2> QED
    BY <2>2 DEF WeightAt
<1> DEFINE sum == CHOOSE s : Is(s)
<1>8. H!WeightOf(o, rows, ns) = sum[N]
  BY DEF H!WeightOf, N
<1>9. Is(sum)
  <2> HIDE DEF Is
  <2> QED
    BY <1>7
<1>10. sum = [n \in 0..N |-> body(sum, n)]
  <2> HIDE DEF sum
  <2> QED
    BY <1>9 DEF WeightAt
<1> HIDE DEF sum
<1>11. sum[0] = 0 /\ \A n \in 1..N : sum[n] = sum[n - 1] + WeightAt(o, rows, ns, n)
  <2>1. \A n \in 1..N : n \in 0..N /\ n # 0
    BY <1>1
  <2>2. 0 \in 0..N
    BY <1>1
  <2> HIDE DEF Is
  <2>3. \A n \in 0..N : sum[n] = body(sum, n)
    <3> HIDE DEF body
    <3> QED
      BY <1>10
  <2> QED
    BY <2>1, <2>2, <2>3
<1> DEFINE P == {n \in 0..N : sum[n] \in Int}
<1>12. 0 \in P
  BY <1>1, <1>11
<1>13. ASSUME NEW n \in 1..N, n - 1 \in P PROVE n \in P
  <2> DEFINE a == sum[n - 1]
             b == WeightAt(o, rows, ns, n)
  <2>1. a \in Int /\ b \in Int /\ sum[n] = a + b
    BY <1>2, <1>11, <1>13
  <2> HIDE DEF a, b
  <2>2. sum[n] \in Int /\ n \in 0..N
    BY <1>1, <2>1
  <2> QED
    BY <2>2
<1>14. \A n \in 0..N : n \in P
  <2> HIDE DEF P
  <2> QED
    BY <1>1, <1>12, <1>13, Induction
<1>15. sum \in [0..N -> Int]
  <2>1. \A n \in 0..N : sum[n] \in Int
    BY <1>14
  <2>2. DOMAIN sum = 0..N /\ sum = [n \in 0..N |-> sum[n]]
    <3>1. \A g : g = [n \in 0..N |-> body(sum, n)] => DOMAIN g = 0..N /\ g = [n \in 0..N |-> g[n]]
      <4> HIDE DEF body, Is
      <4> QED
        OBVIOUS
    <3> HIDE DEF body, Is
    <3> QED
      BY <1>10, <3>1
  <2> HIDE DEF Is, body, P
  <2> QED
    BY <2>1, <2>2
<1>16. IsWeight(sum, o, rows, ns)
  BY <1>8, <1>11, <1>15 DEF IsWeight, N
<1> QED
  BY <1>16

\* The weight of those among the first n rows.
Weight(o, rows, ns, n) == (CHOOSE f : IsWeight(f, o, rows, ns))[n]

LEMMA WeightIs ==
  ASSUME NEW o, NEW rows \in Seq(Row), NEW ns
  PROVE  /\ \A n \in 0..Len(rows) : Weight(o, rows, ns, n) \in Int
         /\ Weight(o, rows, ns, 0) = 0
         /\ \A n \in 1..Len(rows) :
              Weight(o, rows, ns, n) = Weight(o, rows, ns, n - 1) + WeightAt(o, rows, ns, n)
         /\ H!WeightOf(o, rows, ns) = Weight(o, rows, ns, Len(rows))
<1> DEFINE f == CHOOSE f : IsWeight(f, o, rows, ns)
<1>1. IsWeight(f, o, rows, ns)
  BY WeightRounds
<1>2. \A n : Weight(o, rows, ns, n) = f[n]
  BY DEF Weight
<1> HIDE DEF f
<1> QED
  BY <1>1, <1>2 DEF IsWeight

\* Rows of two kinds weigh as much together as on their own.
LEMMA WeightAdds ==
  ASSUME NEW o, NEW rows \in Seq(Row), NEW A, NEW B, A \cap B = {}
  PROVE  H!WeightOf(o, rows, A \cup B) = H!WeightOf(o, rows, A) + H!WeightOf(o, rows, B)
<1> DEFINE N == Len(rows)
           a(n) == Weight(o, rows, A, n)
           b(n) == Weight(o, rows, B, n)
           c(n) == Weight(o, rows, A \cup B, n)
           P == {n \in 0..N : c(n) = a(n) + b(n)}
<1>1. N \in Nat
  OBVIOUS
<1>2. \A n \in 0..N : a(n) \in Int /\ b(n) \in Int
  BY WeightIs
<1>3. a(0) = 0 /\ b(0) = 0 /\ c(0) = 0
  BY WeightIs
<1>4. ASSUME NEW n \in 1..N
      PROVE  /\ a(n) = a(n - 1) + WeightAt(o, rows, A, n)
             /\ b(n) = b(n - 1) + WeightAt(o, rows, B, n)
             /\ c(n) = c(n - 1) + WeightAt(o, rows, A \cup B, n)
  BY WeightIs
<1>5. a(N) = H!WeightOf(o, rows, A) /\ b(N) = H!WeightOf(o, rows, B)
      /\ c(N) = H!WeightOf(o, rows, A \cup B)
  BY WeightIs
<1> HIDE DEF a, b, c, N
<1>6. ASSUME NEW n \in 1..N, n - 1 \in P PROVE n \in P
  <2> DEFINE w == IF o.w THEN rows[n].w ELSE 1
             wa == WeightAt(o, rows, A, n)
             wb == WeightAt(o, rows, B, n)
             wc == WeightAt(o, rows, A \cup B, n)
  <2>1. w \in Int
    <3>1. rows[n] \in Row
      BY DEF N
    <3>2. rows[n].w \in Int
      BY <3>1 DEF Row
    <3> QED
      BY <3>2
  <2>2. /\ wa = IF n \in A THEN w ELSE 0
        /\ wb = IF n \in B THEN w ELSE 0
        /\ wc = IF n \in A \cup B THEN w ELSE 0
    BY DEF WeightAt
  <2> HIDE DEF w, wa, wb, wc
  <2>3. wc = wa + wb /\ wa \in Int /\ wb \in Int
    BY <2>1, <2>2
  <2>4. n - 1 \in 0..N /\ n \in 0..N /\ c(n - 1) = a(n - 1) + b(n - 1)
    BY <1>1, <1>6
  <2>5. a(n) = a(n - 1) + wa /\ b(n) = b(n - 1) + wb /\ c(n) = c(n - 1) + wc
    BY <1>4 DEF wa, wb, wc
  <2>6. a(n - 1) \in Int /\ b(n - 1) \in Int
    BY <1>2, <2>4
  <2>7. c(n) = a(n) + b(n)
    BY <2>3, <2>4, <2>5, <2>6
  <2> QED
    BY <2>4, <2>7
<1>7. 0 \in P
  BY <1>1, <1>3
<1>8. \A n \in 0..N : n \in P
  <2> HIDE DEF P
  <2> QED
    BY <1>1, <1>6, <1>7, Induction
<1>9. c(N) = a(N) + b(N)
  BY <1>1, <1>8
<1> QED
  BY <1>5, <1>9

----------------------------------------------------------------------------

Bins(o) == 0..(H!NBins(o) - 1)

HistStates(o) ==
  [freq : [Bins(o) -> Int], wfreq : [Bins(o) -> Int], uflow : Int, oflow : Int,
   sumw : Int, sumc : Int, qum : Int]

\* What a row changes.
Filled(next, h, o, row) ==
  LET k == H!Ibin(o, row.v)
      w == IF o.w THEN row.w ELSE 0 IN
  /\ next \in HistStates(o)
  /\ \A j \in Bins(o) :
       /\ next.freq[j] = h.freq[j] + (IF j = k THEN 1 ELSE 0)
       /\ next.wfreq[j] = h.wfreq[j] + (IF j = k THEN w ELSE 0)
  /\ next.uflow = h.uflow + (IF k < 0 THEN 1 ELSE 0)
  /\ next.oflow = h.oflow + (IF k < H!NBins(o) THEN 0 ELSE 1)
  /\ next.qum = h.qum + (IF k < 0 THEN IF o.w THEN w ELSE 1 ELSE 0)

LEMMA FillIs ==
  ASSUME NEW o, H!IsOptions(o), NEW h \in HistStates(o), NEW row \in Row
  PROVE  Filled(H!Fill(o, h, row), h, o, row)
<1> DEFINE k == H!Ibin(o, row.v)
           w == IF o.w THEN row.w ELSE 0
           g == [h EXCEPT !.sumw = @ + w, !.sumc = @ + 1]
           B == Bins(o)
           n == H!NBins(o)
           next == H!Fill(o, h, row)
           dq == IF o.w THEN w ELSE 1
<1>1. row.v \in Int /\ row.w \in Int /\ k \in Int /\ w \in Int /\ n \in Nat /\ dq \in Int
  <2>1. row.v \in Int /\ row.w \in Int
    BY DEF Row
  <2> QED
    BY <2>1, IbinIs, OptionsAre
<1>2. B = 0..(n - 1)
  BY DEF Bins
<1>3. HistStates(o) = [freq : [B -> Int], wfreq : [B -> Int], uflow : Int, oflow : Int,
                       sumw : Int, sumc : Int, qum : Int]
  BY DEF HistStates
<1>4. next = IF k < 0 THEN [g EXCEPT !.uflow = @ + 1, !.qum = @ + dq]
             ELSE IF k < n THEN [g EXCEPT !.freq[k] = @ + 1, !.wfreq[k] = @ + w]
             ELSE [g EXCEPT !.oflow = @ + 1]
  BY DEF H!Fill
<1> HIDE DEF k, w, B, n, next, dq
<1>5. /\ h.freq \in [B -> Int] /\ h.wfreq \in [B -> Int] /\ h.uflow \in Int /\ h.oflow \in Int
      /\ h.sumw \in Int /\ h.sumc \in Int /\ h.qum \in Int
  BY <1>3
<1>6. /\ g.freq = h.freq /\ g.wfreq = h.wfreq /\ g.uflow = h.uflow /\ g.oflow = h.oflow
      /\ g.qum = h.qum /\ g \in HistStates(o)
  <2> DEFINE x == h.sumw + w
             y == h.sumc + 1
             Kept == [freq : [B -> Int], wfreq : [B -> Int], uflow : Int, oflow : Int,
                      sumw : Int, sumc : Int, qum : Int]
  <2>1. g = [h EXCEPT !.sumw = x, !.sumc = y]
    OBVIOUS
  <2>2. x \in Int /\ y \in Int /\ h \in Kept
    BY <1>1, <1>3, <1>5
  <2> HIDE DEF x, y, g
  <2>3. g.freq = h.freq /\ g.wfreq = h.wfreq /\ g.uflow = h.uflow /\ g.oflow = h.oflow
        /\ g.qum = h.qum
    BY <2>1, <2>2
  <2>4. g \in Kept
    BY <2>1, <2>2
  <2> QED
    BY <1>3, <2>3, <2>4
<1> HIDE DEF g
<1>7. CASE k < 0
  <2>1. next = [g EXCEPT !.uflow = @ + 1, !.qum = @ + dq]
    BY <1>4, <1>7
  <2>2. next \in HistStates(o)
    <3> DEFINE Kept == [freq : [B -> Int], wfreq : [B -> Int], uflow : Int, oflow : Int,
                        sumw : Int, sumc : Int, qum : Int]
               x == h.uflow + 1
               y == h.qum + dq
    <3>1. next = [g EXCEPT !.uflow = x, !.qum = y]
      BY <1>3, <1>6, <2>1
    <3>2. x \in Int /\ y \in Int /\ g \in Kept
      BY <1>1, <1>3, <1>5, <1>6
    <3> HIDE DEF x, y
    <3>3. next \in Kept
      BY <3>1, <3>2
    <3> QED
      BY <1>3, <3>3
  <2>3. /\ next.freq = h.freq /\ next.wfreq = h.wfreq /\ next.uflow = h.uflow + 1
        /\ next.oflow = h.oflow /\ next.qum = h.qum + dq
    BY <1>3, <1>6, <2>1
  <2>4. \A j \in B : j # k
    BY <1>1, <1>2, <1>7
  <2>5. \A j \in B : h.freq[j] + 0 = h.freq[j] /\ h.wfreq[j] + 0 = h.wfreq[j]
    BY <1>5
  <2>6. k < n /\ h.oflow + 0 = h.oflow
    BY <1>1, <1>5, <1>7
  <2> QED
    BY <1>7, <2>2, <2>3, <2>4, <2>5, <2>6 DEF Filled, k, w, B, n, next, dq
<1>8. CASE ~(k < 0) /\ k < n
  <2> DEFINE f == [h.freq EXCEPT ![k] = @ + 1]
             wf == [h.wfreq EXCEPT ![k] = @ + w]
  <2>1. k \in B
    BY <1>1, <1>2, <1>8
  <2>3. next = [g EXCEPT !.freq = f, !.wfreq = wf]
    <3>1. next = [g EXCEPT !.freq[k] = @ + 1, !.wfreq[k] = @ + w]
      BY <1>4, <1>8
    <3>2. [g EXCEPT !.freq[k] = @ + 1, !.wfreq[k] = @ + w] = [g EXCEPT !.freq = f, !.wfreq = wf]
      BY <1>3, <1>6
    <3> HIDE DEF f, wf
    <3> QED
      BY <3>1, <3>2
  <2>4. f \in [B -> Int] /\ wf \in [B -> Int]
    BY <1>1, <1>5, <2>1
  <2>5. \A j \in B : /\ f[j] = h.freq[j] + (IF j = k THEN 1 ELSE 0)
                     /\ wf[j] = h.wfreq[j] + (IF j = k THEN w ELSE 0)
    BY <1>1, <1>5, <2>1
  <2> HIDE DEF f, wf
  <2>6. next \in HistStates(o)
    BY <1>1, <1>3, <1>6, <2>3, <2>4
  <2>7. /\ next.freq = f /\ next.wfreq = wf /\ next.uflow = h.uflow
        /\ next.oflow = h.oflow /\ next.qum = h.qum
    BY <1>3, <1>6, <2>3
  <2>8. h.uflow + 0 = h.uflow /\ h.oflow + 0 = h.oflow /\ h.qum + 0 = h.qum
    BY <1>5
  <2> QED
    BY <1>8, <2>5, <2>6, <2>7, <2>8 DEF Filled, k, w, B, n, next
<1>9. CASE ~(k < 0) /\ ~(k < n)
  <2>1. next = [g EXCEPT !.oflow = @ + 1]
    BY <1>4, <1>9
  <2>2. next \in HistStates(o)
    BY <1>1, <1>3, <1>6, <2>1
  <2>3. /\ next.freq = h.freq /\ next.wfreq = h.wfreq /\ next.uflow = h.uflow
        /\ next.oflow = h.oflow + 1 /\ next.qum = h.qum
    BY <1>3, <1>6, <2>1
  <2>4. \A j \in B : j # k
    BY <1>1, <1>2, <1>9
  <2>5. \A j \in B : h.freq[j] + 0 = h.freq[j] /\ h.wfreq[j] + 0 = h.wfreq[j]
    BY <1>5
  <2>6. h.uflow + 0 = h.uflow /\ h.qum + 0 = h.qum
    BY <1>5
  <2> QED
    BY <1>9, <2>2, <2>3, <2>4, <2>5, <2>6 DEF Filled, k, w, B, n, next
<1> QED
  BY <1>7, <1>8, <1>9

\* The histogram of the first n rows.
HistIs(h, o, rows, n) ==
  /\ h \in HistStates(o)
  /\ \A k \in Bins(o) :
       LET in == H!Inside(o, rows, k) IN
       /\ h.freq[k] = Cardinality(in \cap (1..n))
       /\ (IF o.w THEN h.wfreq ELSE h.freq)[k] = Weight(o, rows, in, n)
  /\ h.uflow = Cardinality(H!Below(o, rows, 0) \cap (1..n))
  /\ h.oflow = Cardinality((DOMAIN rows \ H!Below(o, rows, H!NBins(o))) \cap (1..n))
  /\ h.qum = Weight(o, rows, H!Below(o, rows, 0), n)

\* The sets that a row is in.
LEMMA PlaceOfRow ==
  ASSUME NEW o, H!IsOptions(o), NEW rows \in Seq(Row), NEW n \in 1..Len(rows)
  PROVE  LET k == H!Ibin(o, rows[n].v) IN
         /\ k \in Int /\ rows[n] \in Row /\ rows[n].w \in Int
         /\ \A j \in Nat : n \in H!Below(o, rows, j) <=> k < j
         /\ \A j \in Nat : n \in H!Inside(o, rows, j) <=> j = k
<1> DEFINE k == H!Ibin(o, rows[n].v)
<1>1. rows[n] \in Row /\ n \in DOMAIN rows
  OBVIOUS
<1>2. rows[n].v \in Int /\ rows[n].w \in Int
  BY <1>1 DEF Row
<1>3. k \in Int /\ \A j \in Nat : H!UpTo(o, rows[n].v, j) <=> k < j
  BY <1>2, IbinIs
<1>4. \A j \in Nat : n \in H!Below(o, rows, j) <=> k < j
  BY <1>1, <1>3 DEF H!Below
<1>5. ASSUME NEW j \in Nat PROVE n \in H!Inside(o, rows, j) <=> j = k
  <2>1. n \in H!Inside(o, rows, j) <=> n \in H!Below(o, rows, j + 1) /\ n \notin H!Below(o, rows, j)
    BY DEF H!Inside
  <2>2. j + 1 \in Nat
    OBVIOUS
  <2> HIDE DEF k
  <2>3. n \in H!Inside(o, rows, j) <=> k < j + 1 /\ ~(k < j)
    BY <1>4, <2>1, <2>2
  <2> QED
    BY <1>3, <2>3
<1> QED
  BY <1>1, <1>2, <1>3, <1>4, <1>5

PlaceIsRight(o, rows, n) ==
  LET k == H!Ibin(o, rows[n].v) IN
  /\ k \in Int /\ rows[n] \in Row /\ rows[n].w \in Int
  /\ \A j \in Nat : n \in H!Below(o, rows, j) <=> k < j
  /\ \A j \in Nat : n \in H!Inside(o, rows, j) <=> j = k

LEMMA HistRound ==
  ASSUME NEW o, H!IsOptions(o), NEW rows \in Seq(Row), NEW n \in 1..Len(rows), NEW h,
         HistIs(h, o, rows, n - 1)
  PROVE  HistIs(H!Fill(o, h, rows[n]), o, rows, n)
<1> DEFINE k == H!Ibin(o, rows[n].v)
           w == IF o.w THEN rows[n].w ELSE 0
           next == H!Fill(o, h, rows[n])
           bins == H!NBins(o)
           in(j) == H!Inside(o, rows, j)
           under == H!Below(o, rows, 0)
           over == DOMAIN rows \ H!Below(o, rows, bins)
           C(A, m) == Cardinality(A \cap (1..m))
           W(A, m) == Weight(o, rows, A, m)
<1>1. /\ k \in Int /\ rows[n] \in Row /\ rows[n].w \in Int
      /\ \A j \in Nat : n \in H!Below(o, rows, j) <=> k < j
      /\ \A j \in Nat : n \in in(j) <=> j = k
  <2>1. PlaceIsRight(o, rows, n)
    BY PlaceOfRow DEF PlaceIsRight
  <2> QED
    BY <2>1 DEF PlaceIsRight
<1>2. bins \in Nat /\ o.w \in BOOLEAN
  BY OptionsAre
<1>3. Bins(o) = 0..(bins - 1)
  BY DEF Bins
<1>4. /\ h \in HistStates(o)
      /\ \A j \in Bins(o) : /\ h.freq[j] = C(in(j), n - 1)
                            /\ (IF o.w THEN h.wfreq ELSE h.freq)[j] = W(in(j), n - 1)
      /\ h.uflow = C(under, n - 1) /\ h.oflow = C(over, n - 1) /\ h.qum = W(under, n - 1)
  BY DEF HistIs
<1>5. Filled(next, h, o, rows[n])
  BY <1>1, <1>4, FillIs
<1>6. /\ next \in HistStates(o)
      /\ \A j \in Bins(o) :
           /\ next.freq[j] = h.freq[j] + (IF j = k THEN 1 ELSE 0)
           /\ next.wfreq[j] = h.wfreq[j] + (IF j = k THEN w ELSE 0)
      /\ next.uflow = h.uflow + (IF k < 0 THEN 1 ELSE 0)
      /\ next.oflow = h.oflow + (IF k < bins THEN 0 ELSE 1)
      /\ next.qum = h.qum + (IF k < 0 THEN IF o.w THEN w ELSE 1 ELSE 0)
  BY <1>5 DEF Filled
<1>7. \A A : C(A, n) = C(A, n - 1) + (IF n \in A THEN 1 ELSE 0)
  <2>1. n \in Nat /\ n > 0
    OBVIOUS
  <2> QED
    BY <2>1, OneMore
<1>8. \A A : W(A, n) = W(A, n - 1) + WeightAt(o, rows, A, n)
  BY WeightIs
<1>9. n \in under <=> k < 0
  BY <1>1
<1>10. n \in over <=> ~(k < bins)
  <2>1. n \in DOMAIN rows
    OBVIOUS
  <2> QED
    BY <1>1, <1>2, <2>1
<1> HIDE DEF k, next, bins, in, under, over, C, W
<1>11. \A j \in Bins(o) : j \in Nat /\ (n \in in(j) <=> j = k)
  <2>1. \A j \in Bins(o) : j \in Nat
    BY <1>2, <1>3
  <2> QED
    BY <1>1, <2>1
<1>12. /\ next.uflow = C(under, n) /\ next.oflow = C(over, n)
  BY <1>4, <1>6, <1>7, <1>9, <1>10
<1>13. next.qum = W(under, n)
  <2>1. (IF k < 0 THEN IF o.w THEN w ELSE 1 ELSE 0) = WeightAt(o, rows, under, n)
    BY <1>9 DEF WeightAt
  <2> QED
    BY <1>4, <1>6, <1>8, <2>1
<1>14. ASSUME NEW j \in Bins(o)
       PROVE  next.freq[j] = C(in(j), n) /\ (IF o.w THEN next.wfreq ELSE next.freq)[j] = W(in(j), n)
  <2>1. next.freq[j] = C(in(j), n)
    BY <1>4, <1>6, <1>7, <1>11
  <2>2. CASE o.w
    <3>1. next.wfreq[j] = W(in(j), n - 1) + (IF j = k THEN w ELSE 0)
      BY <1>4, <1>6, <2>2
    <3>2. (IF j = k THEN w ELSE 0) = WeightAt(o, rows, in(j), n)
      BY <1>11, <2>2 DEF WeightAt
    <3> QED
      BY <1>8, <2>1, <2>2, <3>1, <3>2
  <2>3. CASE ~o.w
    <3>1. next.freq[j] = W(in(j), n - 1) + (IF j = k THEN 1 ELSE 0)
      BY <1>4, <1>6, <2>3
    <3>2. (IF j = k THEN 1 ELSE 0) = WeightAt(o, rows, in(j), n)
      BY <1>11, <2>3 DEF WeightAt
    <3> QED
      BY <1>8, <2>1, <2>3, <3>1, <3>2
  <2> QED
    BY <2>1, <2>2, <2>3
<1> QED
  BY <1>6, <1>12, <1>13, <1>14 DEF HistIs, next, in, under, over, C, W, bins

----------------------------------------------------------------------------

LEMMA HistAfter ==
  ASSUME NEW o, H!IsOptions(o), NEW rows \in Seq(Row)
  PROVE  HistIs(H!Histogram(o, rows), o, rows, Len(rows))
<1> DEFINE N == Len(rows)
           States == HistStates(o)
           first == H!Empty(o)
           step == [x \in (1..N) \X States |-> H!Fill(o, x[2], rows[x[1]])]
           body(s, n) == IF n = 0 THEN first ELSE H!Fill(o, s[n - 1], rows[n])
           Is(s) == s = [n \in 0..N |-> IF n = 0 THEN H!Empty(o) ELSE H!Fill(o, s[n - 1], rows[n])]
<1>1. N \in Nat /\ DOMAIN rows = 1..N
  OBVIOUS
<1>2. first \in States /\ HistIs(first, o, rows, 0)
  <2> DEFINE B == Bins(o)
             none == [k \in B |-> 0]
  <2>1. first = [freq |-> none, wfreq |-> none, uflow |-> 0, oflow |-> 0, sumw |-> 0, sumc |-> 0,
                 qum |-> 0]
    BY DEF H!Empty, Bins
  <2>2. none \in [B -> Int] /\ \A k \in B : none[k] = 0
    OBVIOUS
  <2> HIDE DEF none, B, first
  <2>3. first \in States
    BY <2>1, <2>2 DEF HistStates, B
  <2>4. /\ first.freq = none /\ first.wfreq = none /\ first.uflow = 0 /\ first.oflow = 0
        /\ first.qum = 0
    BY <2>1
  <2>5. \A A : Cardinality(A \cap (1..0)) = 0 /\ Weight(o, rows, A, 0) = 0
    <3>1. \A A : A \cap (1..0) = {}
      OBVIOUS
    <3>2. Cardinality({}) = 0
      BY FS_EmptySet
    <3>3. \A A : Weight(o, rows, A, 0) = 0
      BY WeightIs
    <3> QED
      BY <3>1, <3>2, <3>3
  <2> QED
    BY <2>2, <2>3, <2>4, <2>5 DEF HistIs, B
<1>3. \A n \in 1..N : \A s \in States : H!Fill(o, s, rows[n]) \in States
  <2>1. ASSUME NEW n \in 1..N, NEW s \in States PROVE H!Fill(o, s, rows[n]) \in States
    <3>1. rows[n] \in Row
      OBVIOUS
    <3>2. Filled(H!Fill(o, s, rows[n]), s, o, rows[n])
      BY <3>1, FillIs
    <3> QED
      BY <3>2 DEF Filled
  <2> QED
    BY <2>1
<1>4. ASSUME NEW n \in 1..N, NEW s \in States, HistIs(s, o, rows, n - 1)
      PROVE  HistIs(H!Fill(o, s, rows[n]), o, rows, n)
  BY <1>4, HistRound
<1> HIDE DEF States, N, first
<1>5. step \in [(1..N) \X States -> States]
  BY <1>3
<1>6. PICK f : IsLoop(f, N, States, first, step)
  <2> HIDE DEF step
  <2> QED
    BY <1>1, <1>2, <1>5, Loop
<1>7. f \in [0..N -> States] /\ f[0] = first
  BY <1>6 DEF IsLoop
<1>8. ASSUME NEW n \in 1..N PROVE f[n] = H!Fill(o, f[n - 1], rows[n])
  <2>1. f[n] = step[<<n, f[n - 1]>>]
    <3> HIDE DEF step
    <3> QED
      BY <1>6 DEF IsLoop
  <2>2. n - 1 \in 0..N
    BY <1>1
  <2>3. <<n, f[n - 1]>> \in (1..N) \X States
    BY <1>7, <2>2
  <2> QED
    BY <2>1, <2>3
<1>9. Is(f)
  <2>1. ASSUME NEW n \in 0..N PROVE f[n] = body(f, n)
    <3>1. n = 0 \/ n \in 1..N
      BY <1>1
    <3> QED
      BY <1>7, <1>8, <3>1
  <2>2. f = [n \in 0..N |-> body(f, n)]
    <3> HIDE DEF body
    <3> QED
      BY <1>7, <2>1
  <2> QED
    BY <2>2 DEF first
<1> DEFINE after == CHOOSE s : Is(s)
<1>10. H!Histogram(o, rows) = after[N]
  BY DEF H!Histogram, H!After, N
<1>11. Is(after)
  <2> HIDE DEF Is
  <2> QED
    BY <1>9
<1>12. after = [n \in 0..N |-> body(after, n)]
  <2> HIDE DEF after
  <2> QED
    BY <1>11 DEF first
<1> HIDE DEF after
<1>13. after[0] = first /\ \A n \in 1..N : after[n] = H!Fill(o, after[n - 1], rows[n])
  <2>1. \A n \in 1..N : n \in 0..N /\ n # 0
    BY <1>1
  <2>2. 0 \in 0..N
    BY <1>1
  <2> HIDE DEF Is
  <2>3. \A n \in 0..N : after[n] = body(after, n)
    <3> HIDE DEF body
    <3> QED
      BY <1>12
  <2> QED
    BY <2>1, <2>2, <2>3
<1> DEFINE P == {n \in 0..N : after[n] \in States /\ HistIs(after[n], o, rows, n)}
<1>14. 0 \in P
  BY <1>1, <1>2, <1>13
<1>15. ASSUME NEW n \in 1..N, n - 1 \in P PROVE n \in P
  <2>1. after[n - 1] \in States /\ HistIs(after[n - 1], o, rows, n - 1)
    BY <1>15
  <2>2. after[n] = H!Fill(o, after[n - 1], rows[n])
    BY <1>13
  <2>3. after[n] \in States /\ HistIs(after[n], o, rows, n)
    BY <1>3, <1>4, <2>1, <2>2
  <2>4. n \in 0..N
    BY <1>1
  <2> QED
    BY <2>3, <2>4
<1>16. \A n \in 0..N : n \in P
  <2> HIDE DEF P
  <2> QED
    BY <1>1, <1>14, <1>15, Induction
<1>17. N \in P
  BY <1>1, <1>16
<1> QED
  BY <1>10, <1>17 DEF N

\* The loop that prints the bins.
LEMMA CumulatedIs ==
  ASSUME NEW o, H!IsOptions(o), NEW h \in HistStates(o), NEW one \in Int, NEW norm \in Int,
         norm = H!Norm(o, h), one = IF o.p THEN 1 ELSE norm, 0 \in Bins(o)
  PROVE  LET out == IF o.w THEN h.wfreq ELSE h.freq
             cum == H!Cumulated(o, h) IN
         /\ cum[0] = h.qum * norm + out[0] * one
         /\ \A k \in Bins(o) : cum[k] \in Int
         /\ \A k \in Bins(o) : k # 0 => cum[k] = cum[k - 1] + out[k] * one
<1> DEFINE B == Bins(o)
           out == IF o.w THEN h.wfreq ELSE h.freq
           N == H!NBins(o) - 1
           a == h.qum * norm
           t(k) == out[k] * one
           first == a + t(0)
           step == [x \in (1..N) \X Int |-> x[2] + t(x[1])]
           body(s, k) == (IF k = 0 THEN a ELSE s[k - 1]) + t(k)
           Is(s) == s = [k \in 0..N |-> (IF k = 0 THEN a ELSE s[k - 1]) + t(k)]
<1>1. N \in Nat /\ B = 0..N
  <2>1. H!NBins(o) \in Nat /\ 0 \in 0..(H!NBins(o) - 1)
    BY OptionsAre DEF Bins
  <2> QED
    BY <2>1 DEF Bins
<1>2. out \in [B -> Int] /\ h.qum \in Int
  BY DEF HistStates
<1>3. a \in Int
  BY <1>2
<1>4. \A k \in B : t(k) \in Int
  <2>1. ASSUME NEW k \in B PROVE t(k) \in Int
    <3> HIDE DEF out
    <3>1. out[k] \in Int
      BY <1>2
    <3> QED
      BY <3>1
  <2> QED
    BY <2>1
<1>5. H!Cumulated(o, h) = CHOOSE s : Is(s)
  BY DEF H!Cumulated
<1> HIDE DEF t, a, N, B
<1>6. \A k \in 0..N : t(k) \in Int
  BY <1>1, <1>4
<1>7. 0 \in 0..N /\ first \in Int
  <2>1. 0 \in 0..N
    BY <1>1
  <2> QED
    BY <1>3, <1>6, <2>1
<1>8. step \in [(1..N) \X Int -> Int]
  <2>1. ASSUME NEW x \in (1..N) \X Int PROVE x[2] + t(x[1]) \in Int
    <3> DEFINE u == x[2]
               v == t(x[1])
    <3>1. x[1] \in 0..N /\ u \in Int
      BY <1>1
    <3>2. v \in Int
      BY <1>6, <3>1
    <3> HIDE DEF u, v
    <3>3. u + v \in Int
      BY <3>1, <3>2
    <3> QED
      BY <3>3 DEF u, v
  <2> QED
    BY <2>1
<1> HIDE DEF first
<1>9. PICK f : IsLoop(f, N, Int, first, step)
  <2> DEFINE S == Int
  <2>1. step \in [(1..N) \X S -> S] /\ first \in S
    BY <1>7, <1>8
  <2> HIDE DEF step, S
  <2>2. \E f : IsLoop(f, N, S, first, step)
    BY <1>1, <2>1, Loop
  <2> QED
    BY <2>2 DEF S
<1>10. f \in [0..N -> Int] /\ f[0] = first
  BY <1>9 DEF IsLoop
<1>11. ASSUME NEW n \in 1..N PROVE f[n] = f[n - 1] + t(n)
  <2>1. f[n] = step[<<n, f[n - 1]>>]
    <3> HIDE DEF step
    <3> QED
      BY <1>9 DEF IsLoop
  <2>2. n - 1 \in 0..N
    BY <1>1
  <2>3. <<n, f[n - 1]>> \in (1..N) \X Int
    BY <1>10, <2>2
  <2> QED
    BY <2>1, <2>3
<1>12. Is(f)
  <2>1. ASSUME NEW n \in 0..N PROVE f[n] = body(f, n)
    <3>1. n = 0 \/ n \in 1..N
      BY <1>1
    <3>2. f[0] = body(f, 0)
      BY <1>10 DEF first
    <3>3. \A m \in 1..N : m # 0
      BY <1>1
    <3> QED
      BY <1>11, <3>1, <3>2, <3>3
  <2>2. f = [n \in 0..N |-> body(f, n)]
    <3> HIDE DEF body
    <3> QED
      BY <1>10, <2>1
  <2> QED
    BY <2>2
<1> DEFINE cum == CHOOSE s : Is(s)
<1>13. Is(cum)
  <2> HIDE DEF Is
  <2> QED
    BY <1>12
<1>14. cum = [n \in 0..N |-> body(cum, n)]
  <2> HIDE DEF cum
  <2> QED
    BY <1>13
<1> HIDE DEF cum
<1>15. cum[0] = a + t(0) /\ \A n \in 1..N : cum[n] = cum[n - 1] + t(n)
  <2>1. \A n \in 1..N : n \in 0..N /\ n # 0
    BY <1>1
  <2> HIDE DEF Is
  <2>2. \A n \in 0..N : cum[n] = body(cum, n)
    <3> HIDE DEF body
    <3> QED
      BY <1>14
  <2> QED
    BY <1>7, <2>1, <2>2
<1> DEFINE P == {n \in 0..N : cum[n] \in Int}
<1>16. 0 \in P
  BY <1>7, <1>15 DEF first
<1>17. ASSUME NEW n \in 1..N, n - 1 \in P PROVE n \in P
  <2> DEFINE u == cum[n - 1]
             v == t(n)
  <2>1. u \in Int /\ v \in Int /\ cum[n] = u + v /\ n \in 0..N
    BY <1>1, <1>6, <1>15, <1>17
  <2> HIDE DEF u, v
  <2>2. cum[n] \in Int
    BY <2>1
  <2> QED
    BY <2>1, <2>2
<1>18. \A n \in 0..N : n \in P
  <2> HIDE DEF P
  <2> QED
    BY <1>1, <1>16, <1>17, Induction
<1>19. H!Cumulated(o, h) = cum
  BY <1>5 DEF cum
<1>20. \A k \in B : cum[k] \in Int
  BY <1>1, <1>18
<1>21. \A k \in B : k # 0 => cum[k] = cum[k - 1] + out[k] * one
  <2>1. \A k \in B : k # 0 => k \in 1..N
    BY <1>1
  <2> QED
    BY <1>15, <2>1 DEF t
<1>22. cum[0] = h.qum * norm + out[0] * one
  BY <1>15 DEF t, a
<1> HIDE DEF out
<1>23. LET c == H!Cumulated(o, h) IN
       /\ c[0] = h.qum * norm + out[0] * one
       /\ \A k \in B : c[k] \in Int
       /\ \A k \in B : k # 0 => c[k] = c[k - 1] + out[k] * one
  BY <1>19, <1>20, <1>21, <1>22
<1> QED
  BY <1>23 DEF out, B

\* The labels are the edges if the bins fill the range.
LEMMA LabelIs ==
  ASSUME NEW o, H!IsOptions(o), NEW k \in Nat, NEW size, size = H!BinSize(o),
         NEW n, n = H!NBins(o), (o.u - o.l) * size.den = n * size.num
  PROVE  H!Label(o, k).num * size.den =
           (o.l * size.den + (IF o.L THEN k ELSE k + 1) * size.num) * H!Label(o, k).den
<1> DEFINE D == size.num
           den == size.den
           l == o.l
           u == o.u
           s == n - 1
           a == l * den
           b == u * den
           first == a + (IF o.L THEN 0 ELSE D)
           last == b - (IF o.L THEN D ELSE 0)
           edge == a + (IF o.L THEN k ELSE k + 1) * D
<1>1. l \in Int /\ u \in Int /\ D \in Int /\ den \in Int /\ n \in Int /\ s \in Int
  BY OptionsAre
<1>2. H!Label(o, k) = [num |-> k * (last - first) + first * s, den |-> den * s]
  BY DEF H!Label
<1>3. H!Label(o, k).num = k * (last - first) + first * s /\ H!Label(o, k).den = den * s
  BY <1>2
<1>4. a \in Int /\ b \in Int /\ b - a = n * D /\ n * D = s * D + D /\ s * D \in Int /\ k * D \in Int
  <2>1. (u - l) * den = n * D
    OBVIOUS
  <2> HIDE DEF D, den, l, u
  <2>2. a \in Int /\ b \in Int /\ b - a = (u - l) * den
    BY <1>1
  <2>3. n * D = s * D + D /\ s * D \in Int /\ k * D \in Int
    <3>1. \A x, y \in Int : x * y = (x - 1) * y + y
      OBVIOUS
    <3>2. n * D = s * D + D
      BY <1>1, <3>1
    <3>3. \A x, y \in Int : x * y \in Int
      OBVIOUS
    <3> HIDE DEF s
    <3> QED
      BY <1>1, <3>2, <3>3
  <2> QED
    BY <2>1, <2>2, <2>3
<1> HIDE DEF D, den, l, u, s, a, b
<1>5. first \in Int /\ last \in Int /\ last - first = s * D
  <2> DEFINE p == s * D
  <2>1. p \in Int /\ b - a = p + D
    BY <1>4
  <2> HIDE DEF p
  <2>2. last - first = p /\ first \in Int /\ last \in Int
    BY <1>1, <1>4, <2>1
  <2> QED
    BY <2>2 DEF p
<1>6. edge = k * D + first /\ edge \in Int
  <2> DEFINE p == k * D
  <2>1. (k + 1) * D = p + D /\ p \in Int
    BY <1>1
  <2>2. edge = a + (IF o.L THEN p ELSE p + D)
    BY <2>1
  <2> HIDE DEF p, edge
  <2>3. edge = p + first /\ edge \in Int
    BY <1>1, <1>4, <2>1, <2>2
  <2> QED
    BY <2>3 DEF p
<1> HIDE DEF first, last, edge
<1>7. k * (s * D) + first * s = (k * D + first) * s
  <2>1. \A x, y, z, w \in Int : x * (y * z) + w * y = (x * z + w) * y
    OBVIOUS
  <2> QED
    BY <1>1, <1>5, <2>1
<1>8. (edge * s) * den = edge * (den * s)
  <2>1. \A x, y, z \in Int : (x * y) * z = x * (z * y)
    OBVIOUS
  <2> QED
    BY <1>1, <1>6, <2>1
<1>9. H!Label(o, k).num = edge * s
  BY <1>3, <1>5, <1>6, <1>7
<1>10. H!Label(o, k).num * den = edge * H!Label(o, k).den
  BY <1>3, <1>8, <1>9
<1> QED
  BY <1>10 DEF den, edge, a, l, D

----------------------------------------------------------------------------

\* The cumulative column is the weight of the rows up to the end of the bin.
LEMMA CumulatedRight ==
  ASSUME NEW o, H!IsOptions(o), NEW rows \in Seq(Row), NEW h, HistIs(h, o, rows, Len(rows)),
         ~o.p, NEW k \in Bins(o)
  PROVE  H!Cumulated(o, h)[k] = H!WeightOf(o, rows, H!Below(o, rows, k + 1)) * H!Norm(o, h)
<1> DEFINE B == Bins(o)
           N == H!NBins(o) - 1
           out == IF o.w THEN h.wfreq ELSE h.freq
           cum == H!Cumulated(o, h)
           norm == H!Norm(o, h)
           in(j) == H!Inside(o, rows, j)
           below(j) == H!Below(o, rows, j)
           W(A) == H!WeightOf(o, rows, A)
<1>1. /\ h \in HistStates(o) /\ h.qum = W(below(0))
      /\ \A j \in B : out[j] = W(in(j))
  <2>1. \A A : Weight(o, rows, A, Len(rows)) = W(A)
    BY WeightIs
  <2> QED
    BY <2>1 DEF HistIs
<1>2. norm \in Int
  <2>1. h.sumw \in Int /\ h.sumc \in Int
    BY <1>1 DEF HistStates
  <2> QED
    BY <2>1 DEF H!Norm
<1>3. N \in Nat /\ B = 0..N /\ k \in 0..N
  <2>1. H!NBins(o) \in Nat
    BY OptionsAre
  <2> DEFINE m == H!NBins(o)
  <2> HIDE DEF m
  <2>2. m \in Nat /\ k \in 0..(m - 1)
    BY <2>1 DEF m, Bins
  <2>3. m - 1 \in Nat
    BY <2>2
  <2> QED
    BY <2>2, <2>3 DEF m, Bins
<1>4. /\ cum[0] = h.qum * norm + out[0] * norm
      /\ \A j \in B : cum[j] \in Int
      /\ \A j \in B : j # 0 => cum[j] = cum[j - 1] + out[j] * norm
  <2> DEFINE one == IF o.p THEN 1 ELSE norm
  <2>1. one = norm
    OBVIOUS
  <2>2. 0 \in Bins(o)
    BY <1>3
  <2> HIDE DEF norm, one
  <2>3. /\ cum[0] = h.qum * norm + out[0] * one
        /\ \A j \in B : cum[j] \in Int
        /\ \A j \in B : j # 0 => cum[j] = cum[j - 1] + out[j] * one
    BY <1>1, <1>2, <2>1, <2>2, CumulatedIs DEF norm, one
  <2> QED
    BY <2>1, <2>3
<1>5. \A A : W(A) \in Int
  <2>1. Len(rows) \in 0..Len(rows)
    OBVIOUS
  <2> QED
    BY <2>1, WeightIs
<1>6. ASSUME NEW j \in Nat PROVE W(below(j + 1)) = W(below(j)) + W(in(j))
  <2>1. below(j) \subseteq below(j + 1)
    <3>1. ASSUME NEW n \in below(j) PROVE n \in below(j + 1)
      <4> DEFINE i == H!Ibin(o, rows[n].v)
      <4>1. n \in 1..Len(rows)
        BY DEF H!Below
      <4>2. PlaceIsRight(o, rows, n)
        BY <4>1, PlaceOfRow DEF PlaceIsRight
      <4>3. i \in Int /\ (n \in below(j) <=> i < j) /\ (n \in below(j + 1) <=> i < j + 1)
        <5>1. j + 1 \in Nat
          OBVIOUS
        <5> QED
          BY <4>2, <5>1 DEF PlaceIsRight
      <4> HIDE DEF i, below
      <4> QED
        BY <3>1, <4>3
    <3> QED
      BY <3>1
  <2>2. in(j) = below(j + 1) \ below(j)
    BY DEF H!Inside
  <2> HIDE DEF below, in, W
  <2>3. below(j + 1) = below(j) \cup in(j) /\ below(j) \cap in(j) = {}
    BY <2>1, <2>2
  <2>4. W(below(j) \cup in(j)) = W(below(j)) + W(in(j))
    BY <2>3, WeightAdds DEF W
  <2> QED
    BY <2>3, <2>4
<1> HIDE DEF B, N, out, cum, norm, in, below, W
<1>7. \A x, y, z \in Int : x * z + y * z = (x + y) * z
  OBVIOUS
<1> DEFINE P == {j \in 0..N : cum[j] = W(below(j + 1)) * norm}
<1>8. 0 \in P
  <2>1. 0 \in 0..N /\ 0 \in B
    BY <1>3
  <2>2. W(below(0 + 1)) = W(below(0)) + W(in(0))
    BY <1>6
  <2>3. cum[0] = W(below(0)) * norm + W(in(0)) * norm
    BY <1>1, <1>4, <2>1
  <2>4. cum[0] = W(below(0 + 1)) * norm
    BY <1>2, <1>5, <1>7, <2>2, <2>3
  <2> QED
    BY <2>1, <2>4
<1>9. ASSUME NEW j \in 1..N, j - 1 \in P PROVE j \in P
  <2>1. j \in B /\ j # 0 /\ j \in Nat /\ j \in 0..N /\ (j - 1) + 1 = j
    BY <1>3
  <2>2. cum[j - 1] = W(below(j)) * norm
    BY <1>9, <2>1
  <2>3. W(below(j + 1)) = W(below(j)) + W(in(j))
    BY <1>6, <2>1
  <2>4. cum[j] = W(below(j)) * norm + W(in(j)) * norm
    BY <1>1, <1>4, <2>1, <2>2
  <2>5. cum[j] = W(below(j + 1)) * norm
    BY <1>2, <1>5, <1>7, <2>3, <2>4
  <2> QED
    BY <2>1, <2>5
<1>10. \A j \in 0..N : j \in P
  <2> HIDE DEF P
  <2> QED
    BY <1>3, <1>8, <1>9, Induction
<1>11. cum[k] = W(below(k + 1)) * norm
  BY <1>3, <1>10
<1> QED
  BY <1>11 DEF cum, W, below, norm

LEMMA HistogramIsRight ==
  ASSUME NEW o, H!IsOptions(o), NEW rows \in Seq(Row)
  PROVE  H!HistogramRight(o, rows)
<1> DEFINE h == H!Histogram(o, rows)
           n == H!NBins(o)
           N == Len(rows)
           under == H!Below(o, rows, 0)
           over == DOMAIN rows \ H!Below(o, rows, n)
           in(k) == H!Inside(o, rows, k)
<1>1. HistIs(h, o, rows, N)
  BY HistAfter
<1>2. \A A : A \subseteq DOMAIN rows => A \cap (1..N) = A
  OBVIOUS
<1>3. under \subseteq DOMAIN rows /\ over \subseteq DOMAIN rows
        /\ \A k : in(k) \subseteq DOMAIN rows
  BY DEF H!Below, H!Inside
<1>4. Bins(o) = 0..(n - 1) /\ n \in Nat
  BY OptionsAre DEF Bins
<1>5. /\ \A k \in 0..(n - 1) :
           /\ h.freq[k] = Cardinality(in(k))
           /\ o.w => h.wfreq[k] = H!WeightOf(o, rows, in(k))
      /\ h.uflow = Cardinality(under)
      /\ h.oflow = Cardinality(over)
  <2>1. \A A : Weight(o, rows, A, N) = H!WeightOf(o, rows, A)
    BY WeightIs
  <2>2. /\ \A k \in Bins(o) :
             /\ h.freq[k] = Cardinality(in(k) \cap (1..N))
             /\ (IF o.w THEN h.wfreq ELSE h.freq)[k] = Weight(o, rows, in(k), N)
        /\ h.uflow = Cardinality(under \cap (1..N))
        /\ h.oflow = Cardinality(over \cap (1..N))
    BY <1>1 DEF HistIs
  <2> HIDE DEF h, n, N, under, over, in
  <2> QED
    BY <1>2, <1>3, <1>4, <2>1, <2>2
<1>6. ASSUME NEW k \in 0..(n - 1)
      PROVE  LET label == H!Label(o, k)
                 size  == H!BinSize(o)
                 edge  == o.l * size.den + (IF o.L THEN k ELSE k + 1) * size.num
             IN /\ (o.u - o.l) * size.den = n * size.num => label.num * size.den = edge * label.den
                /\ ~o.p => H!Cumulated(o, h)[k] = H!WeightOf(o, rows, H!Below(o, rows, k + 1)) * H!Norm(o, h)
  <2>1. k \in Nat /\ k \in Bins(o)
    BY <1>4
  <2>2. ~o.p => H!Cumulated(o, h)[k] = H!WeightOf(o, rows, H!Below(o, rows, k + 1)) * H!Norm(o, h)
    <3> HIDE DEF h
    <3> QED
      BY <1>1, <2>1, CumulatedRight
  <2> DEFINE size == H!BinSize(o)
  <2> HIDE DEF size
  <2>3. (o.u - o.l) * size.den = n * size.num =>
          H!Label(o, k).num * size.den =
            (o.l * size.den + (IF o.L THEN k ELSE k + 1) * size.num) * H!Label(o, k).den
    <3> HIDE DEF n
    <3> QED
      BY <2>1, LabelIs DEF size, n
  <2> HIDE DEF h, n
  <2> QED
    BY <2>2, <2>3 DEF size
<1> DEFINE columns(k) ==
             LET label == H!Label(o, k)
                 size  == H!BinSize(o)
                 edge  == o.l * size.den + (IF o.L THEN k ELSE k + 1) * size.num
             IN /\ (o.u - o.l) * size.den = n * size.num => label.num * size.den = edge * label.den
                /\ ~o.p => H!Cumulated(o, h)[k] = H!WeightOf(o, rows, H!Below(o, rows, k + 1)) * H!Norm(o, h)
           counts == /\ \A k \in 0..(n - 1) :
                          /\ h.freq[k] = Cardinality(in(k))
                          /\ o.w => h.wfreq[k] = H!WeightOf(o, rows, in(k))
                     /\ h.uflow = Cardinality(under)
                     /\ h.oflow = Cardinality(over)
<1>7. counts /\ (\A k \in 0..(n - 1) : columns(k)) => H!HistogramRight(o, rows)
  BY HistogramCardinality DEF H!HistogramRight, H!Fills
<1>8. counts
  BY <1>5
<1>9. \A k \in 0..(n - 1) : columns(k)
  BY <1>6
<1> HIDE DEF counts, columns, n
<1> QED
  BY <1>7, <1>8, <1>9

----------------------------------------------------------------------------
(* elf-ldd.pl                                                              *)

LEMMA LddCardinality == \A S : Ldd!Cardinality(S) = Cardinality(S)
BY DEF Ldd!Cardinality, Cardinality

\* What is in one sequence behind another.
LEMMA ElementsOfTwo ==
  ASSUME NEW T, NEW a \in Seq(T), NEW b \in Seq(T)
  PROVE  /\ a \o b \in Seq(T)
         /\ Ldd!Elements(a \o b) = Ldd!Elements(a) \cup Ldd!Elements(b)
<1> DEFINE c == a \o b
           M == Len(a)
           N == Len(b)
<1>1. c \in Seq(T) /\ Len(c) = M + N /\ M \in Nat /\ N \in Nat
  BY ConcatProperties
<1>2. \A k \in 1..(M + N) : c[k] = IF k <= M THEN a[k] ELSE b[k - M]
  BY ConcatProperties
<1>3. DOMAIN a = 1..M /\ DOMAIN b = 1..N /\ DOMAIN c = 1..(M + N)
  BY <1>1
<1> HIDE DEF c, M, N
<1>4. \A k \in 1..M : k \in 1..(M + N) /\ c[k] = a[k]
  BY <1>1, <1>2
<1>5. \A k \in 1..N : k + M \in 1..(M + N) /\ c[k + M] = b[k]
  <2> SUFFICES ASSUME NEW k \in 1..N PROVE k + M \in 1..(M + N) /\ c[k + M] = b[k]
    OBVIOUS
  <2>1. k + M \in 1..(M + N) /\ ~(k + M <= M) /\ (k + M) - M = k
    BY <1>1
  <2> QED
    BY <1>2, <2>1
<1>6. \A k \in 1..(M + N) : (k \in 1..M /\ c[k] = a[k]) \/ (k - M \in 1..N /\ c[k] = b[k - M])
  <2> SUFFICES ASSUME NEW k \in 1..(M + N)
               PROVE  (k \in 1..M /\ c[k] = a[k]) \/ (k - M \in 1..N /\ c[k] = b[k - M])
    OBVIOUS
  <2>1. CASE k <= M
    <3>1. k \in 1..M
      BY <1>1, <2>1
    <3> QED
      BY <1>2, <2>1, <3>1
  <2>2. CASE ~(k <= M)
    <3>1. k - M \in 1..N
      BY <1>1, <2>2
    <3> QED
      BY <1>2, <2>2, <3>1
  <2> QED
    BY <2>1, <2>2
<1>7. Ldd!Elements(c) = Ldd!Elements(a) \cup Ldd!Elements(b)
  BY <1>3, <1>4, <1>5, <1>6 DEF Ldd!Elements
<1> QED
  BY <1>1, <1>7 DEF c

\* Joined is what its definition says, piece by piece.
LEMMA JoinedRounds ==
  ASSUME NEW T, NEW outs \in Seq(Seq(T))
  PROVE  \E all \in [0..Len(outs) -> Seq(T)] :
           /\ Ldd!Joined(outs) = all[Len(outs)] /\ all[0] = << >>
           /\ \A n \in 1..Len(outs) : all[n] = all[n - 1] \o outs[n]
<1> DEFINE N == Len(outs)
           S == Seq(T)
           step == [x \in (1..N) \X S |-> x[2] \o outs[x[1]]]
           Is(s) == s = [n \in 0..N |-> IF n = 0 THEN << >> ELSE s[n - 1] \o outs[n]]
           all == CHOOSE s : Is(s)
<1>1. N \in Nat /\ \A n \in 1..N : outs[n] \in S
  OBVIOUS
<1>a. /\ 0 \in 0..N /\ N \in 0..N /\ \A n \in 0..N : n = 0 \/ n \in 1..N
      /\ \A n \in 1..N : n # 0 /\ n \in 0..N /\ n - 1 \in 0..N
  <2> HIDE DEF N
  <2> QED
    BY <1>1
<1>2. step \in [(1..N) \X S -> S]
  <2>1. \A a, b \in S : a \o b \in S
    BY ConcatProperties
  <2> HIDE DEF N, S
  <2> QED
    BY <1>1, <2>1
<1>3. << >> \in S
  OBVIOUS
<1>4. PICK f : IsLoop(f, N, S, << >>, step)
  <2> HIDE DEF N, S, step
  <2> QED
    BY <1>1, <1>2, <1>3, Loop
<1>5. f \in [0..N -> S] /\ f[0] = << >>
  BY <1>4 DEF IsLoop
<1>6. ASSUME NEW n \in 1..N PROVE f[n] = f[n - 1] \o outs[n]
  <2>1. f[n] = step[<<n, f[n - 1]>>]
    <3> HIDE DEF step
    <3> QED
      BY <1>4 DEF IsLoop
  <2>2. <<n, f[n - 1]>> \in (1..N) \X S
    <3> HIDE DEF N, S
    <3> QED
      BY <1>a, <1>5
  <2> QED
    BY <2>1, <2>2
<1>7. Is(f)
  <2> HIDE DEF N, S
  <2>1. \A n \in 0..N : f[n] = IF n = 0 THEN << >> ELSE f[n - 1] \o outs[n]
    BY <1>a, <1>5, <1>6
  <2> QED
    BY <1>5, <2>1
<1>8. Is(all)
  <2> HIDE DEF Is
  <2> QED
    BY <1>7
<1>9. Ldd!Joined(outs) = all[N]
  BY DEF Ldd!Joined
<1> HIDE DEF all
<1>10. all = [n \in 0..N |-> all[n]] /\ all[0] = << >>
       /\ \A n \in 1..N : all[n] = all[n - 1] \o outs[n]
  <2> HIDE DEF N, S
  <2>1. all = [n \in 0..N |-> IF n = 0 THEN << >> ELSE all[n - 1] \o outs[n]]
    BY <1>8
  <2> HIDE <1>8
  <2>2. \A n \in 0..N : all[n] = IF n = 0 THEN << >> ELSE all[n - 1] \o outs[n]
    BY <2>1
  <2>3. all = [n \in 0..N |-> all[n]]
    BY <2>1, <2>2
  <2> QED
    BY <1>a, <2>2, <2>3
<1> DEFINE P == {n \in 0..N : all[n] \in S}
<1>11. 0 \in P /\ \A n \in 1..N : n - 1 \in P => n \in P
  <2>1. 0 \in P
    BY <1>a, <1>3, <1>10
  <2>2. ASSUME NEW n \in 1..N, n - 1 \in P PROVE n \in P
    <3>1. all[n - 1] \o outs[n] \in S
      BY <1>1, <2>2, ConcatProperties
    <3> HIDE DEF S
    <3> QED
      BY <1>a, <1>10, <3>1
  <2> QED
    BY <2>1, <2>2
<1>12. \A n \in 0..N : n \in P
  <2> HIDE DEF P
  <2> QED
    BY <1>1, <1>11, Induction
<1>13. all \in [0..N -> S]
  BY <1>10, <1>12
<1> QED
  BY <1>9, <1>10, <1>13

\* What is in sequences that are joined.
LEMMA JoinedIs ==
  ASSUME NEW T, NEW outs \in Seq(Seq(T))
  PROVE  /\ Ldd!Joined(outs) \in Seq(T)
         /\ \A x : x \in Ldd!Elements(Ldd!Joined(outs)) <=>
                     \E k \in DOMAIN outs : x \in Ldd!Elements(outs[k])
<1> DEFINE N == Len(outs)
<1>1. PICK all \in [0..N -> Seq(T)] :
        /\ Ldd!Joined(outs) = all[N] /\ all[0] = << >>
        /\ \A n \in 1..N : all[n] = all[n - 1] \o outs[n]
  BY JoinedRounds
<1>2. N \in Nat /\ DOMAIN outs = 1..N /\ \A n \in 1..N : outs[n] \in Seq(T)
  OBVIOUS
<1> HIDE DEF N
<1> DEFINE P == {n \in 0..N : \A x : x \in Ldd!Elements(all[n]) <=>
                                     \E k \in 1..n : x \in Ldd!Elements(outs[k])}
<1>3. 0 \in P
  <2>1. Ldd!Elements(<< >>) = {} /\ 1..0 = {}
    BY DEF Ldd!Elements
  <2> QED
    BY <1>1, <1>2, <2>1
<1>4. ASSUME NEW n \in 1..N, n - 1 \in P PROVE n \in P
  <2>1. n - 1 \in 0..N /\ n \in 0..N /\ 1..n = 1..(n - 1) \cup {n}
    BY <1>2
  <2>2. Ldd!Elements(all[n]) = Ldd!Elements(all[n - 1]) \cup Ldd!Elements(outs[n])
    <3>1. all[n - 1] \in Seq(T) /\ outs[n] \in Seq(T) /\ all[n] = all[n - 1] \o outs[n]
      BY <1>1, <1>2, <2>1
    <3> QED
      BY <3>1, ElementsOfTwo
  <2> QED
    BY <1>4, <2>1, <2>2
<1>5. \A n \in 0..N : n \in P
  <2> HIDE DEF P
  <2> QED
    BY <1>2, <1>3, <1>4, Induction
<1>6. N \in P
  <2> HIDE DEF P
  <2> QED
    BY <1>2, <1>5
<1> QED
  BY <1>1, <1>2, <1>6

----------------------------------------------------------------------------

\* A set grows round by round within a finite one.
Grows(U, N, step, f) ==
  /\ IsFiniteSet(U) /\ N = Cardinality(U)
  /\ step \in [SUBSET U -> SUBSET U] /\ f \in [0..N -> SUBSET U]
  /\ \A n \in 1..N : f[n] = step[f[n - 1]] /\ f[n - 1] \subseteq f[n]
  /\ f[N] \subseteq step[f[N]]

\* It stands still after as many rounds as that has elements.
LEMMA Saturates ==
  ASSUME NEW U, NEW N, NEW step, NEW f, Grows(U, N, step, f)
  PROVE  step[f[N]] = f[N]
<1> USE DEF Grows
<1>1. N \in Nat
  BY FS_CardinalityType
<1> DEFINE P == {n \in 0..N : Cardinality(f[n]) >= n \/ step[f[n]] = f[n]}
<1>2. \A n \in 0..N : IsFiniteSet(f[n]) /\ Cardinality(f[n]) \in Nat
  <2>1. \A n \in 0..N : f[n] \subseteq U
    OBVIOUS
  <2> QED
    BY <2>1, FS_Subset, FS_CardinalityType
<1>3. 0 \in P
  BY <1>1, <1>2
<1>4. ASSUME NEW n \in 1..N, n - 1 \in P PROVE n \in P
  <2>1. n - 1 \in 0..N /\ n \in 0..N
    BY <1>1
  <2>2. f[n] = step[f[n - 1]] /\ f[n - 1] \subseteq f[n]
    OBVIOUS
  <2>3. CASE f[n] = f[n - 1]
    BY <2>1, <2>2, <2>3
  <2>4. CASE f[n] # f[n - 1]
    <3>1. Cardinality(f[n - 1]) >= n - 1
      BY <1>4, <2>2, <2>4
    <3>2. Cardinality(f[n - 1]) < Cardinality(f[n])
      BY <1>2, <2>1, <2>2, <2>4, FS_Subset
    <3>3. Cardinality(f[n]) >= n
      BY <1>2, <2>1, <3>1, <3>2
    <3> QED
      BY <2>1, <3>3
  <2> QED
    BY <2>3, <2>4
<1>5. \A n \in 0..N : n \in P
  <2> HIDE DEF P
  <2> QED
    BY <1>1, <1>3, <1>4, Induction
<1>6. N \in P
  <2> HIDE DEF P
  <2> QED
    BY <1>1, <1>5
<1>7. CASE step[f[N]] = f[N]
  BY <1>7
<1>8. CASE step[f[N]] # f[N]
  <2>1. Cardinality(f[N]) >= N /\ f[N] \subseteq U
    BY <1>1, <1>6, <1>8
  <2>2. f[N] = U
    <3>1. Cardinality(f[N]) \in Nat
      BY <1>1, <1>2
    <3> DEFINE A == f[N]
    <3>2. A \in SUBSET U /\ Cardinality(A) <= N
      BY <2>1, FS_Subset
    <3>3. Cardinality(A) = N
      BY <1>1, <2>1, <3>1, <3>2
    <3> HIDE DEF A
    <3>4. A = U
      BY <3>2, <3>3, FS_Subset
    <3> QED
      BY <3>4 DEF A
  <2>3. step[U] \subseteq U
    OBVIOUS
  <2> QED
    BY <2>2, <2>3
<1> QED
  BY <1>7, <1>8

\* The files that a file leads to are names.
LEMMA DependsAre ==
  ASSUME NEW s, IsSystem(s), NEW lib \in Ldd!Names(s)
  PROVE  /\ Ldd!GetDepends(s, lib) \in Seq(Ldd!Names(s))
         /\ Ldd!Elements(Ldd!GetDepends(s, lib)) \subseteq Ldd!Names(s)
         /\ lib \in s.here => Ldd!GetDepends(s, lib) = s.needed[lib]
         /\ lib \notin s.here => Ldd!Elements(Ldd!GetDepends(s, lib)) = {}
<1> DEFINE deps == Ldd!GetDepends(s, lib)
           names == Ldd!Names(s)
<1>1. s.needed[lib] \in Seq(names)
  BY DEF IsSystem, Ldd!Names
<1>2. deps = IF lib \in s.here THEN s.needed[lib] ELSE << >>
  BY DEF Ldd!GetDepends
<1> HIDE DEF deps, names
<1>3. deps \in Seq(names)
  BY <1>1, <1>2
<1>4. \A k \in DOMAIN deps : deps[k] \in names
  BY <1>3
<1>5. Ldd!Elements(<< >>) = {}
  BY DEF Ldd!Elements
<1> QED
  BY <1>2, <1>3, <1>4, <1>5 DEF deps, names, Ldd!Elements

\* What is needed has a name.
LEMMA NeedsAre ==
  ASSUME NEW s, IsSystem(s), NEW f \in Ldd!Names(s)
  PROVE  Ldd!Elements(s.needed[f]) \subseteq Ldd!Names(s)
<1> DEFINE names == Ldd!Names(s)
           deps == s.needed[f]
<1>1. deps \in Seq(names)
  BY DEF IsSystem, Ldd!Names
<1> HIDE DEF deps, names
<1>2. \A k \in DOMAIN deps : deps[k] \in names
  BY <1>1
<1> QED
  BY <1>2 DEF deps, names, Ldd!Elements

\* Where whatever needs something is seen, objdump gets to read all of it.
LEMMA SeenDependsAre ==
  ASSUME NEW s, IsSystem(s), Ldd!NeedySeen(s), NEW lib \in Ldd!Names(s)
  PROVE  LET deps == Ldd!Elements(Ldd!GetDepends(s, lib)) IN
         /\ deps \subseteq Ldd!Names(s)
         /\ lib \in s.here \cup s.found => deps = Ldd!Elements(s.needed[lib])
         /\ lib \notin s.here \cup s.found => deps = {}
<1>1. lib \in s.found \ s.here => s.needed[lib] = << >>
  BY DEF Ldd!NeedySeen
<1>2. Ldd!Elements(<< >>) = {}
  BY DEF Ldd!Elements
<1> QED
  BY <1>1, <1>2, DependsAre DEF Ldd!GetDepends

\* How deep the recursion can get is a number.
LEMMA DepthIs ==
  ASSUME NEW s, IsSystem(s)
  PROVE  /\ IsFiniteSet(Ldd!Names(s)) /\ Ldd!Depth(s) = Cardinality(Ldd!Names(s))
         /\ Ldd!Depth(s) \in Nat
<1>1. IsFiniteSet(Ldd!Names(s))
  BY DEF IsSystem, Ldd!Names
<1>2. Ldd!Depth(s) = Cardinality(Ldd!Names(s))
  BY LddCardinality DEF Ldd!Depth
<1> QED
  BY <1>1, <1>2, FS_CardinalityType

\* The names that lead on into a set.
Into(s, A) == {lib \in Ldd!Names(s) : Ldd!Elements(Ldd!GetDepends(s, lib)) \cap A # {}}

\* Deep and Net are what their definitions say, round by round.
LEMMA DeepRounds ==
  ASSUME NEW s, IsSystem(s)
  PROVE  LET d == Ldd!Deep(s) IN
         /\ d \in [0..Ldd!Depth(s) -> SUBSET Ldd!Names(s)]
         /\ d[0] = Ldd!Names(s)
         /\ \A n \in 1..Ldd!Depth(s) : d[n] = Into(s, d[n - 1])
<1> DEFINE N == Ldd!Depth(s)
           U == Ldd!Names(s)
           S == SUBSET U
           step == [x \in (1..N) \X S |-> Into(s, x[2])]
           Is(d) == d = [n \in 0..N |-> IF n = 0 THEN U ELSE Into(s, d[n - 1])]
           d == CHOOSE e : Is(e)
<1>1. N \in Nat
  BY DepthIs
<1>2. Ldd!Deep(s) = d
  BY DEF Ldd!Deep, Into
<1>3. step \in [(1..N) \X S -> S] /\ \A A : Into(s, A) \in S
  BY DEF Into
<1> HIDE DEF U, N
<1>4. /\ 0 \in 0..N /\ N \in 0..N /\ \A n \in 0..N : n = 0 \/ n \in 1..N
      /\ \A n \in 1..N : n # 0 /\ n \in 0..N /\ n - 1 \in 0..N
  BY <1>1
<1>5. PICK f : IsLoop(f, N, S, U, step)
  <2> HIDE DEF S, step
  <2>1. U \in S
    BY DEF S
  <2> QED
    BY <1>1, <1>3, <2>1, Loop
<1>6. f \in [0..N -> S] /\ f[0] = U
  BY <1>5 DEF IsLoop
<1>7. ASSUME NEW n \in 1..N PROVE f[n] = Into(s, f[n - 1])
  <2>1. f[n] = step[<<n, f[n - 1]>>]
    <3> HIDE DEF step
    <3> QED
      BY <1>5 DEF IsLoop
  <2>2. <<n, f[n - 1]>> \in (1..N) \X S
    <3> HIDE DEF S
    <3> QED
      BY <1>4, <1>6
  <2> QED
    BY <2>1, <2>2
<1>8. Is(f)
  <2> HIDE DEF S
  <2>1. \A n \in 0..N : f[n] = IF n = 0 THEN U ELSE Into(s, f[n - 1])
    BY <1>4, <1>6, <1>7
  <2> QED
    BY <1>6, <2>1
<1>9. Is(d)
  <2> HIDE DEF Is
  <2> QED
    BY <1>8
<1> HIDE DEF d
<1>10. /\ d = [n \in 0..N |-> d[n]]
       /\ \A n \in 0..N : d[n] = IF n = 0 THEN U ELSE Into(s, d[n - 1])
  BY <1>9
<1> HIDE <1>9
<1>11. \A n \in 0..N : d[n] \in S
  BY <1>3, <1>10
<1>12. d \in [0..N -> S] /\ d[0] = U /\ \A n \in 1..N : d[n] = Into(s, d[n - 1])
  <2> HIDE DEF S
  <2> QED
    BY <1>4, <1>10, <1>11
<1> QED
  BY <1>2, <1>12 DEF N, U

LEMMA NetRounds ==
  ASSUME NEW s, IsSystem(s), NEW lib \in Ldd!Names(s)
  PROVE  LET d == Ldd!Net(s, lib) IN
         /\ d \in [0..Ldd!Depth(s) -> SUBSET Ldd!Names(s)]
         /\ d[0] = {lib}
         /\ \A n \in 1..Ldd!Depth(s) : d[n] = Ldd!Spread(s, d[n - 1])
<1> DEFINE N == Ldd!Depth(s)
           U == Ldd!Names(s)
           S == SUBSET U
           step == [x \in (1..N) \X S |-> Ldd!Spread(s, x[2])]
           Is(d) == d = [n \in 0..N |-> IF n = 0 THEN {lib} ELSE Ldd!Spread(s, d[n - 1])]
           d == CHOOSE e : Is(e)
<1>1. N \in Nat
  BY DepthIs
<1>2. Ldd!Net(s, lib) = d
  BY DEF Ldd!Net
<1>3. \A A \in S : Ldd!Spread(s, A) \in S
  <2>1. \A f \in U : Ldd!Elements(s.needed[f]) \subseteq U
    BY NeedsAre
  <2> QED
    BY <2>1 DEF Ldd!Spread
<1> HIDE DEF U, N
<1>4. /\ 0 \in 0..N /\ N \in 0..N /\ \A n \in 0..N : n = 0 \/ n \in 1..N
      /\ \A n \in 1..N : n # 0 /\ n \in 0..N /\ n - 1 \in 0..N
  BY <1>1
<1>5. PICK f : IsLoop(f, N, S, {lib}, step)
  <2>1. {lib} \in S
    BY DEF U
  <2>2. step \in [(1..N) \X S -> S]
    <3> HIDE DEF S
    <3> QED
      BY <1>3
  <2> HIDE DEF S, step
  <2> QED
    BY <1>1, <2>1, <2>2, Loop
<1>6. f \in [0..N -> S] /\ f[0] = {lib}
  BY <1>5 DEF IsLoop
<1>7. ASSUME NEW n \in 1..N PROVE f[n] = Ldd!Spread(s, f[n - 1])
  <2>1. f[n] = step[<<n, f[n - 1]>>]
    <3> HIDE DEF step
    <3> QED
      BY <1>5 DEF IsLoop
  <2>2. <<n, f[n - 1]>> \in (1..N) \X S
    <3> HIDE DEF S
    <3> QED
      BY <1>4, <1>6
  <2> QED
    BY <2>1, <2>2
<1>8. Is(f)
  <2> HIDE DEF S
  <2>1. \A n \in 0..N : f[n] = IF n = 0 THEN {lib} ELSE Ldd!Spread(s, f[n - 1])
    BY <1>4, <1>6, <1>7
  <2> QED
    BY <1>6, <2>1
<1>9. Is(d)
  <2> HIDE DEF Is
  <2> QED
    BY <1>8
<1> HIDE DEF d
<1>10. /\ d = [n \in 0..N |-> d[n]]
       /\ \A n \in 0..N : d[n] = IF n = 0 THEN {lib} ELSE Ldd!Spread(s, d[n - 1])
  BY <1>9
<1> HIDE <1>9
<1> DEFINE P == {n \in 0..N : d[n] \in S}
<1>11. 0 \in P /\ \A n \in 1..N : n - 1 \in P => n \in P
  <2>1. {lib} \in S
    BY DEF U
  <2> HIDE DEF S
  <2> QED
    BY <1>3, <1>4, <1>10, <2>1
<1>12. \A n \in 0..N : n \in P
  <2> HIDE DEF P
  <2> QED
    BY <1>1, <1>11, Induction
<1>13. d \in [0..N -> S] /\ d[0] = {lib} /\ \A n \in 1..N : d[n] = Ldd!Spread(s, d[n - 1])
  <2> HIDE DEF S
  <2> QED
    BY <1>4, <1>10, <1>12
<1> QED
  BY <1>2, <1>13 DEF N, U

----------------------------------------------------------------------------

\* A set of names is closed if those it can be left to are in it.
Closed(s, A) == \A f \in A \cap (s.here \cup s.found) : Ldd!Elements(s.needed[f]) \subseteq A

\* Reached is the smallest closed set with lib in it.
LEMMA ReachedIs ==
  ASSUME NEW s, IsSystem(s), NEW lib \in Ldd!Names(s)
  PROVE  LET A == Ldd!Reached(s, lib) IN
         /\ A \in SUBSET Ldd!Names(s) /\ lib \in A /\ Closed(s, A)
         /\ \A B : lib \in B /\ Closed(s, B) => A \subseteq B
<1> DEFINE N == Ldd!Depth(s)
           U == Ldd!Names(s)
           d == Ldd!Net(s, lib)
           step == [A \in SUBSET U |-> Ldd!Spread(s, A)]
<1>1. /\ d \in [0..N -> SUBSET U] /\ d[0] = {lib}
      /\ \A n \in 1..N : d[n] = Ldd!Spread(s, d[n - 1])
  BY NetRounds
<1>2. N \in Nat /\ N = Cardinality(U) /\ IsFiniteSet(U)
  BY DepthIs
<1>3. /\ \A A : A \subseteq Ldd!Spread(s, A)
      /\ \A A : Ldd!Spread(s, A) = A => Closed(s, A)
      /\ \A A, B : A \subseteq B /\ Closed(s, B) => Ldd!Spread(s, A) \subseteq B
  BY DEF Ldd!Spread, Closed
<1>4. \A A \in SUBSET U : Ldd!Spread(s, A) \in SUBSET U
  <2>1. \A f \in U : Ldd!Elements(s.needed[f]) \subseteq U
    BY NeedsAre
  <2> QED
    BY <2>1 DEF Ldd!Spread
<1>5. Ldd!Reached(s, lib) = d[N]
  BY DEF Ldd!Reached
<1> HIDE DEF N, U, d
<1>6. /\ 0 \in 0..N /\ N \in 0..N
      /\ \A n \in 1..N : n \in 0..N /\ n - 1 \in 0..N
  BY <1>2
<1>7. step \in [SUBSET U -> SUBSET U]
  BY <1>4
<1>8. \A n \in 1..N : d[n] = step[d[n - 1]] /\ d[n - 1] \subseteq d[n]
  BY <1>1, <1>3, <1>6
<1>9. d[N] \in SUBSET U /\ step[d[N]] = Ldd!Spread(s, d[N])
  BY <1>1, <1>6
<1>10. Ldd!Spread(s, d[N]) = d[N]
  <2>1. d[N] \subseteq step[d[N]]
    BY <1>3, <1>9
  <2> HIDE DEF step
  <2>2. Grows(U, N, step, d)
    BY <1>1, <1>2, <1>7, <1>8, <2>1 DEF Grows
  <2>3. step[d[N]] = d[N]
    BY <2>2, Saturates
  <2> QED
    BY <1>9, <2>3
<1>11. ASSUME NEW B, lib \in B, Closed(s, B) PROVE \A n \in 0..N : d[n] \subseteq B
  <2> DEFINE P == {n \in 0..N : d[n] \subseteq B}
  <2>1. 0 \in P
    BY <1>1, <1>6, <1>11
  <2>2. ASSUME NEW n \in 1..N, n - 1 \in P PROVE n \in P
    <3>1. d[n] \subseteq B
      BY <1>1, <1>3, <1>11, <2>2
    <3> QED
      BY <1>6, <3>1
  <2>3. \A n \in 0..N : n \in P
    <3> HIDE DEF P
    <3> QED
      BY <1>2, <2>1, <2>2, Induction
  <2> QED
    BY <2>3
<1>12. {lib} \subseteq d[N]
  <2> DEFINE P == {n \in 0..N : lib \in d[n]}
  <2>1. 0 \in P
    BY <1>1, <1>6
  <2>2. ASSUME NEW n \in 1..N, n - 1 \in P PROVE n \in P
    BY <1>6, <1>8, <2>2
  <2>3. \A n \in 0..N : n \in P
    <3> HIDE DEF P
    <3> QED
      BY <1>2, <2>1, <2>2, Induction
  <2> QED
    BY <1>6, <2>3
<1>13. \A B : lib \in B /\ Closed(s, B) => d[N] \subseteq B
  BY <1>6, <1>11
<1>14. Closed(s, d[N])
  BY <1>3, <1>10
<1> QED
  BY <1>5, <1>9, <1>12, <1>13, <1>14 DEF U

\* What lib leads to is lib itself and what those that it needs lead to.
LEMMA ReachedSplit ==
  ASSUME NEW s, IsSystem(s), Ldd!NeedySeen(s), NEW lib \in Ldd!Names(s), NEW f
  PROVE  f \in Ldd!Reached(s, lib) <=>
           f = lib \/ \E i \in Ldd!Elements(Ldd!GetDepends(s, lib)) : f \in Ldd!Reached(s, i)
<1> DEFINE deps == Ldd!Elements(Ldd!GetDepends(s, lib))
           R1(i) == Ldd!Reached(s, i)
           B == {lib} \cup UNION {R1(i) : i \in deps}
<1>1. /\ deps \subseteq Ldd!Names(s)
      /\ lib \in s.here \cup s.found => deps = Ldd!Elements(s.needed[lib])
      /\ lib \notin s.here \cup s.found => deps = {}
  BY SeenDependsAre
<1> HIDE DEF deps
<1>2. lib \in R1(lib) /\ Closed(s, R1(lib)) /\ \A C : lib \in C
        /\ Closed(s, C) => R1(lib) \subseteq C
  BY ReachedIs
<1>3. \A i \in deps : /\ i \in R1(i) /\ Closed(s, R1(i))
                      /\ \A C : i \in C /\ Closed(s, C) => R1(i) \subseteq C
  BY <1>1, ReachedIs
<1> HIDE DEF R1
<1>4. Closed(s, B)
  BY <1>1, <1>3 DEF Closed
<1>5. R1(lib) \subseteq B
  BY <1>2, <1>4
<1>6. deps \subseteq R1(lib)
  BY <1>1, <1>2 DEF Closed
<1>7. B \subseteq R1(lib)
  BY <1>2, <1>3, <1>6
<1>8. f \in R1(lib) <=> f = lib \/ \E i \in deps : f \in R1(i)
  BY <1>5, <1>7
<1> QED
  BY <1>8 DEF R1, deps

\* What can be reached from a name that can be reached can be reached.
LEMMA ReachedOn ==
  ASSUME NEW s, IsSystem(s), NEW lib \in Ldd!Names(s), NEW f \in Ldd!Reached(s, lib)
  PROVE  f \in Ldd!Names(s) /\ Ldd!Reached(s, f) \subseteq Ldd!Reached(s, lib)
<1>1. f \in Ldd!Names(s) /\ Closed(s, Ldd!Reached(s, lib))
  BY ReachedIs
<1> QED
  BY <1>1, ReachedIs

\* The names with an endless way are the largest set each of which leads on
\* into it.
LEMMA DeepIs ==
  ASSUME NEW s, IsSystem(s)
  PROVE  LET A == Ldd!Deep(s)[Ldd!Depth(s)] IN
         /\ A \in SUBSET Ldd!Names(s) /\ A = Into(s, A)
         /\ \A B : B \subseteq Into(s, B) => B \subseteq A
<1> DEFINE N == Ldd!Depth(s)
           U == Ldd!Names(s)
           d == Ldd!Deep(s)
           f == [n \in 0..N |-> U \ d[n]]
           step == [A \in SUBSET U |-> U \ Into(s, U \ A)]
<1>1. /\ d \in [0..N -> SUBSET U] /\ d[0] = U /\ \A n \in 1..N : d[n] = Into(s, d[n - 1])
  BY DeepRounds
<1>2. N \in Nat /\ N = Cardinality(U) /\ IsFiniteSet(U)
  BY DepthIs
<1>3. /\ \A A, B : A \subseteq B => Into(s, A) \subseteq Into(s, B)
      /\ \A A : Into(s, A) \subseteq U
  BY DEF Into
<1> HIDE DEF N, U, d
<1>4. /\ 0 \in 0..N /\ N \in 0..N
      /\ \A n \in 1..N : n \in 0..N /\ n - 1 \in 0..N
      /\ \A n \in 1..N : n = 1 \/ n - 1 \in 1..N
  BY <1>2
<1>5. /\ step \in [SUBSET U -> SUBSET U] /\ f \in [0..N -> SUBSET U]
      /\ \A n \in 0..N : d[n] \subseteq U /\ U \ f[n] = d[n] /\ f[n] = U \ d[n]
      /\ \A n \in 0..N : step[f[n]] = U \ Into(s, d[n])
  BY <1>1
<1> HIDE DEF f, step
<1>6. \A n \in 1..N : f[n] = step[f[n - 1]]
  BY <1>1, <1>4, <1>5
<1> DEFINE P == {n \in 0..N : Into(s, d[n]) \subseteq d[n]}
<1>7. \A n \in 0..N : n \in P
  <2>1. 0 \in P
    BY <1>1, <1>3, <1>4
  <2>2. ASSUME NEW n \in 1..N, n - 1 \in P PROVE n \in P
    <3>1. d[n] = Into(s, d[n - 1]) /\ Into(s, d[n - 1]) \subseteq d[n - 1]
      BY <1>1, <2>2
    <3>2. Into(s, d[n]) \subseteq Into(s, d[n - 1])
      BY <1>3, <3>1
    <3> QED
      BY <1>4, <3>1, <3>2
  <2> HIDE DEF P
  <2> QED
    BY <1>2, <2>1, <2>2, Induction
<1>8. \A n \in 1..N : f[n - 1] \subseteq f[n]
  BY <1>1, <1>4, <1>5, <1>7
<1>9. f[N] \subseteq step[f[N]]
  BY <1>4, <1>5, <1>7
<1>10. step[f[N]] = f[N]
  <2>1. Grows(U, N, step, f)
    BY <1>2, <1>5, <1>6, <1>8, <1>9 DEF Grows
  <2> QED
    BY <2>1, Saturates
<1>11. d[N] = Into(s, d[N])
  <2>1. U \ Into(s, d[N]) = U \ d[N]
    BY <1>4, <1>5, <1>10
  <2>2. Into(s, d[N]) \subseteq U /\ d[N] \subseteq U
    BY <1>3, <1>4, <1>5
  <2> QED
    BY <2>1, <2>2
<1>12. ASSUME NEW B, B \subseteq Into(s, B) PROVE B \subseteq d[N]
  <2> DEFINE Q == {n \in 0..N : B \subseteq d[n]}
  <2>1. 0 \in Q
    BY <1>1, <1>3, <1>4, <1>12
  <2>2. ASSUME NEW n \in 1..N, n - 1 \in Q PROVE n \in Q
    <3>1. d[n] = Into(s, d[n - 1]) /\ B \subseteq d[n - 1]
      BY <1>1, <2>2
    <3>2. Into(s, B) \subseteq d[n]
      BY <1>3, <3>1
    <3> QED
      BY <1>4, <1>12, <3>2
  <2>3. \A n \in 0..N : n \in Q
    <3> HIDE DEF Q
    <3> QED
      BY <1>2, <2>1, <2>2, Induction
  <2> QED
    BY <1>4, <2>3
<1>13. d[N] \in SUBSET U
  BY <1>4, <1>5
<1> QED
  BY <1>11, <1>12, <1>13 DEF d, N, U

----------------------------------------------------------------------------

\* The recursion ends unless it meets a cycle: from a name with an endless
\* way one comes to one that leads to the fewest, which leads back to itself.
LEMMA EndlessIs ==
  ASSUME NEW s, IsSystem(s), Ldd!NeedySeen(s), NEW lib \in Ldd!Names(s)
  PROVE  Ldd!Unfinished(s, lib) <=> \E f \in Ldd!Reached(s, lib) : Ldd!OnCycle(s, f)
<1> DEFINE A == Ldd!Deep(s)[Ldd!Depth(s)]
           U == Ldd!Names(s)
           deps(f) == Ldd!Elements(Ldd!GetDepends(s, f))
           R1(f) == Ldd!Reached(s, f)
<1>1. A \in SUBSET U /\ A = Into(s, A) /\ \A B : B \subseteq Into(s, B) => B \subseteq A
  BY DeepIs
<1>2. Ldd!Unfinished(s, lib) <=> lib \in A
  BY DEF Ldd!Unfinished
<1>3. \A B, f : f \in Into(s, B) <=> f \in U /\ \E i \in deps(f) : i \in B
  BY DEF Into
<1>4. \A f \in U : /\ deps(f) \subseteq U
                   /\ f \in s.here \cup s.found => deps(f) = Ldd!Elements(s.needed[f])
                   /\ f \notin s.here \cup s.found => deps(f) = {}
  BY SeenDependsAre
<1>5. \A f \in U : Ldd!OnCycle(s, f) <=> \E i \in deps(f) : f \in R1(i)
  BY <1>4 DEF Ldd!OnCycle
<1>6. \A f \in U : \A g : g \in R1(f) <=> g = f \/ \E i \in deps(f) : g \in R1(i)
  BY ReachedSplit
<1>7. \A f \in U : f \in R1(f) /\ R1(f) \subseteq U /\ \A g \in R1(f) : R1(g) \subseteq R1(f)
  BY ReachedIs, ReachedOn
<1> HIDE DEF A, deps, R1, U
<1>8. ASSUME lib \in A PROVE \E f \in R1(lib) : Ldd!OnCycle(s, f)
  <2> DEFINE sizes == {Cardinality(R1(f)) : f \in R1(lib) \cap A}
  <2>1. lib \in U /\ lib \in R1(lib)
    BY <1>7 DEF U
  <2>2. \A f \in U : IsFiniteSet(R1(f)) /\ Cardinality(R1(f)) \in Nat
    <3>1. IsFiniteSet(U)
      BY DepthIs DEF U
    <3> QED
      BY <1>7, <3>1, FS_Subset, FS_CardinalityType
  <2>3. sizes \in SUBSET Nat /\ sizes # {}
    BY <1>1, <1>8, <2>1, <2>2
  <2>4. PICK m \in sizes : \A n \in sizes : m <= n
    <3> HIDE DEF sizes
    <3> QED
      BY <2>3, Smallest
  <2>5. PICK f \in R1(lib) \cap A : m = Cardinality(R1(f))
    BY <2>4
  <2>6. f \in U
    BY <1>1, <2>5
  <2>7. PICK i \in deps(f) : i \in A
    BY <1>1, <1>3, <2>5
  <2>8. i \in U /\ R1(i) \subseteq R1(f) /\ i \in R1(lib)
    <3>1. i \in U
      BY <1>1, <2>7
    <3>2. i \in R1(f)
      BY <1>6, <1>7, <2>6, <2>7, <3>1
    <3> QED
      BY <1>7, <2>1, <2>5, <2>6, <3>1, <3>2
  <2>9. m <= Cardinality(R1(i))
    BY <2>4, <2>7, <2>8
  <2>10. R1(i) = R1(f)
    <3> DEFINE T == R1(i)
               V == R1(f)
    <3>1. T \in SUBSET V /\ IsFiniteSet(V) /\ Cardinality(V) = m
          /\ Cardinality(T) \in Nat /\ Cardinality(V) \in Nat /\ m <= Cardinality(T)
      BY <2>2, <2>5, <2>6, <2>8, <2>9
    <3> HIDE DEF T, V
    <3>2. Cardinality(T) <= Cardinality(V)
      BY <3>1, FS_Subset
    <3>3. Cardinality(T) = Cardinality(V)
      BY <3>1, <3>2
    <3>4. T = V
      BY <3>1, <3>3, FS_Subset
    <3> QED
      BY <3>4 DEF T, V
  <2>11. f \in R1(i)
    BY <1>7, <2>6, <2>10
  <2>12. Ldd!OnCycle(s, f)
    BY <1>5, <2>6, <2>7, <2>11
  <2> QED
    BY <2>5, <2>12
<1>9. ASSUME NEW f \in R1(lib), Ldd!OnCycle(s, f) PROVE lib \in A
  <2> DEFINE B == {g \in U : f \in R1(g)}
  <2>1. lib \in U /\ f \in U
    BY <1>7 DEF U
  <2>2. ASSUME NEW g \in B PROVE \E i \in deps(g) : i \in B
    <3>1. \E i \in deps(g) : f \in R1(i)
      BY <1>5, <1>6, <1>9, <2>1, <2>2
    <3> QED
      BY <1>4, <3>1
  <2>3. B \subseteq A
    <3>1. B \subseteq U
      OBVIOUS
    <3> HIDE DEF B
    <3>2. B \subseteq Into(s, B)
      BY <1>3, <2>2, <3>1
    <3> QED
      BY <1>1, <3>2
  <2>4. lib \in B
    BY <2>1
  <2> QED
    BY <2>3, <2>4
<1> QED
  BY <1>2, <1>8, <1>9 DEF R1

----------------------------------------------------------------------------

\* What the calls print, with all arguments.
Printed(s) == [Ldd!Calls(s) -> Seq(Ldd!Calls(s))]

LEMMA CheckIs ==
  ASSUME NEW s, NEW call \in Ldd!Calls(s)
  PROVE  /\ Ldd!Check(s, call) \in Seq(Ldd!Calls(s))
         /\ \A x : x \in Ldd!Elements(Ldd!Check(s, call)) <=>
                     x = call /\ call[2] \notin s.here \cup s.found
<1>1. << >> \in Seq(Ldd!Calls(s)) /\ <<call>> \in Seq(Ldd!Calls(s))
  OBVIOUS
<1>2. Ldd!Elements(<< >>) = {} /\ Ldd!Elements(<<call>>) = {call}
  BY DEF Ldd!Elements
<1>3. Ldd!Check(s, call) = IF call[2] \in s.here \cup s.found THEN << >> ELSE <<call>>
  BY DEF Ldd!Check, Ldd!CheckFile
<1> QED
  BY <1>1, <1>2, <1>3

\* One call prints its own line, and what it calls prints for each file.
LEMMA VisitIs ==
  ASSUME NEW s, IsSystem(s), NEW printed \in Printed(s)
  PROVE  /\ Ldd!Visit(s, printed) \in Printed(s)
         /\ \A call \in Ldd!Calls(s) : \A x :
              x \in Ldd!Elements(Ldd!Visit(s, printed)[call]) <=>
                \/ x = call /\ call[2] \notin s.here \cup s.found
                \/ \E i \in Ldd!Elements(Ldd!GetDepends(s, call[2])) :
                     x \in Ldd!Elements(printed[<<call[2], i>>])
<1> DEFINE U == Ldd!Names(s)
           T == Ldd!Calls(s)
           deps(call) == Ldd!GetDepends(s, call[2])
           outs(call) == [k \in DOMAIN deps(call) |-> printed[<<call[2], deps(call)[k]>>]]
           v(call) == Ldd!Check(s, call) \o Ldd!Joined(outs(call))
<1>1. Ldd!Visit(s, printed) = [call \in T |-> v(call)]
  BY DEF Ldd!Visit
<1>2. ASSUME NEW call \in T
      PROVE  /\ v(call) \in Seq(T)
             /\ \A x : x \in Ldd!Elements(v(call)) <=>
                  \/ x = call /\ call[2] \notin s.here \cup s.found
                  \/ \E i \in Ldd!Elements(deps(call)) : x \in Ldd!Elements(printed[<<call[2], i>>])
  <2> DEFINE d == deps(call)
             o == outs(call)
             lib == call[2]
  <2>1. d \in Seq(U) /\ lib \in U
    BY DependsAre DEF Ldd!Calls
  <2> HIDE DEF d, lib
  <2>2. Len(d) \in Nat /\ DOMAIN d = 1..Len(d) /\ \A k \in 1..Len(d) : d[k] \in U
    BY <2>1
  <2>3. o = [k \in 1..Len(d) |-> printed[<<lib, d[k]>>]]
    BY <2>2 DEF d, lib
  <2>4. \A k \in 1..Len(d) : printed[<<lib, d[k]>>] \in Seq(T)
    <3>1. \A k \in 1..Len(d) : <<lib, d[k]>> \in T
      BY <2>1, <2>2 DEF Ldd!Calls
    <3> HIDE DEF T
    <3>2. printed \in [T -> Seq(T)]
      BY DEF Printed, T
    <3> QED
      BY <3>1, <3>2
  <2> HIDE DEF o, T
  <2>5. o \in Seq(Seq(T)) /\ DOMAIN o = 1..Len(d)
          /\ \A k \in 1..Len(d) : o[k] = printed[<<lib, d[k]>>]
    <3>1. DOMAIN o = 1..Len(d) /\ \A k \in 1..Len(d) : o[k] = printed[<<lib, d[k]>>]
      BY <2>3
    <3> DEFINE S == Seq(T)
               n == Len(d)
    <3>2. n \in Nat /\ o \in [1..n -> S]
      BY <2>2, <2>3, <2>4
    <3> HIDE DEF S, n
    <3>3. o \in Seq(S)
      BY <3>2
    <3> QED
      BY <3>1, <3>3 DEF S
  <2>6. /\ Ldd!Joined(o) \in Seq(T)
        /\ \A x : x \in Ldd!Elements(Ldd!Joined(o)) <=> \E k \in DOMAIN o : x \in Ldd!Elements(o[k])
    BY <2>5, JoinedIs
  <2>7. /\ Ldd!Check(s, call) \in Seq(T)
        /\ \A x : x \in Ldd!Elements(Ldd!Check(s, call)) <=>
                    x = call /\ call[2] \notin s.here \cup s.found
    BY CheckIs DEF T
  <2> DEFINE c == Ldd!Check(s, call)
             j == Ldd!Joined(o)
  <2>8. c \o j \in Seq(T) /\ Ldd!Elements(c \o j) = Ldd!Elements(c) \cup Ldd!Elements(j)
    <3>1. c \in Seq(T) /\ j \in Seq(T)
      BY <2>6, <2>7
    <3> HIDE DEF c, j
    <3> QED
      BY <3>1, ElementsOfTwo
  <2>9. \A x : (\E k \in DOMAIN o : x \in Ldd!Elements(o[k])) <=>
                 \E i \in Ldd!Elements(d) : x \in Ldd!Elements(printed[<<lib, i>>])
    <3>1. \A i : i \in Ldd!Elements(d) <=> \E k \in 1..Len(d) : i = d[k]
      BY <2>2 DEF Ldd!Elements
    <3>2. \A x, k : k \in 1..Len(d) =>
            (x \in Ldd!Elements(o[k]) <=> x \in Ldd!Elements(printed[<<lib, d[k]>>]))
      BY <2>5
    <3>3. DOMAIN o = 1..Len(d)
      BY <2>5
    <3> HIDE <2>5
    <3> QED
      BY <3>1, <3>2, <3>3
  <2>10. v(call) = c \o j
    BY DEF o
  <2> QED
    BY <2>6, <2>7, <2>8, <2>9, <2>10 DEF d, T, lib
<1> HIDE DEF v
<1>3. Ldd!Visit(s, printed) \in Printed(s)
  BY <1>1, <1>2 DEF Printed
<1>4. \A call \in T : Ldd!Visit(s, printed)[call] = v(call)
  BY <1>1
<1> QED
  BY <1>2, <1>3, <1>4

----------------------------------------------------------------------------

\* CheckAllDeps is what its definition says, level by level.
LEMMA PrintRounds ==
  ASSUME NEW s, IsSystem(s)
  PROVE  LET print == Ldd!CheckAllDeps(s, Ldd!Depth(s)) IN
         \A n \in 1..Ldd!Depth(s) : /\ print[n - 1] \in Printed(s)
                                    /\ print[n] = Ldd!Visit(s, print[n - 1])
<1> DEFINE N == Ldd!Depth(s)
           C == Ldd!Calls(s)
           S == Printed(s)
           first == [call \in C |-> Ldd!Check(s, call)]
           step == [x \in (1..N) \X S |-> Ldd!Visit(s, x[2])]
           Is(d) == d = [n \in 0..N |-> IF n = 0 THEN first ELSE Ldd!Visit(s, d[n - 1])]
           d == CHOOSE e : Is(e)
<1>1. N \in Nat
  BY DepthIs
<1>2. Ldd!CheckAllDeps(s, N) = d
  BY DEF Ldd!CheckAllDeps
<1>3. first \in S /\ \A A \in S : Ldd!Visit(s, A) \in S
  BY CheckIs, VisitIs DEF Printed
<1> HIDE DEF first, N, S
<1>4. /\ 0 \in 0..N /\ \A n \in 0..N : n = 0 \/ n \in 1..N
      /\ \A n \in 1..N : n # 0 /\ n \in 0..N /\ n - 1 \in 0..N
  BY <1>1
<1>5. step \in [(1..N) \X S -> S]
  BY <1>3
<1>6. PICK f : IsLoop(f, N, S, first, step)
  <2> HIDE DEF step
  <2> QED
    BY <1>1, <1>3, <1>5, Loop
<1>7. f \in [0..N -> S] /\ f[0] = first
  BY <1>6 DEF IsLoop
<1>8. ASSUME NEW n \in 1..N PROVE f[n] = Ldd!Visit(s, f[n - 1])
  <2>1. f[n] = step[<<n, f[n - 1]>>]
    <3> HIDE DEF step
    <3> QED
      BY <1>6 DEF IsLoop
  <2>2. <<n, f[n - 1]>> \in (1..N) \X S
    BY <1>4, <1>7
  <2> QED
    BY <2>1, <2>2
<1>9. Is(f)
  <2>1. \A n \in 0..N : f[n] = IF n = 0 THEN first ELSE Ldd!Visit(s, f[n - 1])
    BY <1>4, <1>7, <1>8
  <2> QED
    BY <1>7, <2>1
<1>10. Is(d)
  <2> HIDE DEF Is
  <2> QED
    BY <1>9
<1> HIDE DEF d
<1>11. \A n \in 0..N : d[n] = IF n = 0 THEN first ELSE Ldd!Visit(s, d[n - 1])
  BY <1>10
<1> HIDE <1>10
<1> DEFINE P == {n \in 0..N : d[n] \in S}
<1>12. 0 \in P /\ \A n \in 1..N : n - 1 \in P => n \in P
  BY <1>3, <1>4, <1>11
<1>13. \A n \in 0..N : n \in P
  <2> HIDE DEF P
  <2> QED
    BY <1>1, <1>12, Induction
<1> QED
  BY <1>2, <1>4, <1>11, <1>13 DEF N, S

\* A line that is printed below lib.
Found(s, lib, x) ==
  \E f \in Ldd!Reached(s, lib) \cap (s.here \cup s.found) : \E g \in Ldd!Elements(s.needed[f]) :
    x = <<f, g>> /\ g \notin s.here \cup s.found

\* Where the recursion ends within so many levels, it prints the missing files
\* within reach.
LEMMA PrintedIs ==
  ASSUME NEW s, IsSystem(s), Ldd!NeedySeen(s), NEW n \in 0..Ldd!Depth(s)
  PROVE  \A call \in Ldd!Calls(s) : \A x :
           call[2] \notin Ldd!Deep(s)[n] =>
             (x \in Ldd!Elements(Ldd!CheckAllDeps(s, Ldd!Depth(s))[n][call]) <=>
                \/ x = call /\ call[2] \notin s.here \cup s.found
                \/ Found(s, call[2], x))
<1> DEFINE N == Ldd!Depth(s)
           C == Ldd!Calls(s)
           U == Ldd!Names(s)
           d == Ldd!Deep(s)
           print == Ldd!CheckAllDeps(s, N)
           deps(lib) == Ldd!Elements(Ldd!GetDepends(s, lib))
           missing(lib) == lib \notin s.here \cup s.found
           Is(k, call, x) == x \in Ldd!Elements(print[k][call]) <=>
                               (x = call /\ missing(call[2])) \/ Found(s, call[2], x)
           P == {k \in 0..N : \A call \in C : \A x : call[2] \notin d[k] => Is(k, call, x)}
<1>1. N \in Nat
  BY DepthIs
<1>2. d[0] = U /\ \A k \in 1..N : d[k] = Into(s, d[k - 1])
  BY DeepRounds
<1>3. \A k \in 1..N : print[k - 1] \in Printed(s) /\ print[k] = Ldd!Visit(s, print[k - 1])
  BY PrintRounds
<1>4. \A call \in C : call[2] \in U
  BY DEF Ldd!Calls
<1>5. 0 \in 0..N /\ \A k \in 1..N : k \in 0..N /\ k - 1 \in 0..N
  <2> HIDE DEF N
  <2> QED
    BY <1>1
<1>6. \A lib \in U : deps(lib) \subseteq U
  BY DependsAre
<1>7. \A B : \A lib \in U : lib \notin Into(s, B) => \A i \in deps(lib) : i \notin B
  BY DEF Into
<1>8. ASSUME NEW lib \in U, NEW x
      PROVE  Found(s, lib, x) <=>
               \E i \in deps(lib) : (x = <<lib, i>> /\ missing(i)) \/ Found(s, i, x)
  <2>1. \A f : f \in Ldd!Reached(s, lib) <=> f = lib \/ \E i \in deps(lib) : f \in Ldd!Reached(s, i)
    BY ReachedSplit
  <2>2. /\ lib \in s.here \cup s.found => deps(lib) = Ldd!Elements(s.needed[lib])
        /\ lib \notin s.here \cup s.found => deps(lib) = {}
    BY SeenDependsAre
  <2> HIDE DEF deps
  <2>3. ASSUME Found(s, lib, x)
        PROVE  \E i \in deps(lib) : (x = <<lib, i>> /\ missing(i)) \/ Found(s, i, x)
    <3>0. PICK f \in Ldd!Reached(s, lib) \cap (s.here \cup s.found) :
            \E g \in Ldd!Elements(s.needed[f]) : x = <<f, g>> /\ missing(g)
      BY <2>3 DEF Found
    <3>1. PICK g \in Ldd!Elements(s.needed[f]) : x = <<f, g>> /\ missing(g)
      BY <3>0
    <3>2. CASE f = lib
      BY <2>2, <3>1, <3>2
    <3>3. CASE \E i \in deps(lib) : f \in Ldd!Reached(s, i)
      BY <3>1, <3>3 DEF Found
    <3> QED
      BY <2>1, <3>1, <3>2, <3>3
  <2>4. ASSUME NEW i \in deps(lib), x = <<lib, i>> /\ missing(i) PROVE Found(s, lib, x)
    <3>1. lib \in Ldd!Reached(s, lib) \cap (s.here \cup s.found) /\ i \in Ldd!Elements(s.needed[lib])
      BY <2>1, <2>2, <2>4
    <3> QED
      BY <2>4, <3>1 DEF Found
  <2>5. ASSUME NEW i \in deps(lib), Found(s, i, x) PROVE Found(s, lib, x)
    BY <2>1, <2>5 DEF Found
  <2> QED
    BY <2>3, <2>4, <2>5
<1>9. 0 \in P
  BY <1>2, <1>4, <1>5
<1>10. ASSUME NEW k \in 1..N, k - 1 \in P PROVE k \in P
  <2> SUFFICES ASSUME NEW call \in C, NEW x, call[2] \notin d[k] PROVE Is(k, call, x)
    BY <1>5
  <2> DEFINE lib == call[2]
             below == print[k - 1]
  <2>1. lib \in U /\ \A i \in deps(lib) : i \in U /\ i \notin d[k - 1]
    BY <1>2, <1>4, <1>6, <1>7
  <2>2. ASSUME NEW i \in deps(lib)
        PROVE  x \in Ldd!Elements(below[<<lib, i>>]) <=>
                 (x = <<lib, i>> /\ missing(i)) \/ Found(s, i, x)
    <3> DEFINE inner == <<lib, i>>
    <3>1. inner \in C /\ inner[2] = i
      BY <2>1 DEF Ldd!Calls
    <3>2. Is(k - 1, inner, x)
      <4>1. inner[2] \notin d[k - 1]
        BY <2>1, <3>1
      <4> HIDE DEF inner, Is, C, d
      <4> QED
        BY <1>10, <3>1, <4>1
    <3> HIDE DEF print, missing, inner
    <3> QED
      BY <3>1, <3>2 DEF inner
  <2>3. x \in Ldd!Elements(print[k][call]) <=>
          \/ x = call /\ missing(lib)
          \/ \E i \in deps(lib) : x \in Ldd!Elements(below[<<lib, i>>])
    <3> HIDE DEF print
    <3>1. below \in Printed(s) /\ print[k] = Ldd!Visit(s, below)
      BY <1>3
    <3> HIDE DEF below
    <3> QED
      BY <3>1, VisitIs
  <2>4. Found(s, lib, x) <=> \E i \in deps(lib) : (x = <<lib, i>> /\ missing(i)) \/ Found(s, i, x)
    BY <1>8, <2>1
  <2> HIDE DEF deps, missing, below, print, lib
  <2>5. x \in Ldd!Elements(print[k][call]) <=> (x = call /\ missing(lib)) \/ Found(s, lib, x)
    BY <2>2, <2>3, <2>4
  <2> QED
    BY <2>5 DEF lib
<1>11. \A k \in 0..N : k \in P
  <2> HIDE DEF P
  <2> QED
    BY <1>1, <1>9, <1>10, Induction
<1> HIDE DEF N, Is, C, d
<1>12. \A call \in C : \A x : call[2] \notin d[n] => Is(n, call, x)
  <2>1. n \in P
    <3> HIDE DEF P
    <3> QED
      BY <1>11 DEF N
  <2> QED
    BY <2>1
<1> QED
  BY <1>12 DEF Is, C, d, N

\* elf-ldd.pl reports what is missing.
LEMMA LddRight ==
  ASSUME NEW s, IsSystem(s)
  PROVE  Ldd!LddReports(s, "prog")
<1>0. SUFFICES ASSUME Ldd!NeedySeen(s), \A f \in Ldd!Reached(s, "prog") : ~Ldd!OnCycle(s, f)
               PROVE  Ldd!LddReports(s, "prog")
  BY DEF Ldd!LddReports
<1> DEFINE lib == "prog"
           N == Ldd!Depth(s)
           R1 == Ldd!Reached(s, lib)
           out == Ldd!Output(s, lib)
           line(x) == x \in R1 \X R1 /\ x[2] \notin s.here \cup s.found
                      /\ ((x[1] \in s.here \cup s.found /\ x[2] \in Ldd!Elements(s.needed[x[1]]))
                            \/ (x[1] = x[2] /\ x[2] = lib))
<1>1. lib \in Ldd!Names(s) /\ <<lib, lib>> \in Ldd!Calls(s)
  BY DEF IsSystem, Ldd!Names, Ldd!Calls
<1>2. N \in 0..N
  BY DepthIs
<1>3. R1 \in SUBSET Ldd!Names(s) /\ lib \in R1 /\ Closed(s, R1)
  BY <1>1, ReachedIs
<1>4. ~Ldd!Unfinished(s, lib)
  BY <1>0, <1>1, EndlessIs
<1>5. \A x : x \in Ldd!Elements(out) <=> line(x)
  <2>1. lib \notin Ldd!Deep(s)[N] /\ out = Ldd!CheckAllDeps(s, N)[N][<<lib, lib>>]
    BY <1>4 DEF Ldd!Unfinished, Ldd!Output
  <2> DEFINE call == <<lib, lib>>
  <2>2. call \in Ldd!Calls(s) /\ call[2] = lib
    BY <1>1
  <2> HIDE DEF call, N, out
  <2>3. \A x : x \in Ldd!Elements(out) <=>
                 \/ x = call /\ call[2] \notin s.here \cup s.found
                 \/ Found(s, call[2], x)
    BY <1>0, <1>2, <2>1, <2>2, PrintedIs DEF N, call
  <2>4. \A x : Found(s, lib, x) <=>
                 x \in R1 \X R1 /\ x[2] \notin s.here \cup s.found
                 /\ x[1] \in s.here \cup s.found /\ x[2] \in Ldd!Elements(s.needed[x[1]])
    BY <1>3 DEF Found, Closed
  <2>5. \A x : x = call <=> x \in R1 \X R1 /\ x[1] = x[2] /\ x[2] = lib
    BY <1>3 DEF call
  <2> HIDE DEF R1
  <2> QED
    BY <2>2, <2>3, <2>4, <2>5
<1> HIDE DEF lib, R1, out
<1>6. Ldd!Elements(out) = {x \in R1 \X R1 : x[2] \notin s.here \cup s.found
                      /\ ((x[1] \in s.here \cup s.found /\ x[2] \in Ldd!Elements(s.needed[x[1]]))
                            \/ (x[1] = x[2] /\ x[2] = lib))}
  BY <1>5
<1>7. Ldd!LddReports(s, lib)
  BY <1>4, <1>6 DEF Ldd!LddReports, R1, out
<1> QED
  BY <1>7 DEF lib

----------------------------------------------------------------------------
(* The tools together.                                                     *)

\* A tool is given one of its inputs.
InputInv ==
  /\ input.tool = "rtime" => input.of \in RtimeInputs
  /\ input.tool = "linkchk" => input.of \in LinkchkInputs
  /\ input.tool = "elf-ldd" => input.of \in LddInputs
  /\ input.tool = "psio" => input.of \in PsioInputs
  /\ input.tool = "exdump" => input.of \in ExdumpInputs
  /\ input.tool = "httpq" => input.of \in HttpqInputs
  /\ input.tool = "pcapurlstats" => input.of \in UrlInputs
  /\ input.tool = "fhist1d" => input.of \in HistogramInputs
  /\ input.tool = "shpath" => input.of \in ShpathInputs
  /\ input.tool = "quote-insert" => input.of \in QuoteInputs

LEMMA RunInput ==
  ASSUME NEW tool, NEW inputs, Run(tool, inputs)
  PROVE  input'.tool = tool /\ input'.of \in inputs
BY DEF Run

LEMMA InputIs == ToolsSpec => []InputInv
<1>1. ToolsInit => InputInv
  BY DEF ToolsInit, InputInv
<1>2. InputInv /\ [ToolsNext]_input => InputInv'
  <2> SUFFICES ASSUME InputInv, [ToolsNext]_input PROVE InputInv'
    OBVIOUS
  <2>1. CASE ToolsNext
    BY <2>1, RunInput DEF ToolsNext, InputInv
  <2>2. CASE UNCHANGED input
    BY <2>2 DEF InputInv
  <2> QED
    BY <2>1, <2>2
<1> QED
  BY <1>1, <1>2, PTL DEF ToolsSpec

\* rtime.c: the lines are those of the hosts, in order, and none is left out
\* unless some host could not be reached, for any hosts, any epoch and any
\* number of descriptors, which the lookups need as well as the sockets.
THEOREM RtimeAlwaysReports == ToolsSpec => []RtimeReports
<1>1. InputInv => RtimeReports
  BY RtimeAssumption, RtimeRight DEF InputInv, RtimeReports
<1> QED
  BY <1>1, InputIs, PTL

\* linkchk of fswaste.c: every file is counted once, whatever its links, and
\* only a table that cannot grow ends the program.
THEOREM LinksAlwaysCountedOnce == ToolsSpec => []LinksCountedOnce
<1>1. InputInv => LinksCountedOnce
  BY LinkchkAssumption, LinksRight DEF InputInv, LinksCountedOnce
<1> QED
  BY <1>1, InputIs, PTL

\* psio.pl: the list after any number of samples of any processes.
THEOREM TopAlwaysReported == ToolsSpec => []TopReported
<1>1. InputInv => TopReported
  BY PsioAssumption, TopRight DEF InputInv, TopReported
<1> QED
  BY <1>1, InputIs, PTL

\* exdump.c: what it says of any files, in both builds.
THEOREM ExdumpAlwaysReports == ToolsSpec => []ExdumpReports
<1>1. ASSUME InputInv, input.tool = "exdump"
      PROVE  Ex(input.of.sun)!ExdumpReports(input.of.args, input.of.files)
  <2> DEFINE files == input.of.files
             Files == {files[k] : k \in DOMAIN files}
  <2>1. files \in Seq(Files) /\ \A f \in Files : IsFile(f)
    BY <1>1, ExdumpAssumption DEF InputInv, IsSeq
  <2>2. ExdumpNumbers
    BY ExdumpAssumption
  <2> HIDE DEF Files, files
  <2>3. Ex(input.of.sun)!ExdumpReports(input.of.args, files)
    BY <2>1, <2>2, ExdumpRight
  <2> QED
    BY <2>3 DEF files
<1>2. InputInv => ExdumpReports
  BY <1>1 DEF ExdumpReports
<1> QED
  BY <1>2, InputIs, PTL

\* httpq: the request is the one that the options ask for, and an answer is
\* printed as a whole or not at all, for any options, any answer and an alarm
\* at any time, with and without a handler of the alarm that dies.
THEOREM HttpqAlwaysAnswers == ToolsSpec => []HttpqAnswers
<1>1. ASSUME InputInv, input.tool = "httpq"
      PROVE  Http(input.of.dies)!HttpqAnswers(input.of.args, input.of.known,
                                              Events(input.of.answer, input.of.alarm))
  <2>1. /\ input.of.dies \in BOOLEAN /\ IsSeq(input.of.args)
        /\ IsSeq(input.of.answer) /\ IsAnswer(input.of.answer)
        /\ input.of.alarm \in 1..(Len(input.of.answer) + 1)
    BY <1>1, HttpqAssumption DEF InputInv
  <2> QED
    BY <2>1, HttpqRight
<1>2. InputInv => HttpqAnswers
  BY <1>1 DEF HttpqAnswers
<1> QED
  BY <1>2, InputIs, PTL

\* quote-insert.el: in a region that begins with a line other than the first,
\* every line is quoted once and no other, although inserting moves the text,
\* for any text.
THEOREM RegionAlwaysQuoted == ToolsSpec => []QuotesRegion
<1>1. InputInv => QuotesRegion
  BY QuoteAssumption, QuotesRight DEF InputInv, QuotesRegion
<1> QED
  BY <1>1, InputIs, PTL

\* shpath.c and shpath.sh: the places of a file in a path, in order, for any
\* path and directories, and the two agree.
THEOREM ShpathAlwaysReports == ToolsSpec => []ShpathReports
<1>1. InputInv => ShpathReports
  BY ShpathAssumption, ShpathRight DEF InputInv, ShpathReports
<1> QED
  BY <1>1, InputIs, PTL

\* pcapurlstats.cc: the lines for any packets, for any sizes of the headers
\* and of the buffer, with strnstr and with strstr.
THEOREM UrlstatsAlwaysReports == ToolsSpec => []UrlstatsReports
<1>1. ASSUME InputInv, input.tool = "pcapurlstats"
      PROVE  Url(input.of.bounded)!UrlstatsReports(input.of.c, input.of.packets)
  <2>1. input.of.bounded \in BOOLEAN /\ ArePackets(input.of.packets)
    BY <1>1, UrlAssumption DEF InputInv, ArePackets
  <2> QED
    BY <2>1, UrlRight
<1>2. InputInv => UrlstatsReports
  BY <1>1 DEF UrlstatsReports
<1> QED
  BY <1>2, InputIs, PTL

\* fhist1d: every row in the one bin whose edges enclose it, the labels and
\* the cumulative column, for any data, range, bins and weights; the last bin
\* and the overflow where the bins fill the range.
THEOREM HistogramAlwaysRight == ToolsSpec => []HistogramRight
<1>1. InputInv => HistogramRight
  BY HistogramAssumption, HistogramIsRight DEF InputInv, HistogramRight
<1> QED
  BY <1>1, InputIs, PTL

\* elf-ldd.pl: where no files need each other in a circle and those found along
\* the path need nothing, the recursion ends, and its lines name exactly the
\* missing files of the net, each with every file that needs it, for any files.
THEOREM LddAlwaysReports == ToolsSpec => []LddReports
<1>1. InputInv => LddReports
  BY LddAssumption, LddRight DEF InputInv, LddReports
<1> QED
  BY <1>1, InputIs, PTL
============================================================================
