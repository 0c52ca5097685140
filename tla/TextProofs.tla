---------------------------- MODULE TextProofs -----------------------------
(***************************************************************************)
(* Theorems about the programs that read and print characters: kbdtst.c,   *)
(* for any set of modes, number of bytes and combination of failures, and  *)
(* the tools that convert text, for any text and any sizes.                *)
(*                                                                         *)
(* A converter goes through a text once, from the first character to the   *)
(* last, and what it is then in is a function of what it was in before and *)
(* of the character (IsFold).  So a fact about all texts is proved for the *)
(* empty one, and for one with a character more (SeqInduction).            *)
(***************************************************************************)
EXTENDS Kbdtst, Tools, FunctionTheorems, FiniteSetTheorems, SequenceTheorems,
        WellFoundedInduction, TLAPS

----------------------------------------------------------------------------
(* kbdtst.c                                                                *)

KbKinds   == {"xlate", "code", "raw", "garbage"}
TtyStates == [kb : KbKinds, line : Settings]

\* The calls up to the ones that save, set and restore each half of the
\* terminal's state.
BeforeSave    == {"open", "info", "save"}
BeforeRaw     == BeforeSave \cup {"raw"}
BeforeKbRaw   == BeforeRaw \cup {"kbraw"}
BeforeKb      == BeforeKbRaw \cup {"read", "kbrestore"}
BeforeRestore == BeforeKb \cup {"restore"}

\* A call that comes later has not failed yet.
Ahead ==
  /\ call \in BeforeKbRaw => "KDSKBMODE raw" \notin failed
  /\ call \in BeforeKb => "KDSKBMODE" \notin failed

\* The settings of the line are those of the start, or saved; when they are
\* restored, the ones that were saved come back.
LineInv ==
  /\ call \in BeforeRaw => tty.line = before.line
  /\ call \notin BeforeSave \cup {"failure", "killed"} /\ "tcgetattr" \notin failed =>
       oldt = before.line
  /\ call \in {"print", "end"} /\ failed \cap {"tcgetattr", "tcsetattr restore"} = {} =>
       tty.line = before.line

\* The mode of the keyboard changes in the calls for it only.
KeyboardInv ==
  /\ call \in BeforeKbRaw => tty.kb = before.kb
  /\ call \in BeforeKb /\ "KDSKBMODE raw" \in failed => tty.kb = before.kb
  /\ call \in {"restore", "print", "end"} =>
       /\ "KDSKBMODE" \notin failed => tty.kb = "xlate"
       /\ "KDSKBMODE raw" \in failed /\ "KDSKBMODE" \in failed => tty.kb = before.kb

\* Nothing is printed before the read, and no more than it has returned.
CountInv == shown = 0 \/ shown <= nchar

IInv ==
  /\ KbdtstTypeOK
  /\ tty \in TtyStates /\ before \in TtyStates
  /\ Ahead /\ LineInv /\ KeyboardInv /\ CountInv
  /\ call \notin {"print", "end", "killed", "failure"} => shown = 0

LEMMA InitIInv == KbdtstInit => IInv
<1> SUFFICES ASSUME KbdtstInit PROVE IInv
  OBVIOUS
<1>1. tty \in TtyStates /\ before = tty
  BY KbdtstAssumption DEF KbdtstInit, TtyStates, KbKinds, Settings
<1>2. KbdtstTypeOK
  BY <1>1, KbdtstAssumption DEF KbdtstInit, KbdtstTypeOK, TtyStates, KbKinds, Settings
<1>3. Ahead /\ LineInv /\ KeyboardInv /\ CountInv
  BY DEF KbdtstInit, Ahead, LineInv, KeyboardInv, CountInv,
         BeforeSave, BeforeRaw, BeforeKbRaw, BeforeKb, BeforeRestore
<1> QED
  BY <1>1, <1>2, <1>3 DEF KbdtstInit, IInv

\* What read returns, and how far the loop over it gets.
LEMMA ReadBounds ==
  ASSUME ReadCodes
  PROVE  nchar' \in -1..MaxRead
<1>1. nchar' \in 1..MaxRead \/ nchar' = -1 \/ nchar' = 0
  BY DEF ReadCodes
<1>2. MaxRead \in Nat \ {0}
  BY KbdtstAssumption
<1> QED
  BY <1>1, <1>2

LEMMA PrintBounds ==
  ASSUME nchar \in -1..MaxRead, shown \in 0..MaxRead, PrintCodes
  PROVE  shown' \in 0..MaxRead /\ shown' <= nchar
<1>1. MaxRead \in Nat /\ shown < nchar /\ shown' = shown + 1
  BY KbdtstAssumption DEF PrintCodes
<1> QED
  BY <1>1

LEMMA StepIInv == IInv /\ [KbdtstNext]_kbdtstVars => IInv'
<1> SUFFICES ASSUME IInv, [KbdtstNext]_kbdtstVars PROVE IInv'
  OBVIOUS
<1> USE KbdtstAssumption
    DEF IInv, KbdtstTypeOK, TtyStates, KbKinds, Settings, Ahead, LineInv, KeyboardInv, CountInv,
        BeforeSave, BeforeRaw, BeforeKbRaw, BeforeKb, BeforeRestore, AfterCall, Fails, Works
<1>1. CASE OpenTty
  <2>1. KbdtstTypeOK' /\ tty' \in TtyStates /\ before' \in TtyStates
    BY <1>1 DEF OpenTty
  <2>2. Ahead'
    BY <1>1 DEF OpenTty
  <2>3. LineInv'
    BY <1>1 DEF OpenTty
  <2>4. KeyboardInv'
    BY <1>1 DEF OpenTty
  <2>5. CountInv' /\ (call' \notin {"print", "end", "killed", "failure"} => shown' = 0)
    BY <1>1 DEF OpenTty
  <2> QED
    BY <2>1, <2>2, <2>3, <2>4, <2>5 DEF IInv
<1>2. CASE Info
  <2>1. KbdtstTypeOK' /\ tty' \in TtyStates /\ before' \in TtyStates
    BY <1>2 DEF Info
  <2>2. Ahead'
    BY <1>2 DEF Info
  <2>3. LineInv'
    BY <1>2 DEF Info
  <2>4. KeyboardInv'
    BY <1>2 DEF Info
  <2>5. CountInv' /\ (call' \notin {"print", "end", "killed", "failure"} => shown' = 0)
    BY <1>2 DEF Info
  <2> QED
    BY <2>1, <2>2, <2>3, <2>4, <2>5 DEF IInv
<1>3. CASE Save
  <2>1. KbdtstTypeOK' /\ tty' \in TtyStates /\ before' \in TtyStates
    BY <1>3 DEF Save
  <2>2. Ahead'
    BY <1>3 DEF Save
  <2>3. LineInv'
    BY <1>3 DEF Save
  <2>4. KeyboardInv'
    BY <1>3 DEF Save
  <2>5. CountInv' /\ (call' \notin {"print", "end", "killed", "failure"} => shown' = 0)
    BY <1>3 DEF Save
  <2> QED
    BY <2>1, <2>2, <2>3, <2>4, <2>5 DEF IInv
<1>4. CASE SetRaw
  <2>1. KbdtstTypeOK' /\ tty' \in TtyStates /\ before' \in TtyStates
    BY <1>4 DEF SetRaw
  <2>2. Ahead'
    BY <1>4 DEF SetRaw
  <2>3. LineInv'
    BY <1>4 DEF SetRaw
  <2>4. KeyboardInv'
    BY <1>4 DEF SetRaw
  <2>5. CountInv' /\ (call' \notin {"print", "end", "killed", "failure"} => shown' = 0)
    BY <1>4 DEF SetRaw
  <2> QED
    BY <2>1, <2>2, <2>3, <2>4, <2>5 DEF IInv
<1>5. CASE SetKbRaw
  <2>1. KbdtstTypeOK' /\ tty' \in TtyStates /\ before' \in TtyStates
    BY <1>5 DEF SetKbRaw
  <2>2. Ahead'
    BY <1>5 DEF SetKbRaw
  <2>3. LineInv'
    BY <1>5 DEF SetKbRaw
  <2>4. KeyboardInv'
    BY <1>5 DEF SetKbRaw
  <2>5. CountInv' /\ (call' \notin {"print", "end", "killed", "failure"} => shown' = 0)
    BY <1>5 DEF SetKbRaw
  <2> QED
    BY <2>1, <2>2, <2>3, <2>4, <2>5 DEF IInv
<1>6. CASE ReadCodes
  <2>0. nchar' \in -1..MaxRead
    BY <1>6, ReadBounds
  <2>1. KbdtstTypeOK' /\ tty' \in TtyStates /\ before' \in TtyStates
    BY <1>6, <2>0 DEF ReadCodes
  <2>2. Ahead'
    BY <1>6 DEF ReadCodes
  <2>3. LineInv'
    BY <1>6 DEF ReadCodes
  <2>4. KeyboardInv'
    BY <1>6 DEF ReadCodes
  <2>5. CountInv' /\ (call' \notin {"print", "end", "killed", "failure"} => shown' = 0)
    BY <1>6 DEF ReadCodes
  <2> QED
    BY <2>1, <2>2, <2>3, <2>4, <2>5 DEF IInv
<1>7. CASE KbRestore
  <2>0. /\ call = "kbrestore" /\ call' = "restore" /\ kbmode' = "xlate"
        /\ \/ tty' = [tty EXCEPT !.kb = "xlate"] /\ failed' = failed
           \/ tty' = tty /\ failed' = failed \cup {"KDSKBMODE"}
        /\ UNCHANGED <<isconsole, before, oldt, nchar, shown>>
    BY <1>7, Zenon DEF KbRestore
  <2>1. KbdtstTypeOK' /\ tty' \in TtyStates /\ before' \in TtyStates
    BY <2>0
  <2>2. Ahead'
    BY <2>0
  <2>3. LineInv'
    BY <2>0
  <2>4. KeyboardInv'
    BY <2>0
  <2>5. CountInv' /\ (call' \notin {"print", "end", "killed", "failure"} => shown' = 0)
    BY <2>0
  <2> QED
    BY <2>1, <2>2, <2>3, <2>4, <2>5 DEF IInv
<1>8. CASE Restore
  <2>1. KbdtstTypeOK' /\ tty' \in TtyStates /\ before' \in TtyStates
    BY <1>8 DEF Restore
  <2>2. Ahead'
    BY <1>8 DEF Restore
  <2>3. LineInv'
    BY <1>8 DEF Restore
  <2>4. KeyboardInv'
    BY <1>8 DEF Restore
  <2>5. CountInv' /\ (call' \notin {"print", "end", "killed", "failure"} => shown' = 0)
    BY <1>8 DEF Restore
  <2> QED
    BY <2>1, <2>2, <2>3, <2>4, <2>5 DEF IInv
<1>9. CASE PrintCodes
  <2>0. /\ shown' \in 0..MaxRead /\ shown' <= nchar
        /\ UNCHANGED <<call, isconsole, tty, before, oldt, kbmode, nchar, failed>>
    BY <1>9, PrintBounds DEF PrintCodes
  <2>1. KbdtstTypeOK' /\ tty' \in TtyStates /\ before' \in TtyStates
    BY <2>0
  <2>2. Ahead'
    BY <1>9 DEF PrintCodes
  <2>3. LineInv'
    BY <1>9 DEF PrintCodes
  <2>4. KeyboardInv'
    BY <1>9 DEF PrintCodes
  <2>5. CountInv' /\ (call' \notin {"print", "end", "killed", "failure"} => shown' = 0)
    BY <1>9, <2>0 DEF PrintCodes
  <2> QED
    BY <2>1, <2>2, <2>3, <2>4, <2>5 DEF IInv
<1>10. CASE Return
  <2>1. KbdtstTypeOK' /\ tty' \in TtyStates /\ before' \in TtyStates
    BY <1>10 DEF Return
  <2>2. Ahead'
    BY <1>10 DEF Return
  <2>3. LineInv'
    BY <1>10 DEF Return
  <2>4. KeyboardInv'
    BY <1>10 DEF Return
  <2>5. CountInv' /\ (call' \notin {"print", "end", "killed", "failure"} => shown' = 0)
    BY <1>10 DEF Return
  <2> QED
    BY <2>1, <2>2, <2>3, <2>4, <2>5 DEF IInv
<1>11. CASE Interrupted
  <2>1. KbdtstTypeOK' /\ tty' \in TtyStates /\ before' \in TtyStates
    BY <1>11 DEF Interrupted
  <2>2. Ahead'
    BY <1>11 DEF Interrupted
  <2>3. LineInv'
    BY <1>11 DEF Interrupted
  <2>4. KeyboardInv'
    BY <1>11 DEF Interrupted
  <2>5. CountInv' /\ (call' \notin {"print", "end", "killed", "failure"} => shown' = 0)
    BY <1>11 DEF Interrupted
  <2> QED
    BY <2>1, <2>2, <2>3, <2>4, <2>5 DEF IInv
<1>12. CASE UNCHANGED kbdtstVars
  <2>1. KbdtstTypeOK' /\ tty' \in TtyStates /\ before' \in TtyStates
    BY <1>12 DEF kbdtstVars
  <2>2. Ahead'
    BY <1>12 DEF kbdtstVars
  <2>3. LineInv'
    BY <1>12 DEF kbdtstVars
  <2>4. KeyboardInv'
    BY <1>12 DEF kbdtstVars
  <2>5. CountInv' /\ (call' \notin {"print", "end", "killed", "failure"} => shown' = 0)
    BY <1>12 DEF kbdtstVars
  <2> QED
    BY <2>1, <2>2, <2>3, <2>4, <2>5 DEF IInv
<1> QED
  BY <1>1, <1>2, <1>3, <1>4, <1>5, <1>6, <1>7, <1>8, <1>9, <1>10, <1>11, <1>12 DEF KbdtstNext

LEMMA SpecIInv == KbdtstSpec => []IInv
BY InitIInv, StepIInv, PTL DEF KbdtstSpec

\* The terminal's state and kbstate keep their types.
THEOREM TypeCorrect == KbdtstSpec => []KbdtstTypeOK
<1>1. IInv => KbdtstTypeOK
  BY DEF IInv
<1> QED
  BY <1>1, SpecIInv, PTL

\* kbdtst.c: both halves of the terminal's state come back, under the
\* conditions that TerminalComesBack names and whatever else has failed.
THEOREM TerminalIsRestored == KbdtstSpec => []TerminalComesBack
<1>1. IInv => TerminalComesBack
  BY DEF IInv, LineInv, KeyboardInv, TerminalComesBack
<1> QED
  BY <1>1, SpecIInv, PTL

----------------------------------------------------------------------------
(* Numbers and loops.                                                      *)

\* A set of numbers has a smallest one.
LEMMA Smallest ==
  ASSUME NEW S \in SUBSET Nat, S # {}
  PROVE  \E m \in S : \A n \in S : m <= n
<1> DEFINE below == {0..n : n \in S}
<1>1. below \subseteq FiniteSubsetsOf(Nat)
  <2>1. \A n \in Nat : 0..n \in SUBSET Nat /\ IsFiniteSet(0..n)
    BY FS_Interval
  <2> QED
    BY <2>1 DEF FiniteSubsetsOf
<1>2. below # {}
  OBVIOUS
<1>3. IsWellFoundedOn(StrictSubsetOrdering(Nat), FiniteSubsetsOf(Nat))
  BY FS_StrictSubsetOrderingWellFounded
<1> HIDE DEF below
<1>4. PICK x \in below : \A y \in below : ~(<<y, x>> \in StrictSubsetOrdering(Nat))
  BY <1>1, <1>2, <1>3, WFMin
<1>5. PICK m \in S : x = 0..m
  BY DEF below
<1>6. ASSUME NEW n \in S, n < m PROVE FALSE
  <2>1. 0..n \in below
    BY DEF below
  <2>2. 0..n \subseteq 0..m /\ 0..n # 0..m /\ 0..n \subseteq Nat /\ 0..m \subseteq Nat
    <3>1. m \in 0..m /\ m \notin 0..n
      BY <1>6
    <3> QED
      BY <1>6, <3>1
  <2> QED
    BY <1>4, <1>5, <2>1, <2>2 DEF StrictSubsetOrdering
<1> QED
  BY <1>6

\* Induction up to N, with the statement as the set of the numbers it is true of.
LEMMA Induction ==
  ASSUME NEW N \in Nat, NEW P, 0 \in P,
         \A n \in 1..N : n - 1 \in P => n \in P
  PROVE  \A n \in 0..N : n \in P
<1> DEFINE not == {n \in 0..N : n \notin P}
<1> SUFFICES ASSUME not # {} PROVE FALSE
  OBVIOUS
<1>1. PICK m \in not : \A n \in not : m <= n
  <2>1. not \in SUBSET Nat
    OBVIOUS
  <2> HIDE DEF not
  <2> QED
    BY <2>1, Smallest
<1>2. m \in 1..N /\ m - 1 \in 0..N
  BY <1>1
<1>3. m - 1 \in P
  BY <1>1, <1>2
<1> QED
  BY <1>1, <1>2, <1>3

\* There is a record of all the rounds of a loop: what a function that is
\* defined by recursion over 0..N is.
IsLoop(f, N, S, first, step) ==
  /\ f \in [0..N -> S] /\ f[0] = first
  /\ \A n \in 1..N : f[n] = step[<<n, f[n - 1]>>]

LEMMA Loop ==
  ASSUME NEW N \in Nat, NEW S, NEW first \in S, NEW step \in [(1..N) \X S -> S]
  PROVE  \E f : IsLoop(f, N, S, first, step)
<1> DEFINE Is(f, n) == f \in [0..n -> S] /\ f[0] = first
                       /\ \A k \in 1..n : f[k] = step[<<k, f[k - 1]>>]
           P == {n \in 0..N : \E f : Is(f, n)}
<1>1. 0 \in P
  <2>1. Is([k \in 0..0 |-> first], 0)
    OBVIOUS
  <2> HIDE DEF Is
  <2> QED
    BY <2>1
<1>2. ASSUME NEW n \in 1..N, n - 1 \in P PROVE n \in P
  <2>1. PICK f : Is(f, n - 1)
    BY <1>2
  <2> DEFINE g == [k \in 0..n |-> IF k = n THEN step[<<n, f[n - 1]>>] ELSE f[k]]
  <2>2. f[n - 1] \in S /\ step[<<n, f[n - 1]>>] \in S
    BY <2>1
  <2>3. \A k \in 0..n : k # n => k \in 0..(n - 1)
    OBVIOUS
  <2>4. g \in [0..n -> S] /\ g[0] = first
    BY <2>1, <2>2, <2>3
  <2>5. ASSUME NEW k \in 1..n PROVE g[k] = step[<<k, g[k - 1]>>]
    <3>1. k - 1 \in 0..n /\ k - 1 # n
      OBVIOUS
    <3>2. g[k - 1] = f[k - 1]
      BY <3>1
    <3>3. CASE k = n
      <4>1. g[n] = step[<<n, f[n - 1]>>]
        OBVIOUS
      <4> QED
        BY <3>2, <3>3, <4>1
    <3>4. CASE k # n
      BY <2>1, <3>2, <3>4
    <3> QED
      BY <3>3, <3>4
  <2>6. Is(g, n)
    BY <2>4, <2>5
  <2> HIDE DEF Is
  <2> QED
    BY <2>6
<1>3. N \in P
  <2> HIDE DEF P
  <2> QED
    BY <1>1, <1>2, Induction
<1>4. PICK f : Is(f, N)
  BY <1>3
<1>5. IsLoop(f, N, S, first, step)
  BY <1>4 DEF IsLoop
<1> QED
  BY <1>5

----------------------------------------------------------------------------
(* Texts, from the first character to the last.                            *)

\* Induction over sequences, with the statement as the set of those it is true of.
LEMMA SeqInduction ==
  ASSUME NEW T, NEW P, << >> \in P,
         \A s \in Seq(T), c \in T : s \in P => Append(s, c) \in P
  PROVE  \A s \in Seq(T) : s \in P
<1> SUFFICES ASSUME NEW s \in Seq(T) PROVE s \in P
  OBVIOUS
<1> DEFINE N == Len(s)
           Part(n) == SubSeq(s, 1, n)
           Q == {n \in 0..N : Part(n) \in P}
<1>1. N \in Nat /\ \A n \in 1..N : s[n] \in T
  OBVIOUS
<1>2. Part(0) = << >> /\ Part(N) = s
  BY SubSeqEmpty, SubSeqFull
<1>3. ASSUME NEW n \in 1..N
      PROVE  Part(n - 1) \in Seq(T) /\ Part(n) = Append(Part(n - 1), s[n])
  <2>1. 1 \in 1..Len(s) /\ n \in 1..Len(s)
    BY <1>1
  <2>2. SubSeq(s, 1, n) = SubSeq(s, 1, n - 1) \o <<s[n]>>
    BY <2>1, SubSeqRecursiveSecond
  <2>3. SubSeq(s, 1, n - 1) \in Seq(T)
    <3>1. \A k \in 1..(n - 1) : s[k] \in T
      BY <1>1
    <3> QED
      BY <1>1, <3>1, SubSeqProperties
  <2> QED
    BY <1>1, <2>2, <2>3
<1> HIDE DEF N, Part
<1>4. 0 \in Q
  BY <1>1, <1>2
<1>5. ASSUME NEW n \in 1..N, n - 1 \in Q PROVE n \in Q
  <2>1. Part(n - 1) \in P /\ Part(n - 1) \in Seq(T) /\ s[n] \in T
    BY <1>1, <1>3, <1>5
  <2>2. Append(Part(n - 1), s[n]) \in P
    BY <2>1
  <2>3. Part(n) = Append(Part(n - 1), s[n])
    BY <1>3
  <2>4. Part(n) \in P
    BY <2>2, <2>3, Zenon
  <2>5. n \in 0..N
    BY <1>1
  <2> QED
    BY <2>4, <2>5
<1>6. \A n \in 0..N : n \in Q
  <2> HIDE DEF Q
  <2> QED
    BY <1>1, <1>4, <1>5, Induction
<1> QED
  BY <1>1, <1>2, <1>6

\* What a program does with a text, a character after the other: f holds where
\* it is after each.
IsFold(f, s, S, first, step) ==
  /\ f \in [0..Len(s) -> S] /\ f[0] = first
  /\ \A n \in 1..Len(s) : f[n] = step[<<f[n - 1], s[n]>>]

IsStep(S, T, first, step) == first \in S /\ step \in [S \X T -> S]

\* Where it is in the end.
After(s, S, first, step) == (CHOOSE f : IsFold(f, s, S, first, step))[Len(s)]

LEMMA FoldExists ==
  ASSUME NEW S, NEW T, NEW first, NEW step, IsStep(S, T, first, step), NEW s \in Seq(T)
  PROVE  \E f : IsFold(f, s, S, first, step)
<1> DEFINE N == Len(s)
           loop == [x \in (1..N) \X S |-> step[<<x[2], s[x[1]]>>]]
<1>1. N \in Nat /\ \A n \in 1..N : s[n] \in T
  OBVIOUS
<1> HIDE DEF N
<1>2. loop \in [(1..N) \X S -> S]
  BY <1>1 DEF IsStep
<1>3. PICK f : IsLoop(f, N, S, first, loop)
  <2> HIDE DEF loop
  <2> QED
    BY <1>1, <1>2, Loop DEF IsStep
<1>4. f \in [0..N -> S] /\ f[0] = first /\ \A n \in 1..N : f[n] = loop[<<n, f[n - 1]>>]
  BY <1>3 DEF IsLoop
<1>5. ASSUME NEW n \in 1..N PROVE f[n] = step[<<f[n - 1], s[n]>>]
  <2>1. f[n - 1] \in S
    <3>1. n - 1 \in 0..N
      BY <1>1
    <3> QED
      BY <1>4, <3>1
  <2>2. <<n, f[n - 1]>> \in (1..N) \X S
    BY <2>1
  <2> QED
    BY <1>4, <2>2
<1>6. IsFold(f, s, S, first, step)
  BY <1>4, <1>5 DEF IsFold, N
<1> QED
  BY <1>6

\* Two such functions agree as far as their texts do.
LEMMA FoldsAgree ==
  ASSUME NEW S, NEW first, NEW step, NEW s, NEW t, NEW N \in Nat,
         N <= Len(s), N <= Len(t), Len(s) \in Nat, Len(t) \in Nat,
         \A n \in 1..N : s[n] = t[n],
         NEW f, NEW g, IsFold(f, s, S, first, step), IsFold(g, t, S, first, step)
  PROVE  \A n \in 0..N : f[n] = g[n]
<1> DEFINE P == {n \in 0..N : f[n] = g[n]}
<1>1. 0 \in P
  BY DEF IsFold
<1>2. ASSUME NEW n \in 1..N, n - 1 \in P PROVE n \in P
  <2>1. n \in 1..Len(s) /\ n \in 1..Len(t) /\ n \in 0..N
    OBVIOUS
  <2>2. f[n] = step[<<f[n - 1], s[n]>>] /\ g[n] = step[<<g[n - 1], t[n]>>]
    BY <2>1 DEF IsFold
  <2> QED
    BY <1>2, <2>1, <2>2
<1>3. \A n \in 0..N : n \in P
  <2> HIDE DEF P
  <2> QED
    BY <1>1, <1>2, Induction
<1> QED
  BY <1>3

LEMMA AfterIs ==
  ASSUME NEW S, NEW T, NEW first, NEW step, IsStep(S, T, first, step)
  PROVE  /\ \A s \in Seq(T) : After(s, S, first, step) \in S
         /\ \A s \in Seq(T) : \A f : IsFold(f, s, S, first, step) => f[Len(s)] = After(s, S, first, step)
         /\ After(<< >>, S, first, step) = first
         /\ \A s \in Seq(T), c \in T :
              After(Append(s, c), S, first, step) = step[<<After(s, S, first, step), c>>]
<1> DEFINE Fold(s) == CHOOSE f : IsFold(f, s, S, first, step)
<1>1. ASSUME NEW s \in Seq(T) PROVE IsFold(Fold(s), s, S, first, step)
  BY FoldExists
<1>2. \A s : After(s, S, first, step) = Fold(s)[Len(s)]
  BY DEF After
<1> HIDE DEF Fold
<1>3. ASSUME NEW s \in Seq(T) PROVE Fold(s)[Len(s)] \in S
  <2>1. Len(s) \in 0..Len(s)
    OBVIOUS
  <2> QED
    BY <1>1, <2>1 DEF IsFold
<1>4. ASSUME NEW s \in Seq(T), NEW f, IsFold(f, s, S, first, step) PROVE f[Len(s)] = Fold(s)[Len(s)]
  <2>1. Len(s) \in Nat /\ Len(s) <= Len(s) /\ Len(s) \in 0..Len(s)
          /\ \A n \in 1..Len(s) : s[n] = s[n]
    OBVIOUS
  <2>2. \A n \in 0..Len(s) : f[n] = Fold(s)[n]
    BY <1>1, <1>4, <2>1, FoldsAgree
  <2> QED
    BY <2>1, <2>2
<1>5. Fold(<< >>)[Len(<< >>)] = first
  <2>1. << >> \in Seq(T) /\ Len(<< >>) = 0
    OBVIOUS
  <2> QED
    BY <1>1, <2>1 DEF IsFold
<1>6. ASSUME NEW s \in Seq(T), NEW c \in T
      PROVE  Fold(Append(s, c))[Len(Append(s, c))] = step[<<Fold(s)[Len(s)], c>>]
  <2> DEFINE t == Append(s, c)
             N == Len(s)
  <2>1. t \in Seq(T) /\ N \in Nat /\ Len(t) = N + 1 /\ t[N + 1] = c /\ \A n \in 1..N : t[n] = s[n]
    OBVIOUS
  <2> HIDE DEF t
  <2>2. IsFold(Fold(t), t, S, first, step) /\ IsFold(Fold(s), s, S, first, step)
    BY <1>1, <2>1
  <2>3. \A n \in 0..N : Fold(s)[n] = Fold(t)[n]
    <3>1. N <= Len(s) /\ N <= Len(t) /\ Len(s) \in Nat /\ Len(t) \in Nat
            /\ \A n \in 1..N : s[n] = t[n]
      BY <2>1
    <3>2. N \in Nat
      BY <2>1
    <3> HIDE DEF N, Fold
    <3> QED
      BY <2>2, <3>1, <3>2, FoldsAgree
  <2>4. Fold(t)[N + 1] = step[<<Fold(t)[N], t[N + 1]>>]
    <3>1. N + 1 \in 1..Len(t) /\ (N + 1) - 1 = N
      BY <2>1
    <3> HIDE DEF N
    <3> QED
      BY <2>2, <3>1 DEF IsFold
  <2>5. N \in 0..N
    BY <2>1
  <2> QED
    BY <2>1, <2>3, <2>4, <2>5 DEF t
<1> QED
  BY <1>2, <1>3, <1>4, <1>5, <1>6

----------------------------------------------------------------------------
(* fixlines                                                                *)

\* Joined is what its definition says, piece by piece.
LEMMA JoinedRounds ==
  ASSUME NEW T, NEW outs \in Seq(Seq(T))
  PROVE  \E all \in [0..Len(outs) -> Seq(T)] :
           /\ Fix!Joined(outs) = all[Len(outs)] /\ all[0] = << >>
           /\ \A n \in 1..Len(outs) : all[n] = all[n - 1] \o outs[n]
<1> DEFINE N == Len(outs)
           S == Seq(T)
           step == [x \in (1..N) \X S |-> x[2] \o outs[x[1]]]
           Is(s) == s = [n \in 0..N |-> IF n = 0 THEN << >> ELSE s[n - 1] \o outs[n]]
           all == CHOOSE s : Is(s)
<1>1. N \in Nat /\ \A n \in 1..N : outs[n] \in S
  OBVIOUS
<1>a. /\ 0 \in 0..N /\ N \in 0..N /\ \A n \in 0..N : n = 0 \/ n \in 1..N
      /\ \A n \in 1..N : n # 0 /\ n \in 0..N /\ n - 1 \in 0..N
  <2> HIDE DEF N
  <2> QED
    BY <1>1
<1>2. step \in [(1..N) \X S -> S]
  <2>1. \A a, b \in S : a \o b \in S
    BY ConcatProperties
  <2> HIDE DEF N, S
  <2> QED
    BY <1>1, <2>1
<1>3. << >> \in S
  OBVIOUS
<1>4. PICK f : IsLoop(f, N, S, << >>, step)
  <2> HIDE DEF N, S, step
  <2> QED
    BY <1>1, <1>2, <1>3, Loop
<1>5. f \in [0..N -> S] /\ f[0] = << >>
  BY <1>4 DEF IsLoop
<1>6. ASSUME NEW n \in 1..N PROVE f[n] = f[n - 1] \o outs[n]
  <2>1. f[n] = step[<<n, f[n - 1]>>]
    <3> HIDE DEF step
    <3> QED
      BY <1>4 DEF IsLoop
  <2>2. <<n, f[n - 1]>> \in (1..N) \X S
    <3> HIDE DEF N, S
    <3> QED
      BY <1>a, <1>5
  <2> QED
    BY <2>1, <2>2
<1>7. Is(f)
  <2> HIDE DEF N, S
  <2>1. \A n \in 0..N : f[n] = IF n = 0 THEN << >> ELSE f[n - 1] \o outs[n]
    BY <1>a, <1>5, <1>6
  <2> QED
    BY <1>5, <2>1
<1>8. Is(all)
  <2> HIDE DEF Is
  <2> QED
    BY <1>7
<1>9. Fix!Joined(outs) = all[N]
  BY DEF Fix!Joined
<1> HIDE DEF all
<1>10. all = [n \in 0..N |-> all[n]] /\ all[0] = << >>
       /\ \A n \in 1..N : all[n] = all[n - 1] \o outs[n]
  <2> HIDE DEF N, S
  <2>1. all = [n \in 0..N |-> IF n = 0 THEN << >> ELSE all[n - 1] \o outs[n]]
    BY <1>8
  <2> HIDE <1>8
  <2>2. \A n \in 0..N : all[n] = IF n = 0 THEN << >> ELSE all[n - 1] \o outs[n]
    BY <2>1
  <2>3. all = [n \in 0..N |-> all[n]]
    BY <2>1, <2>2
  <2> QED
    BY <1>a, <2>2, <2>3
<1> DEFINE P == {n \in 0..N : all[n] \in S}
<1>11. 0 \in P /\ \A n \in 1..N : n - 1 \in P => n \in P
  <2>1. 0 \in P
    BY <1>a, <1>3, <1>10
  <2>2. ASSUME NEW n \in 1..N, n - 1 \in P PROVE n \in P
    <3>1. all[n - 1] \o outs[n] \in S
      BY <1>1, <2>2, ConcatProperties
    <3> HIDE DEF S
    <3> QED
      BY <1>a, <1>10, <3>1
  <2> QED
    BY <2>1, <2>2
<1>12. \A n \in 0..N : n \in P
  <2> HIDE DEF P
  <2> QED
    BY <1>1, <1>11, Induction
<1>13. all \in [0..N -> S]
  BY <1>10, <1>12
<1> QED
  BY <1>9, <1>10, <1>13

LEMMA JoinedAppend ==
  ASSUME NEW T
  PROVE  /\ Fix!Joined(<< >>) = << >>
         /\ \A outs \in Seq(Seq(T)) : Fix!Joined(outs) \in Seq(T)
         /\ \A outs \in Seq(Seq(T)), s \in Seq(T) :
              Fix!Joined(Append(outs, s)) = Fix!Joined(outs) \o s
<1> DEFINE S == Seq(T)
           step == [x \in S \X S |-> x[1] \o x[2]]
           End(outs) == After(outs, S, << >>, step)
<1>1. IsStep(S, S, << >>, step)
  <2>1. \A a, b \in S : a \o b \in S
    BY ConcatProperties
  <2>2. << >> \in S
    OBVIOUS
  <2> HIDE DEF S
  <2> QED
    BY <2>1, <2>2 DEF IsStep
<1>2. /\ \A outs \in Seq(S) : End(outs) \in S
      /\ \A outs \in Seq(S) : \A f : IsFold(f, outs, S, << >>, step) => f[Len(outs)] = End(outs)
      /\ End(<< >>) = << >>
      /\ \A outs \in Seq(S), s \in S : End(Append(outs, s)) = step[<<End(outs), s>>]
  <2> HIDE DEF S, step
  <2> QED
    BY <1>1, AfterIs
<1>3. ASSUME NEW outs \in Seq(S) PROVE Fix!Joined(outs) = End(outs)
  <2> DEFINE N == Len(outs)
  <2>1. PICK all \in [0..N -> S] :
          /\ Fix!Joined(outs) = all[N] /\ all[0] = << >>
          /\ \A n \in 1..N : all[n] = all[n - 1] \o outs[n]
    BY JoinedRounds
  <2>2. ASSUME NEW n \in 1..N PROVE all[n] = step[<<all[n - 1], outs[n]>>]
    <3>1. n - 1 \in 0..N /\ outs[n] \in S
      OBVIOUS
    <3>2. <<all[n - 1], outs[n]>> \in S \X S
      <4> HIDE DEF S, N
      <4> QED
        BY <3>1
    <3> HIDE DEF S, N
    <3> QED
      BY <2>1, <3>2
  <2>3. IsFold(all, outs, S, << >>, step)
    <3> HIDE DEF S, step
    <3> QED
      BY <2>1, <2>2 DEF IsFold
  <2> HIDE DEF S, step, End
  <2> QED
    BY <1>2, <2>1, <2>3
<1>4. << >> \in Seq(S)
  OBVIOUS
<1>5. ASSUME NEW outs \in Seq(S), NEW s \in S
      PROVE  Fix!Joined(Append(outs, s)) = Fix!Joined(outs) \o s
  <2>1. Append(outs, s) \in Seq(S)
    OBVIOUS
  <2>2. step[<<End(outs), s>>] = End(outs) \o s
    <3>1. End(outs) \in S
      BY <1>2
    <3> HIDE DEF S, End
    <3> QED
      BY <3>1
  <2> HIDE DEF S, step, End
  <2> QED
    BY <1>2, <1>3, <2>1, <2>2
<1> HIDE DEF End, step
<1> QED
  BY <1>2, <1>3, <1>4, <1>5

\* What comes in the place of a character.
Instead(c, from, to) == IF c = from THEN to ELSE <<c>>

Replaces(T, from, to) ==
  /\ Fix!Replaced(<< >>, from, to) = << >>
  /\ \A s \in Seq(T) : Fix!Replaced(s, from, to) \in Seq(T)
  /\ \A s \in Seq(T), c \in T :
       Fix!Replaced(Append(s, c), from, to) = Fix!Replaced(s, from, to) \o Instead(c, from, to)

LEMMA ReplacedIs ==
  ASSUME NEW T, NEW from, NEW to \in Seq(T)
  PROVE  Replaces(T, from, to)
<1> DEFINE Piece(c) == Instead(c, from, to)
           Pieces(s) == [k \in DOMAIN s |-> Piece(s[k])]
<1>1. \A s : Fix!Replaced(s, from, to) = Fix!Joined(Pieces(s))
  BY DEF Fix!Replaced, Instead
<1>2. \A c \in T : Piece(c) \in Seq(T)
  BY DEF Instead
<1> HIDE DEF Piece
<1>3. Pieces(<< >>) = << >>
  OBVIOUS
<1>4. ASSUME NEW s \in Seq(T) PROVE Pieces(s) \in Seq(Seq(T))
  <2>1. DOMAIN s = 1..Len(s) /\ Len(s) \in Nat /\ \A k \in 1..Len(s) : s[k] \in T
    OBVIOUS
  <2>2. \A k \in 1..Len(s) : Piece(s[k]) \in Seq(T)
    BY <1>2, <2>1
  <2> DEFINE U == Seq(T)
  <2> HIDE DEF U
  <2> QED
    BY <2>1, <2>2 DEF U
<1>5. ASSUME NEW s \in Seq(T), NEW c \in T PROVE Pieces(Append(s, c)) = Append(Pieces(s), Piece(c))
  <2> DEFINE t == Append(s, c)
             N == Len(s)
             p == Pieces(s)
             d == Piece(c)
             q == Append(p, d)
  <2>1. DOMAIN s = 1..N /\ N \in Nat /\ DOMAIN t = 1..(N + 1) /\ t[N + 1] = c
          /\ \A n \in 1..N : t[n] = s[n]
    OBVIOUS
  <2>2. p \in Seq(Seq(T)) /\ Piece(c) \in Seq(T) /\ DOMAIN p = 1..N
    BY <1>2, <1>4, <2>1
  <2> DEFINE U == Seq(T)
  <2> HIDE DEF U, p, d
  <2>3. Len(p) = N
    BY <2>1, <2>2
  <2>4. q = [k \in 1..(N + 1) |-> IF k = N + 1 THEN d ELSE p[k]]
    <3>1. p \in Seq(U) /\ d \in U /\ Len(p) = N /\ N \in Nat
      BY <2>1, <2>2, <2>3 DEF U, d
    <3> HIDE DEF N
    <3>2. /\ q \in Seq(U) /\ Len(q) = N + 1
          /\ \A k \in 1..N : q[k] = p[k]
          /\ q[N + 1] = d
      BY <3>1, AppendProperties
    <3> HIDE DEF q
    <3>3. q \in [1..(N + 1) -> U]
      BY <3>2, LenProperties
    <3>4. \A k \in 1..(N + 1) : k # N + 1 => k \in 1..N
      BY <3>1
    <3> QED
      BY <3>2, <3>3, <3>4
  <2>5. \A k \in 1..(N + 1) : Piece(t[k]) = IF k = N + 1 THEN d ELSE p[k]
    <3> SUFFICES ASSUME NEW k \in 1..(N + 1) PROVE Piece(t[k]) = IF k = N + 1 THEN d ELSE p[k]
      OBVIOUS
    <3>1. CASE k = N + 1
      BY <2>1, <3>1 DEF d
    <3>2. CASE k # N + 1
      <4>1. k \in 1..N
        BY <2>1, <3>2
      <4>2. t[k] = s[k]
        BY <2>1, <4>1
      <4>3. p[k] = Piece(s[k])
        BY <2>1, <4>1 DEF p
      <4> QED
        BY <3>2, <4>2, <4>3
    <3> QED
      BY <3>1, <3>2
  <2>6. Pieces(t) = [k \in 1..(N + 1) |-> Piece(t[k])]
    BY <2>1
  <2> HIDE DEF q, Pieces, t
  <2>7. Pieces(t) = q
    BY <2>4, <2>5, <2>6
  <2> QED
    BY <2>7 DEF t, q, p, d
<1> HIDE DEF Pieces
<1>6. ASSUME NEW s \in Seq(T), NEW c \in T
      PROVE  Fix!Joined(Pieces(Append(s, c))) = Fix!Joined(Pieces(s)) \o Piece(c)
  BY <1>2, <1>4, <1>5, JoinedAppend
<1>7. Fix!Joined(Pieces(<< >>)) = << >> /\ \A s \in Seq(T) : Fix!Joined(Pieces(s)) \in Seq(T)
  BY <1>3, <1>4, JoinedAppend
<1>8. ASSUME NEW s \in Seq(T), NEW c \in T
      PROVE  Fix!Replaced(Append(s, c), from, to) =
               Fix!Replaced(s, from, to) \o Instead(c, from, to)
  BY <1>1, <1>6 DEF Piece
<1> QED
  BY <1>1, <1>7, <1>8 DEF Replaces

\* What -dos does to a text, and what -r -dos does to one whose lines are ended.
Undone(text) == Fix!Replaced(text, "\r", << >>)
Done(text)   == Fix!Replaced(text, "\n", <<"\r", "\n">>)

\* A text of a file.
HasEnds(T) == "\r" \in T /\ "\n" \in T

LEMMA DosSteps ==
  ASSUME NEW T, HasEnds(T)
  PROVE  /\ Undone(<< >>) = << >> /\ Done(<< >>) = << >>
         /\ \A s \in Seq(T) : Undone(s) \in Seq(T) /\ Done(s) \in Seq(T)
         /\ \A s \in Seq(T), c \in T :
              /\ c = "\r" => Undone(Append(s, c)) = Undone(s)
              /\ c # "\r" => Undone(Append(s, c)) = Append(Undone(s), c)
              /\ c = "\n" => Done(Append(s, c)) = Append(Append(Done(s), "\r"), "\n")
              /\ c # "\n" => Done(Append(s, c)) = Append(Done(s), c)
<1>1. << >> \in Seq(T) /\ <<"\r", "\n">> \in Seq(T)
  BY DEF HasEnds
<1>a. Replaces(T, "\r", << >>) /\ Replaces(T, "\n", <<"\r", "\n">>)
  BY <1>1, ReplacedIs
<1>2. /\ Undone(<< >>) = << >> /\ Done(<< >>) = << >>
      /\ \A s \in Seq(T) : Undone(s) \in Seq(T) /\ Done(s) \in Seq(T)
  BY <1>a, Zenon DEF Replaces, Undone, Done
<1>3. ASSUME NEW s \in Seq(T), NEW c \in T
      PROVE  /\ Undone(Append(s, c)) = Undone(s) \o Instead(c, "\r", << >>)
             /\ Done(Append(s, c)) = Done(s) \o Instead(c, "\n", <<"\r", "\n">>)
  BY <1>a, Zenon DEF Replaces, Undone, Done
<1>4. \A u \in Seq(T) : u \o << >> = u
  BY ConcatEmptySeq
<1>5. \A u \in Seq(T), c \in T : u \o <<c>> = Append(u, c)
  OBVIOUS
<1>6. ASSUME NEW u \in Seq(T) PROVE u \o <<"\r", "\n">> = Append(Append(u, "\r"), "\n")
  <2>1. "\r" \in T /\ "\n" \in T
    BY DEF HasEnds
  <2> DEFINE r == "\r"
             n == "\n"
  <2> HIDE DEF r, n
  <2>2. r \in T /\ n \in T
    BY <2>1 DEF r, n
  <2>3. u \o <<r, n>> = Append(Append(u, r), n)
    BY <2>2
  <2> QED
    BY <2>3 DEF r, n
<1>7. ASSUME NEW s \in Seq(T), NEW c \in T
      PROVE  /\ c = "\r" => Undone(Append(s, c)) = Undone(s)
             /\ c # "\r" => Undone(Append(s, c)) = Append(Undone(s), c)
             /\ c = "\n" => Done(Append(s, c)) = Append(Append(Done(s), "\r"), "\n")
             /\ c # "\n" => Done(Append(s, c)) = Append(Done(s), c)
  <2> DEFINE u == Undone(s)
             d == Done(s)
  <2>1. u \in Seq(T) /\ d \in Seq(T)
    BY <1>2
  <2>2. /\ Undone(Append(s, c)) = u \o Instead(c, "\r", << >>)
        /\ Done(Append(s, c)) = d \o Instead(c, "\n", <<"\r", "\n">>)
    BY <1>3
  <2> HIDE DEF u, d
  <2>3. u \o << >> = u /\ u \o <<c>> = Append(u, c) /\ d \o <<c>> = Append(d, c)
    BY <1>4, <1>5, <2>1
  <2>4. d \o <<"\r", "\n">> = Append(Append(d, "\r"), "\n")
    BY <1>6, <2>1
  <2> QED
    BY <2>2, <2>3, <2>4, Zenon DEF u, d, Instead
<1> QED
  BY <1>2, <1>7

\* The last character of a text that is not empty, and what may follow it.
LEMMA EndOfAppend ==
  ASSUME NEW T, NEW s \in Seq(T), NEW c \in T
  PROVE  /\ Append(s, c) \in Seq(T) /\ Append(s, c) # << >>
         /\ Len(Append(s, c)) = Len(s) + 1 /\ Len(s) \in Nat
         /\ DOMAIN Append(s, c) = 1..(Len(s) + 1) /\ DOMAIN s = 1..Len(s)
         /\ Append(s, c)[Len(s) + 1] = c
         /\ \A k \in 1..Len(s) : Append(s, c)[k] = s[k]
         /\ s # << >> <=> Len(s) > 0
OBVIOUS

\* The ends of the lines are pairs.
Paired(text) ==
  \A k \in DOMAIN text :
    /\ text[k] = "\r" => k < Len(text) /\ text[k + 1] = "\n"
    /\ text[k] = "\n" => k > 1 /\ text[k - 1] = "\r"

\* They are up to there: the last pair may be cut in two.
Half(text) ==
  \A k \in DOMAIN text :
    /\ text[k] = "\r" /\ k < Len(text) => text[k + 1] = "\n"
    /\ text[k] = "\n" => k > 1 /\ text[k - 1] = "\r"

LEMMA PairedPlain ==
  ASSUME NEW T, NEW s \in Seq(T), NEW c \in T, Paired(s), c # "\r", c # "\n"
  PROVE  Paired(Append(s, c))
<1> DEFINE t == Append(s, c)
           N == Len(s)
<1>1. /\ Len(t) = N + 1 /\ N \in Nat /\ DOMAIN t = 1..(N + 1) /\ DOMAIN s = 1..N
      /\ t[N + 1] = c /\ \A k \in 1..N : t[k] = s[k]
  BY EndOfAppend
<1> HIDE DEF t, N
<1>2. ASSUME NEW k \in 1..(N + 1)
      PROVE  /\ t[k] = "\r" => k < N + 1 /\ t[k + 1] = "\n"
             /\ t[k] = "\n" => k > 1 /\ t[k - 1] = "\r"
  <2>1. CASE k = N + 1
    BY <1>1, <2>1
  <2>2. CASE k # N + 1
    <3>1. k \in 1..N
      BY <1>1, <2>2
    <3>2. /\ s[k] = "\r" => k < N /\ s[k + 1] = "\n"
          /\ s[k] = "\n" => k > 1 /\ s[k - 1] = "\r"
      BY <1>1, <3>1 DEF Paired, N
    <3>3. t[k] = s[k] /\ (k < N => t[k + 1] = s[k + 1]) /\ (k > 1 => t[k - 1] = s[k - 1])
      BY <1>1, <3>1
    <3> QED
      BY <1>1, <3>1, <3>2, <3>3
  <2> QED
    BY <2>1, <2>2
<1> QED
  BY <1>1, <1>2 DEF Paired, t

LEMMA PairedPair ==
  ASSUME NEW T, HasEnds(T), NEW s \in Seq(T), Paired(s)
  PROVE  Paired(Append(Append(s, "\r"), "\n"))
<1> DEFINE h == Append(s, "\r")
           t == Append(h, "\n")
           N == Len(s)
<1>0. "\r" \in T /\ "\n" \in T
  BY DEF HasEnds
<1>1. /\ h \in Seq(T) /\ Len(h) = N + 1 /\ N \in Nat /\ DOMAIN s = 1..N
      /\ h[N + 1] = "\r" /\ \A k \in 1..N : h[k] = s[k]
  BY <1>0, EndOfAppend
<1> HIDE DEF h, N
<1>2. /\ Len(t) = N + 2 /\ DOMAIN t = 1..(N + 2)
      /\ t[N + 2] = "\n" /\ \A k \in 1..(N + 1) : t[k] = h[k]
  <2>1. /\ Len(t) = Len(h) + 1 /\ DOMAIN t = 1..(Len(h) + 1)
        /\ t[Len(h) + 1] = "\n" /\ \A k \in 1..Len(h) : t[k] = h[k]
    BY <1>0, <1>1, EndOfAppend
  <2>2. Len(h) + 1 = N + 2
    BY <1>1
  <2> HIDE DEF t
  <2> QED
    BY <1>1, <2>1, <2>2
<1> HIDE DEF t
<1>3. \A k \in 1..N : t[k] = s[k]
  BY <1>1, <1>2
<1>4. t[N + 1] = "\r" /\ t[N + 2] = "\n"
  BY <1>1, <1>2
<1>5. ASSUME NEW k \in 1..(N + 2)
      PROVE  /\ t[k] = "\r" => k < N + 2 /\ t[k + 1] = "\n"
             /\ t[k] = "\n" => k > 1 /\ t[k - 1] = "\r"
  <2>1. CASE k = N + 2
    <3>1. t[k] = "\n" /\ t[k - 1] = "\r" /\ k > 1
      BY <1>1, <1>4, <2>1
    <3> QED
      BY <3>1
  <2>2. CASE k = N + 1
    <3>1. t[k] = "\r" /\ t[k + 1] = "\n" /\ k < N + 2
      BY <1>1, <1>4, <2>2
    <3> QED
      BY <3>1
  <2>3. CASE k \in 1..N
    <3>2. /\ s[k] = "\r" => k < N /\ s[k + 1] = "\n"
          /\ s[k] = "\n" => k > 1 /\ s[k - 1] = "\r"
      BY <1>1, <2>3 DEF Paired, N
    <3>3. t[k] = s[k] /\ (k < N => t[k + 1] = s[k + 1]) /\ (k > 1 => t[k - 1] = s[k - 1])
      BY <1>1, <1>3, <2>3
    <3> QED
      BY <1>1, <2>3, <3>2, <3>3
  <2> QED
    BY <1>1, <2>1, <2>2, <2>3
<1> QED
  BY <1>2, <1>5 DEF Paired, t, h

\* From the convention of Unix to that of DOS and back.
LEMMA UnixThereAndBack ==
  ASSUME NEW T, HasEnds(T), NEW text \in Seq(T), "\r" \notin Fix!Elements(text)
  PROVE  /\ Undone(Done(text)) = text /\ Paired(Done(text))
         /\ Fix!Ended(text) => Fix!Ended(Done(text))
<1> DEFINE Goal(t) == /\ Undone(Done(t)) = t /\ Paired(Done(t))
                      /\ Fix!Ended(t) => Fix!Ended(Done(t))
           P == {t \in Seq(T) : "\r" \notin Fix!Elements(t) => Goal(t)}
<1>1. << >> \in P
  <2>1. Undone(<< >>) = << >> /\ Done(<< >>) = << >> /\ << >> \in Seq(T)
    BY DosSteps
  <2>2. Paired(<< >>) /\ Fix!Ended(<< >>)
    BY DEF Paired, Fix!Ended
  <2> QED
    BY <2>1, <2>2
<1>2. ASSUME NEW s \in Seq(T), NEW c \in T, s \in P PROVE Append(s, c) \in P
  <2> DEFINE t == Append(s, c)
  <2>1. t \in Seq(T) /\ Done(s) \in Seq(T) /\ "\r" \in T /\ "\n" \in T
    BY DosSteps, EndOfAppend DEF HasEnds
  <2> SUFFICES ASSUME "\r" \notin Fix!Elements(t) PROVE Goal(t)
    BY <2>1
  <2>2. c # "\r" /\ "\r" \notin Fix!Elements(s)
    <3>1. \A k \in 1..(Len(s) + 1) : t[k] # "\r"
      BY EndOfAppend DEF Fix!Elements
    <3> HIDE DEF t
    <3>2. t[Len(s) + 1] = c /\ Len(s) \in Nat /\ DOMAIN s = 1..Len(s)
            /\ \A k \in 1..Len(s) : t[k] = s[k]
      BY EndOfAppend DEF t
    <3>3. Len(s) + 1 \in 1..(Len(s) + 1) /\ \A k \in 1..Len(s) : k \in 1..(Len(s) + 1)
      BY <3>2
    <3> QED
      BY <3>1, <3>2, <3>3 DEF Fix!Elements
  <2>3. Undone(Done(s)) = s /\ Paired(Done(s))
    BY <1>2, <2>2
  <2> HIDE DEF Goal, P
  <2>4. CASE c = "\n"
    <3> DEFINE d == Done(s)
               h == Append(d, "\r")
    <3>1. Done(t) = Append(h, "\n")
      BY <2>4, DosSteps
    <3>2. h \in Seq(T) /\ Undone(h) = Undone(d)
      BY <2>1, DosSteps, EndOfAppend
    <3> HIDE DEF h
    <3>3. Undone(Append(h, "\n")) = Append(Undone(h), "\n")
      <4>1. "\n" # "\r"
        OBVIOUS
      <4> QED
        BY <2>1, <3>2, <4>1, DosSteps
    <3>4. Undone(Done(t)) = t
      BY <2>3, <2>4, <3>1, <3>2, <3>3
    <3>5. Paired(Done(t))
      BY <2>1, <2>3, <3>1, PairedPair DEF h
    <3>6. Fix!Ended(Done(t))
      <4>1. Append(h, "\n")[Len(Append(h, "\n"))] = "\n"
        BY <2>1, <3>2
      <4> QED
        BY <3>1, <4>1 DEF Fix!Ended
    <3> QED
      BY <3>4, <3>5, <3>6 DEF Goal
  <2>5. CASE c # "\n"
    <3> DEFINE d == Done(s)
    <3>1. Done(t) = Append(d, c)
      BY <2>5, DosSteps
    <3>2. Undone(Append(d, c)) = Append(Undone(d), c)
      BY <2>1, <2>2, DosSteps
    <3>3. Undone(Done(t)) = t
      BY <2>3, <3>1, <3>2
    <3>4. Paired(Done(t))
      BY <2>1, <2>2, <2>3, <2>5, <3>1, PairedPlain
    <3>5. ~Fix!Ended(t)
      <4>1. t # << >> /\ t[Len(t)] = c
        OBVIOUS
      <4> QED
        BY <2>5, <4>1 DEF Fix!Ended
    <3> QED
      BY <3>3, <3>4, <3>5 DEF Goal
  <2> QED
    BY <2>4, <2>5
<1>3. text \in P
  <2> HIDE DEF P
  <2> QED
    BY <1>1, <1>2, SeqInduction
<1> QED
  BY <1>3

\* From the convention of DOS to that of Unix and back, as far as a text goes.
LEMMA DosThereAndBack ==
  ASSUME NEW T, HasEnds(T), NEW text \in Seq(T), Half(text)
  PROVE  IF text # << >> /\ text[Len(text)] = "\r" THEN Append(Done(Undone(text)), "\r") = text
         ELSE Done(Undone(text)) = text
<1> DEFINE Cut(t) == t # << >> /\ t[Len(t)] = "\r"
           Goal(t) == IF Cut(t) THEN Append(Done(Undone(t)), "\r") = t ELSE Done(Undone(t)) = t
           P == {t \in Seq(T) : Half(t) => Goal(t)}
<1>1. << >> \in P
  <2>1. Undone(<< >>) = << >> /\ Done(<< >>) = << >> /\ << >> \in Seq(T) /\ ~Cut(<< >>)
    BY DosSteps
  <2> HIDE DEF Cut
  <2> QED
    BY <2>1
<1>2. ASSUME NEW s \in Seq(T), NEW c \in T, s \in P PROVE Append(s, c) \in P
  <2> DEFINE t == Append(s, c)
             N == Len(s)
             u == Undone(s)
             d == Done(u)
  <2>0. "\r" \in T /\ "\n" \in T
    BY DEF HasEnds
  <2>1. /\ t \in Seq(T) /\ t # << >> /\ Len(t) = N + 1 /\ N \in Nat
        /\ DOMAIN t = 1..(N + 1) /\ DOMAIN s = 1..N
        /\ t[N + 1] = c /\ (s # << >> <=> N > 0)
        /\ \A k \in 1..N : t[k] = s[k]
    BY EndOfAppend
  <2>2. u \in Seq(T) /\ d \in Seq(T)
    BY DosSteps
  <2> HIDE DEF P, Goal
  <2> SUFFICES ASSUME Half(t) PROVE Goal(t)
    BY <2>1 DEF P
  <2> HIDE DEF t, N
  <2>3. \A k \in 1..(N + 1) : /\ t[k] = "\r" /\ k < N + 1 => t[k + 1] = "\n"
                              /\ t[k] = "\n" => k > 1 /\ t[k - 1] = "\r"
    BY <2>1 DEF Half
  <2>4. Half(s)
    <3>1. ASSUME NEW k \in 1..N
          PROVE  /\ s[k] = "\r" /\ k < N => s[k + 1] = "\n"
                 /\ s[k] = "\n" => k > 1 /\ s[k - 1] = "\r"
      <4>1. t[k] = s[k] /\ (k < N => t[k + 1] = s[k + 1]) /\ (k > 1 => t[k - 1] = s[k - 1])
        BY <2>1
      <4>2. k \in 1..(N + 1) /\ k < N + 1
        BY <2>1
      <4> QED
        BY <2>3, <4>1, <4>2
    <3> QED
      BY <2>1, <3>1 DEF Half, N
  <2>5. Goal(s)
    BY <1>2, <2>4 DEF P
  <2>6. Cut(t) <=> c = "\r"
    BY <2>1
  <2>7. c = "\n" <=> Cut(s)
    <3>1. ASSUME c = "\n" PROVE Cut(s)
      <4>1. N + 1 \in 1..(N + 1) /\ (N + 1) - 1 = N
        BY <2>1
      <4>2. N + 1 > 1 /\ t[N] = "\r"
        BY <2>1, <2>3, <3>1, <4>1
      <4>3. N \in 1..N
        BY <2>1, <4>2
      <4> QED
        BY <2>1, <4>2, <4>3 DEF N
    <3>2. ASSUME Cut(s) PROVE c = "\n"
      <4>1. N \in 1..N
        BY <2>1, <3>2
      <4>2. N \in 1..(N + 1) /\ N < N + 1 /\ t[N] = "\r"
        BY <2>1, <3>2, <4>1 DEF N
      <4> QED
        BY <2>1, <2>3, <4>2
    <3> QED
      BY <3>1, <3>2
  <2>8. IF Cut(s) THEN Append(d, "\r") = s ELSE d = s
    BY <2>5 DEF Goal
  <2> HIDE DEF Cut
  <2>9. CASE c = "\r"
    <3>1. Undone(t) = u
      BY <2>9, DosSteps DEF t
    <3>2. ~Cut(s)
      BY <2>7, <2>9
    <3>3. Append(Done(Undone(t)), "\r") = t
      BY <2>8, <2>9, <3>1, <3>2 DEF t
    <3> QED
      BY <2>6, <2>9, <3>3 DEF Goal
  <2>10. CASE c = "\n"
    <3>1. c # "\r"
      BY <2>10
    <3>2. Undone(t) = Append(u, c)
      BY <3>1, DosSteps DEF t
    <3> HIDE DEF u
    <3>3. Done(Append(u, c)) = Append(Append(d, "\r"), "\n")
      BY <2>2, <2>10, DosSteps
    <3>4. Done(Undone(t)) = t
      BY <2>7, <2>8, <2>10, <3>2, <3>3 DEF t
    <3> QED
      BY <2>6, <3>1, <3>4 DEF Goal
  <2>11. CASE c # "\r" /\ c # "\n"
    <3>1. Undone(t) = Append(u, c)
      BY <2>11, DosSteps DEF t
    <3> HIDE DEF u
    <3>2. Done(Append(u, c)) = Append(d, c)
      BY <2>2, <2>11, DosSteps
    <3>3. Done(Undone(t)) = t
      BY <2>7, <2>8, <2>11, <3>1, <3>2 DEF t
    <3> QED
      BY <2>6, <2>11, <3>3 DEF Goal
  <2> QED
    BY <2>9, <2>10, <2>11
<1>3. text \in P
  <2> HIDE DEF P
  <2> QED
    BY <1>1, <1>2, SeqInduction
<1> QED
  BY <1>3

\* A text without "\r" that has lost its pairs is one of Unix.
LEMMA UndoneIsUnix ==
  ASSUME NEW T, HasEnds(T), NEW text \in Seq(T)
  PROVE  /\ "\r" \notin Fix!Elements(Undone(text))
         /\ Fix!Ended(text) => Fix!Ended(Undone(text))
<1> DEFINE Goal(t) == /\ "\r" \notin Fix!Elements(Undone(t))
                      /\ Fix!Ended(t) => Fix!Ended(Undone(t))
           P == {t \in Seq(T) : Goal(t)}
<1>1. << >> \in P
  <2>1. Undone(<< >>) = << >> /\ << >> \in Seq(T)
    BY DosSteps
  <2>2. Fix!Elements(<< >>) = {} /\ Fix!Ended(<< >>)
    BY DEF Fix!Elements, Fix!Ended
  <2> QED
    BY <2>1, <2>2
<1>2. ASSUME NEW s \in Seq(T), NEW c \in T, s \in P PROVE Append(s, c) \in P
  <2> DEFINE t == Append(s, c)
             u == Undone(s)
  <2>1. t \in Seq(T) /\ u \in Seq(T) /\ "\r" \notin Fix!Elements(u)
    BY <1>2, DosSteps
  <2>2. CASE c = "\r"
    <3>1. Undone(t) = u
      BY <2>2, DosSteps
    <3>2. ~Fix!Ended(t)
      <4>1. t # << >> /\ t[Len(t)] = "\r"
        BY <2>2
      <4> QED
        BY <4>1 DEF Fix!Ended
    <3> QED
      BY <2>1, <3>1, <3>2
  <2>3. CASE c # "\r"
    <3>1. Undone(t) = Append(u, c)
      BY <2>3, DosSteps
    <3> HIDE DEF u
    <3>2. "\r" \notin Fix!Elements(Append(u, c))
      <4>1. \A k \in 1..Len(u) : u[k] # "\r"
        BY <2>1 DEF Fix!Elements
      <4>2. /\ DOMAIN Append(u, c) = 1..(Len(u) + 1) /\ Append(u, c)[Len(u) + 1] = c
            /\ \A k \in 1..Len(u) : Append(u, c)[k] = u[k]
            /\ Len(u) \in Nat
        BY <2>1, EndOfAppend
      <4>3. \A k \in 1..(Len(u) + 1) : k = Len(u) + 1 \/ k \in 1..Len(u)
        BY <4>2
      <4> QED
        BY <2>3, <4>1, <4>2, <4>3 DEF Fix!Elements
    <3>3. Fix!Ended(t) => Fix!Ended(Append(u, c))
      <4>1. t # << >> /\ t[Len(t)] = c /\ Append(u, c)[Len(Append(u, c))] = c
        BY <2>1
      <4> QED
        BY <4>1 DEF Fix!Ended
    <3> QED
      BY <2>1, <3>1, <3>2, <3>3
  <2> QED
    BY <2>2, <2>3
<1>3. text \in P
  <2> HIDE DEF P
  <2> QED
    BY <1>1, <1>2, SeqInduction
<1> QED
  BY <1>3

\* What the options come to.
LEMMA CommandsAre ==
  /\ Fix!Command(<<"-r", "-dos">>, 1) = <<"-dos", TRUE>>
  /\ Fix!Command(<<"-r", "-mac">>, 1) = <<"-mac", TRUE>>
  /\ Fix!Command(<<"-mac", "-r">>, 1) = <<"-mac", TRUE>>
  /\ Fix!Command(<<"-dos">>, 1) = <<"-dos", FALSE>>
  /\ Fix!Command(<<"-mac">>, 1) = <<"-mac", FALSE>>
<1>1. ASSUME NEW mode \in {"-dos", "-mac"}
      PROVE  Fix!Command(<<"-r", mode>>, 1) = <<mode, TRUE>>
  <2> DEFINE args == <<"-r", mode>>
             modes == {k \in DOMAIN args : args[k] # "-r"}
             last == CHOOSE k \in modes : \A j \in modes : j <= k
  <2>1. DOMAIN args = {1, 2} /\ args[1] = "-r" /\ args[2] = mode /\ mode # "-r"
    OBVIOUS
  <2>2. modes = {2}
    BY <2>1
  <2>3. last = 2
    BY <2>2
  <2>4. Fix!Elements(args) = {"-r", mode}
    BY <2>1 DEF Fix!Elements
  <2> QED
    BY <2>1, <2>2, <2>3, <2>4 DEF Fix!Command
<1>2. ASSUME NEW mode \in {"-dos", "-mac"}
      PROVE  /\ Fix!Command(<<mode>>, 1) = <<mode, FALSE>>
             /\ Fix!Command(<<mode, "-r">>, 1) = <<mode, TRUE>>
  <2>1. ASSUME NEW args \in {<<mode>>, <<mode, "-r">>}
        PROVE  Fix!Command(args, 1) = <<mode, "-r" \in Fix!Elements(args)>>
    <3> DEFINE modes == {k \in DOMAIN args : args[k] # "-r"}
               last == CHOOSE k \in modes : \A j \in modes : j <= k
    <3>1. /\ DOMAIN args \in {{1}, {1, 2}} /\ args[1] = mode /\ mode # "-r"
          /\ 2 \in DOMAIN args => args[2] = "-r"
      OBVIOUS
    <3>2. modes = {1}
      BY <3>1
    <3>3. last = 1
      BY <3>2
    <3>4. Fix!Elements(args) \subseteq {"-r", mode}
      BY <3>1 DEF Fix!Elements
    <3> QED
      BY <3>1, <3>2, <3>3, <3>4 DEF Fix!Command
  <2>2. Fix!Elements(<<mode>>) = {mode} /\ "-r" \in Fix!Elements(<<mode, "-r">>)
    <3>1. <<mode, "-r">>[2] = "-r" /\ 2 \in DOMAIN <<mode, "-r">>
      OBVIOUS
    <3>2. DOMAIN <<mode>> = {1} /\ <<mode>>[1] = mode
      OBVIOUS
    <3> QED
      BY <3>1, <3>2 DEF Fix!Elements
  <2>3. "-r" \notin {mode}
    OBVIOUS
  <2>4. ("-r" \in Fix!Elements(<<mode>>)) = FALSE /\ ("-r" \in Fix!Elements(<<mode, "-r">>)) = TRUE
    BY <2>2, <2>3
  <2>5. Fix!Command(<<mode>>, 1) = <<mode, "-r" \in Fix!Elements(<<mode>>)>>
    BY <2>1
  <2>6. Fix!Command(<<mode, "-r">>, 1) = <<mode, "-r" \in Fix!Elements(<<mode, "-r">>)>>
    BY <2>1
  <2> QED
    BY <2>4, <2>5, <2>6, Zenon
<1> QED
  BY <1>1, <1>2

\* Conversion and back.
LEMMA FixRight ==
  ASSUME NEW text, IsSeq(text)
  PROVE  Fix!FixlinesInverts(text)
<1> DEFINE T == {text[k] : k \in DOMAIN text} \cup {"\r", "\n"}
           ToDos   == Fix!EachLine(text, <<"\r", "\n">>)
           ToMac   == Fix!Translate(text, "\n", "\r")
           FromDos == Undone(text)
           FromMac == Fix!Translate(text, "\r", "\n")
<1>1. HasEnds(T) /\ text \in Seq(T)
  BY SeqMonotonic DEF HasEnds, IsSeq
<1> HIDE DEF T
<1>2. /\ DOMAIN text = 1..Len(text) /\ Len(text) \in Nat
      /\ \A from, to : Fix!Translate(text, from, to) = [k \in DOMAIN text |-> IF text[k] = from THEN to ELSE text[k]]
  BY <1>1 DEF Fix!Translate
<1>3. ASSUME NEW t PROVE /\ Fix!Convert(<<"-dos", TRUE>>, t) = Fix!EachLine(t, <<"\r", "\n">>)
                         /\ Fix!Convert(<<"-dos", FALSE>>, t) = Undone(t)
                         /\ Fix!Convert(<<"-mac", TRUE>>, t) = Fix!Translate(t, "\n", "\r")
                         /\ Fix!Convert(<<"-mac", FALSE>>, t) = Fix!Translate(t, "\r", "\n")
  BY DEF Fix!Convert, Undone
<1>4. \A t : Fix!Ended(t) => Fix!EachLine(t, <<"\r", "\n">>) = Done(t)
  BY DEF Fix!EachLine, Done
<1>5. ASSUME Fix!IsUnix(text) PROVE Fix!IsDos(ToDos) /\ Undone(ToDos) = text
  <2>1. "\r" \notin Fix!Elements(text) /\ Fix!Ended(text)
    BY <1>5 DEF Fix!IsUnix
  <2>2. ToDos = Done(text)
    BY <1>4, <2>1
  <2>3. Undone(Done(text)) = text /\ Paired(Done(text)) /\ Fix!Ended(Done(text))
    BY <1>1, <2>1, UnixThereAndBack
  <2> QED
    BY <2>2, <2>3 DEF Fix!IsDos, Paired
<1>6. ASSUME Fix!IsUnix(text) PROVE Fix!IsMac(ToMac) /\ Fix!Translate(ToMac, "\r", "\n") = text
  <2>1. \A k \in DOMAIN text : text[k] # "\r"
    BY <1>5, <1>6 DEF Fix!IsUnix, Fix!Elements
  <2>2. DOMAIN ToMac = DOMAIN text
          /\ \A k \in DOMAIN text : ToMac[k] = IF text[k] = "\n" THEN "\r" ELSE text[k]
    BY DEF Fix!Translate
  <2>3. Fix!IsMac(ToMac)
    BY <2>2 DEF Fix!IsMac, Fix!Elements
  <2> HIDE DEF ToMac
  <2>4. Fix!Translate(ToMac, "\r", "\n") = [k \in DOMAIN text |-> text[k]]
    BY <2>1, <2>2 DEF Fix!Translate
  <2>5. text = [k \in DOMAIN text |-> text[k]]
    BY <1>1
  <2> QED
    BY <2>3, <2>4, <2>5 DEF ToMac
<1>7. ASSUME Fix!IsDos(text)
      PROVE  Fix!IsUnix(FromDos) /\ Fix!EachLine(FromDos, <<"\r", "\n">>) = text
  <2>1. Fix!Ended(text) /\ Half(text) /\ ~(text # << >> /\ text[Len(text)] = "\r")
    BY <1>7 DEF Fix!IsDos, Fix!Ended, Half
  <2>2. "\r" \notin Fix!Elements(FromDos) /\ Fix!Ended(FromDos)
    BY <1>1, <2>1, UndoneIsUnix
  <2>3. Done(FromDos) = text
    BY <1>1, <2>1, DosThereAndBack
  <2> QED
    BY <1>4, <2>2, <2>3 DEF Fix!IsUnix
<1>8. ASSUME Fix!IsMac(text) PROVE Fix!Translate(FromMac, "\n", "\r") = text
  <2>1. \A k \in DOMAIN text : text[k] # "\n"
    BY <1>8 DEF Fix!IsMac, Fix!Elements
  <2>2. DOMAIN FromMac = DOMAIN text
          /\ \A k \in DOMAIN text : FromMac[k] = IF text[k] = "\r" THEN "\n" ELSE text[k]
    BY DEF Fix!Translate
  <2> HIDE DEF FromMac
  <2>4. Fix!Translate(FromMac, "\n", "\r") = [k \in DOMAIN text |-> text[k]]
    BY <2>1, <2>2 DEF Fix!Translate
  <2>5. text = [k \in DOMAIN text |-> text[k]]
    BY <1>1
  <2> QED
    BY <2>4, <2>5 DEF FromMac
<1> HIDE DEF ToDos, ToMac, FromDos, FromMac
<1>9. /\ Fix!Convert(<<"-dos", TRUE>>, text) = ToDos /\ Fix!Convert(<<"-mac", TRUE>>, text) = ToMac
      /\ Fix!Convert(<<"-dos", FALSE>>, text) = FromDos
           /\ Fix!Convert(<<"-mac", FALSE>>, text) = FromMac
  BY <1>3 DEF ToDos, ToMac, FromDos, FromMac
<1> QED
  BY <1>3, <1>5, <1>6, <1>7, <1>8, <1>9, CommandsAre DEF Fix!FixlinesInverts

----------------------------------------------------------------------------
(* pod.c                                                                   *)

PodRow(T)   == [pos : Nat, bytes : Seq(T), text : Seq(T \cup {"."})]
PodState(T) == [left : Seq(T), pos : Nat, rows : Seq(PodRow(T))]

\* What a round does: it takes nb bytes for a row.
Takes(T, s, r, nb, row) ==
  /\ nb \in 1..RowLen /\ nb <= Len(s.left) /\ (nb = RowLen \/ nb = Len(s.left))
  /\ row \in PodRow(T) /\ row.pos = s.pos
  /\ Len(row.bytes) = nb /\ \A i \in 1..nb : row.bytes[i] = s.left[i]
  /\ r \in PodState(T) /\ r.pos = s.pos + nb /\ r.rows = Append(s.rows, row)
  /\ Len(r.left) = Len(s.left) - nb
  /\ \A i \in 1..(Len(s.left) - nb) : r.left[i] = s.left[nb + i]

LEMMA RowIs ==
  ASSUME NEW T, PodNumbers, NEW s \in PodState(T), s.left # << >>
  PROVE  \E nb, row : Takes(T, s, Od!Row(s), nb, row)
<1> DEFINE left == s.left
           N == Len(left)
           nb == IF N < RowLen THEN N ELSE RowLen
           bytes == SubSeq(left, 1, nb)
           rest == SubSeq(left, nb + 1, N)
           chars == [i \in 1..nb |-> IF bytes[i] \in Printable THEN bytes[i] ELSE "."]
           row == [pos |-> s.pos, bytes |-> bytes, text |-> chars]
           r == [left |-> rest, pos |-> s.pos + nb, rows |-> Append(s.rows, row)]
<1>1. left \in Seq(T) /\ N \in Nat /\ N > 0 /\ (\A i \in 1..N : left[i] \in T)
      /\ s.pos \in Nat /\ s.rows \in Seq(PodRow(T))
  BY DEF PodState
<1>2. Od!Row(s) = r
  BY DEF Od!Row
<1> HIDE DEF left, N
<1>3. nb \in 1..RowLen /\ nb <= N /\ (nb = RowLen \/ nb = N) /\ nb \in Nat /\ nb \in Int
        /\ N \in Int
      /\ nb + 1 \in Int /\ 1 \in Int
  BY <1>1 DEF PodNumbers
<1> HIDE DEF nb
<1>4. \A i \in 1..nb : left[i] \in T
  BY <1>1, <1>3
<1>5. \A i \in (nb + 1)..N : left[i] \in T
  BY <1>1, <1>3
<1>6. bytes \in Seq(T) /\ Len(bytes) = nb /\ \A i \in 1..nb : bytes[i] = left[i]
  <2>1. /\ bytes \in Seq(T) /\ Len(bytes) = (IF 1 <= nb THEN nb - 1 + 1 ELSE 0)
        /\ \A i \in 1..(nb - 1 + 1) : bytes[i] = left[1 + i - 1]
    BY <1>3, <1>4, SubSeqProperties
  <2> HIDE DEF bytes
  <2>2. nb - 1 + 1 = nb /\ 1 <= nb /\ \A i \in 1..nb : 1 + i - 1 = i
    BY <1>3
  <2> QED
    BY <2>1, <2>2
<1>7. rest \in Seq(T) /\ Len(rest) = N - nb /\ \A i \in 1..(N - nb) : rest[i] = left[nb + i]
  <2>1. /\ rest \in Seq(T) /\ Len(rest) = (IF nb + 1 <= N THEN N - (nb + 1) + 1 ELSE 0)
        /\ \A i \in 1..(N - (nb + 1) + 1) : rest[i] = left[(nb + 1) + i - 1]
    BY <1>3, <1>5, SubSeqProperties
  <2> HIDE DEF rest
  <2>2. N - (nb + 1) + 1 = N - nb /\ (~(nb + 1 <= N) => N - nb = 0)
        /\ \A i \in 1..(N - nb) : (nb + 1) + i - 1 = nb + i
    BY <1>1, <1>3
  <2> QED
    BY <2>1, <2>2
<1> HIDE DEF bytes, rest
<1>8. chars \in Seq(T \cup {"."})
  <2>1. \A i \in 1..nb : bytes[i] \in T
    BY <1>6
  <2>2. \A i \in 1..nb : (IF bytes[i] \in Printable THEN bytes[i] ELSE ".") \in T \cup {"."}
    BY <2>1
  <2> QED
    BY <1>3, <2>2
<1> HIDE DEF chars
<1>9. row \in PodRow(T) /\ row.pos = s.pos /\ row.bytes = bytes
  BY <1>1, <1>6, <1>8 DEF PodRow
<1>10. r.left = rest /\ r.pos = s.pos + nb /\ r.rows = Append(s.rows, row)
  OBVIOUS
<1> HIDE DEF row
<1>11. r \in PodState(T)
  <2>1. Append(s.rows, row) \in Seq(PodRow(T))
    BY <1>1, <1>9, AppendProperties
  <2>2. s.pos + nb \in Nat
    BY <1>1, <1>3
  <2> QED
    BY <1>7, <2>1, <2>2 DEF PodState
<1> HIDE DEF r
<1>12. Takes(T, s, r, nb, row)
  BY <1>3, <1>6, <1>7, <1>9, <1>10, <1>11 DEF Takes, left, N
<1> QED
  BY <1>2, <1>12

PodFirst(file) == [left |-> file, pos |-> 0, rows |-> << >>]

\* The rounds are what their definition says.
LEMMA PodRounds ==
  ASSUME NEW T, PodNumbers, NEW file \in Seq(T)
  PROVE  \E f \in [0..Len(file) -> PodState(T)] :
           /\ Od!Dump(file) = f[Len(file)] /\ f[0] = PodFirst(file)
           /\ \A n \in 1..Len(file) :
                f[n] = IF f[n - 1].left = << >> THEN f[n - 1] ELSE Od!Row(f[n - 1])
<1> DEFINE N == Len(file)
           S == PodState(T)
           Next1(s) == IF s.left = << >> THEN s ELSE Od!Row(s)
           step == [x \in (1..N) \X S |-> Next1(x[2])]
           Is(s) == s = [n \in 0..N |-> IF n = 0 THEN PodFirst(file)
                                        ELSE IF s[n - 1].left = << >> THEN s[n - 1] ELSE Od!Row(s[n - 1])]
           all == CHOOSE s : Is(s)
<1>1. N \in Nat
  OBVIOUS
<1>a. /\ 0 \in 0..N /\ N \in 0..N /\ \A n \in 0..N : n = 0 \/ n \in 1..N
      /\ \A n \in 1..N : n # 0 /\ n \in 0..N /\ n - 1 \in 0..N
  <2> HIDE DEF N
  <2> QED
    BY <1>1
<1>2. \A s \in S : Next1(s) \in S
  <2> SUFFICES ASSUME NEW s \in S PROVE Next1(s) \in S
    OBVIOUS
  <2>1. CASE s.left = << >>
    BY <2>1
  <2>2. CASE s.left # << >>
    <3>1. \E nb, row : Takes(T, s, Od!Row(s), nb, row)
      BY <2>2, RowIs
    <3> QED
      BY <2>2, <3>1 DEF Takes
  <2> QED
    BY <2>1, <2>2
<1> HIDE DEF Next1
<1>3. PodFirst(file) \in S
  BY DEF PodFirst, PodState
<1>4. PICK f : IsLoop(f, N, S, PodFirst(file), step)
  <2>1. step \in [(1..N) \X S -> S]
    <3> HIDE DEF N, S
    <3> QED
      BY <1>2
  <2> HIDE DEF N, S, step
  <2> QED
    BY <1>1, <1>3, <2>1, Loop
<1>5. f \in [0..N -> S] /\ f[0] = PodFirst(file)
  BY <1>4 DEF IsLoop
<1>6. ASSUME NEW n \in 1..N PROVE f[n] = Next1(f[n - 1])
  <2>1. f[n] = step[<<n, f[n - 1]>>]
    <3> HIDE DEF step
    <3> QED
      BY <1>4 DEF IsLoop
  <2>2. <<n, f[n - 1]>> \in (1..N) \X S
    <3> HIDE DEF N, S
    <3> QED
      BY <1>a, <1>5
  <2> QED
    BY <2>1, <2>2
<1>7. Is(f)
  <2> HIDE DEF N, S
  <2>1. \A n \in 0..N : f[n] = IF n = 0 THEN PodFirst(file)
                               ELSE IF f[n - 1].left = << >> THEN f[n - 1] ELSE Od!Row(f[n - 1])
    BY <1>a, <1>5, <1>6 DEF Next1
  <2> QED
    BY <1>5, <2>1
<1>8. Is(all)
  <2> HIDE DEF Is
  <2> QED
    BY <1>7
<1>9. Od!Dump(file) = all[N]
  BY DEF Od!Dump, PodFirst
<1> HIDE DEF all
<1>10. all = [n \in 0..N |-> all[n]] /\ all[0] = PodFirst(file)
       /\ \A n \in 1..N : all[n] = Next1(all[n - 1])
  <2> HIDE DEF N, S
  <2>1. all = [n \in 0..N |-> IF n = 0 THEN PodFirst(file)
                              ELSE IF all[n - 1].left = << >> THEN all[n - 1] ELSE Od!Row(all[n - 1])]
    BY <1>8
  <2> HIDE <1>8
  <2>2. \A n \in 0..N : all[n] = IF n = 0 THEN PodFirst(file)
                                 ELSE IF all[n - 1].left = << >> THEN all[n - 1] ELSE Od!Row(all[n - 1])
    BY <2>1
  <2>3. all = [n \in 0..N |-> all[n]]
    BY <2>1, <2>2
  <2> QED
    BY <1>a, <2>2, <2>3 DEF Next1
<1> DEFINE P == {n \in 0..N : all[n] \in S}
<1>11. 0 \in P /\ \A n \in 1..N : n - 1 \in P => n \in P
  <2> HIDE DEF N, S
  <2>1. 0 \in P
    BY <1>a, <1>3, <1>10
  <2>2. ASSUME NEW n \in 1..N, n - 1 \in P PROVE n \in P
    BY <1>a, <1>2, <1>10, <2>2
  <2> QED
    BY <2>1, <2>2
<1>12. \A n \in 0..N : n \in P
  <2> HIDE DEF P
  <2> QED
    BY <1>1, <1>11, Induction
<1>13. all \in [0..N -> S]
  BY <1>10, <1>12
<1> QED
  BY <1>9, <1>10, <1>13 DEF Next1

OdBytes(rows) == [k \in DOMAIN rows |-> rows[k].bytes]

LEMMA OdJoined == \A seqs : Od!Joined(seqs) = Fix!Joined(seqs)
BY DEF Od!Joined, Fix!Joined

LEMMA BytesAre ==
  ASSUME NEW T, NEW rows \in Seq(PodRow(T))
  PROVE  OdBytes(rows) \in Seq(Seq(T))
<1> DEFINE N == Len(rows)
           U == Seq(T)
<1>1. N \in Nat /\ DOMAIN rows = 1..N /\ \A k \in 1..N : rows[k].bytes \in U
  <2>1. \A x \in PodRow(T) : x.bytes \in U
    BY DEF PodRow
  <2>2. N \in Nat /\ DOMAIN rows = 1..N /\ \A k \in 1..N : rows[k] \in PodRow(T)
    OBVIOUS
  <2> QED
    BY <2>1, <2>2
<1> HIDE DEF U, N
<1> QED
  BY <1>1 DEF OdBytes, U

LEMMA BytesAppend ==
  ASSUME NEW T, NEW rows \in Seq(PodRow(T)), NEW row \in PodRow(T)
  PROVE  /\ OdBytes(rows) \in Seq(Seq(T))
         /\ OdBytes(Append(rows, row)) = Append(OdBytes(rows), row.bytes)
<1> DEFINE N == Len(rows)
           W == PodRow(T)
           U == Seq(T)
           more == Append(rows, row)
           a == OdBytes(rows)
           b == Append(a, row.bytes)
<1>1. \A x \in W : x.bytes \in U
  BY DEF PodRow
<1>2. /\ N \in Nat /\ DOMAIN rows = 1..N /\ DOMAIN more = 1..(N + 1) /\ more[N + 1] = row
      /\ \A k \in 1..N : more[k] = rows[k] /\ rows[k] \in W
  OBVIOUS
<1> HIDE DEF W, U, N, more
<1>3. a = [k \in 1..N |-> rows[k].bytes] /\ \A k \in 1..N : rows[k].bytes \in U
  BY <1>1, <1>2 DEF OdBytes
<1>4. a \in Seq(U) /\ Len(a) = N
  BY <1>2, <1>3
<1>5. row.bytes \in U
  BY <1>1 DEF W
<1> HIDE DEF a
<1>6. /\ b \in [1..(N + 1) -> U] /\ b[N + 1] = row.bytes
      /\ \A k \in 1..N : b[k] = a[k]
  <2>1. /\ b \in Seq(U) /\ Len(b) = N + 1 /\ b[N + 1] = row.bytes
        /\ \A k \in 1..N : b[k] = a[k]
    BY <1>4, <1>5, AppendProperties
  <2> HIDE DEF b
  <2> QED
    BY <2>1, LenProperties
<1> HIDE DEF b
<1>7. \A k \in 1..(N + 1) : more[k].bytes = b[k]
  <2>1. \A k \in 1..(N + 1) : k = N + 1 \/ k \in 1..N
    BY <1>2
  <2> QED
    BY <1>2, <1>3, <1>6, <2>1
<1>8. OdBytes(more) = b
  BY <1>2, <1>6, <1>7 DEF OdBytes
<1> QED
  BY <1>4, <1>8 DEF a, b, more, U

\* A row shows what is in the file where it says.
RowRight(file, row) ==
  /\ row.pos \in Nat /\ Len(row.bytes) \in Nat /\ row.pos + Len(row.bytes) <= Len(file)
  /\ \A i \in 1..Len(row.bytes) : row.bytes[i] = file[row.pos + i]

\* The rows are what has been read of the file.
PodInv(T, file, n, s) ==
  LET N   == Len(file)
      all == Fix!Joined(OdBytes(s.rows))
  IN /\ s \in PodState(T) /\ s.pos \in 0..N /\ Len(s.left) = N - s.pos
     /\ \A i \in 1..(N - s.pos) : s.left[i] = file[s.pos + i]
     /\ s.left = << >> \/ s.pos >= n
     /\ Len(all) = s.pos /\ \A i \in 1..s.pos : all[i] = file[i]
     /\ \A k \in 1..Len(s.rows) :
          /\ RowRight(file, s.rows[k])
          /\ k < Len(s.rows) \/ s.left # << >> => Len(s.rows[k].bytes) = RowLen

LEMMA PodStep ==
  ASSUME NEW T, PodNumbers, NEW file \in Seq(T), NEW n \in Nat, n > 0,
         NEW s, NEW r, NEW nb, NEW row,
         PodInv(T, file, n - 1, s), s.left # << >>, Takes(T, s, r, nb, row)
  PROVE  PodInv(T, file, n, r)
<1> DEFINE N == Len(file)
           pos == s.pos
           M == Len(s.rows)
           old == Fix!Joined(OdBytes(s.rows))
           all == Fix!Joined(OdBytes(r.rows))
<1>1. /\ N \in Nat /\ pos \in 0..N /\ Len(s.left) = N - pos
      /\ \A i \in 1..(N - pos) : s.left[i] = file[pos + i]
      /\ pos >= n - 1
      /\ Len(old) = pos /\ \A i \in 1..pos : old[i] = file[i]
  <2>1. N \in Nat
    OBVIOUS
  <2>2. s.left # << >>
    OBVIOUS
  <2> QED
    BY <2>1, <2>2, Zenon DEF PodInv
<1>2. \A k \in 1..M : RowRight(file, s.rows[k]) /\ Len(s.rows[k].bytes) = RowLen
  <2>1. s.left # << >>
    OBVIOUS
  <2> QED
    BY <2>1, Zenon DEF PodInv
<1>3. /\ nb \in 1..RowLen /\ nb <= N - pos /\ (nb = RowLen \/ nb = N - pos) /\ nb \in Nat
      /\ row \in PodRow(T) /\ row.pos = pos
      /\ Len(row.bytes) = nb /\ \A i \in 1..nb : row.bytes[i] = s.left[i]
      /\ r \in PodState(T) /\ r.pos = pos + nb /\ r.rows = Append(s.rows, row)
      /\ Len(r.left) = (N - pos) - nb
      /\ \A i \in 1..((N - pos) - nb) : r.left[i] = s.left[nb + i]
  <2>1. RowLen \in Nat
    BY DEF PodNumbers
  <2> QED
    BY <1>1, <2>1 DEF Takes
<1>4. s.rows \in Seq(PodRow(T)) /\ M \in Nat /\ row.bytes \in Seq(T)
  <2>1. s.rows \in Seq(PodRow(T))
    BY DEF PodInv, PodState
  <2>2. row.bytes \in Seq(T)
    BY <1>3 DEF PodRow
  <2> QED
    BY <2>1, <2>2
<1>5. all = old \o row.bytes /\ old \in Seq(T)
  <2>1. OdBytes(s.rows) \in Seq(Seq(T)) /\ OdBytes(r.rows) = Append(OdBytes(s.rows), row.bytes)
    BY <1>3, <1>4, BytesAre, BytesAppend
  <2> DEFINE a == OdBytes(s.rows)
             b == row.bytes
  <2> HIDE DEF a, b
  <2>2. a \in Seq(Seq(T)) /\ b \in Seq(T)
    BY <1>4, <2>1 DEF a, b
  <2>3. Fix!Joined(Append(a, b)) = Fix!Joined(a) \o b /\ Fix!Joined(a) \in Seq(T)
    BY <2>2, JoinedAppend
  <2> QED
    BY <2>1, <2>3 DEF a, b
<1> HIDE DEF all, old, N, pos, M
<1>6. Len(all) = pos + nb /\ \A i \in 1..(pos + nb) : all[i] = file[i]
  <2>1. /\ Len(all) = pos + nb
        /\ \A i \in 1..(pos + nb) : all[i] = IF i <= pos THEN old[i] ELSE row.bytes[i - pos]
    <3>1. /\ Len(old \o row.bytes) = Len(old) + Len(row.bytes)
          /\ \A i \in 1..(Len(old) + Len(row.bytes)) :
               (old \o row.bytes)[i] = IF i <= Len(old) THEN old[i] ELSE row.bytes[i - Len(old)]
      BY <1>4, <1>5, ConcatProperties
    <3>2. Len(old) = pos /\ Len(row.bytes) = nb
      BY <1>1, <1>3
    <3> QED
      BY <1>5, <3>1, <3>2
  <2>2. ASSUME NEW i \in 1..(pos + nb) PROVE all[i] = file[i]
    <3>1. CASE i <= pos
      BY <1>1, <2>1, <3>1
    <3>2. CASE ~(i <= pos)
      <4>1. i - pos \in 1..nb /\ i - pos \in 1..(N - pos) /\ pos + (i - pos) = i
        BY <1>1, <1>3, <3>2
      <4>2. row.bytes[i - pos] = file[pos + (i - pos)]
        BY <1>1, <1>3, <4>1
      <4> QED
        BY <2>1, <3>2, <4>1, <4>2
    <3> QED
      BY <3>1, <3>2
  <2> QED
    BY <2>1, <2>2
<1>7. RowRight(file, row)
  <2>1. \A i \in 1..nb : i \in 1..(N - pos)
    BY <1>1, <1>3
  <2>2. pos \in Nat /\ pos + nb <= N
    BY <1>1, <1>3
  <2> QED
    BY <1>1, <1>3, <2>1, <2>2 DEF RowRight, N
<1>8. ASSUME NEW i \in 1..(N - (pos + nb)) PROVE r.left[i] = file[(pos + nb) + i]
  <2>1. i \in 1..((N - pos) - nb) /\ nb + i \in 1..(N - pos) /\ pos + (nb + i) = (pos + nb) + i
    BY <1>1, <1>3
  <2> QED
    BY <1>1, <1>3, <2>1
<1>9. /\ Len(r.rows) = M + 1 /\ r.rows[M + 1] = row
      /\ \A k \in 1..M : r.rows[k] = s.rows[k]
  BY <1>3, <1>4 DEF M
<1>10. ASSUME NEW k \in 1..(M + 1)
       PROVE  /\ RowRight(file, r.rows[k])
              /\ k < M + 1 \/ r.left # << >> => Len(r.rows[k].bytes) = RowLen
  <2>1. CASE k = M + 1
    <3>1. r.left # << >> => nb = RowLen
      <4>1. r.left \in Seq(T)
        BY <1>3 DEF PodState
      <4>2. r.left # << >> => Len(r.left) # 0
        BY <4>1, EmptySeq
      <4> QED
        BY <1>1, <1>3, <4>2
    <3>2. ~(k < M + 1)
      BY <1>4, <2>1
    <3> QED
      BY <1>3, <1>7, <1>9, <2>1, <3>1, <3>2
  <2>2. CASE k # M + 1
    <3>1. k \in 1..M
      BY <1>4, <2>2
    <3> QED
      BY <1>2, <1>9, <3>1
  <2> QED
    BY <2>1, <2>2
<1>11. r.pos \in 0..N /\ Len(r.left) = N - r.pos /\ r.pos >= n
  BY <1>1, <1>3
<1> QED
  BY <1>3, <1>6, <1>8, <1>9, <1>10, <1>11 DEF PodInv, N, all

\* The rows are the file.
LEMMA PodRight ==
  ASSUME PodNumbers, NEW file, IsSeq(file)
  PROVE  Od!PodShowsAll(file)
<1> DEFINE T == {file[k] : k \in DOMAIN file}
           N == Len(file)
<1>1. file \in Seq(T)
  BY DEF IsSeq
<1> HIDE DEF T
<1>2. N \in Nat
  BY <1>1
<1>3. PICK f \in [0..N -> PodState(T)] :
        /\ Od!Dump(file) = f[N] /\ f[0] = PodFirst(file)
        /\ \A n \in 1..N : f[n] = IF f[n - 1].left = << >> THEN f[n - 1] ELSE Od!Row(f[n - 1])
  BY <1>1, PodRounds
<1> DEFINE P == {n \in 0..N : PodInv(T, file, n, f[n])}
<1>4. 0 \in P
  <2> DEFINE s == f[0]
  <2>1. 0 \in 0..N /\ s \in PodState(T)
    BY <1>2, <1>3
  <2>2. s.left = file /\ s.pos = 0 /\ s.rows = << >>
    BY <1>3 DEF PodFirst
  <2>3. OdBytes(<< >>) = << >> /\ Len(<< >>) = 0 /\ Fix!Joined(<< >>) = << >>
    BY JoinedAppend DEF OdBytes
  <2> HIDE DEF s
  <2>4. PodInv(T, file, 0, s)
    BY <1>2, <2>1, <2>2, <2>3 DEF PodInv
  <2> QED
    BY <2>1, <2>4 DEF s
<1>5. ASSUME NEW n \in 1..N, n - 1 \in P PROVE n \in P
  <2> DEFINE s == f[n - 1]
  <2>1. n \in 0..N /\ n - 1 \in 0..N /\ n \in Nat /\ n > 0
    BY <1>2
  <2>2. s \in PodState(T) /\ PodInv(T, file, n - 1, s)
    BY <1>3, <1>5, <2>1
  <2>3. f[n] = IF s.left = << >> THEN s ELSE Od!Row(s)
    BY <1>3
  <2> HIDE DEF s
  <2>4. CASE s.left = << >>
    <3>1. PodInv(T, file, n, s)
      BY <2>2, <2>4 DEF PodInv
    <3> QED
      BY <2>1, <2>3, <2>4, <3>1
  <2>5. CASE s.left # << >>
    <3>1. PICK nb, row : Takes(T, s, Od!Row(s), nb, row)
      BY <2>2, <2>5, RowIs
    <3>2. PodInv(T, file, n, Od!Row(s))
      BY <1>1, <2>1, <2>2, <2>5, <3>1, PodStep
    <3> QED
      BY <2>1, <2>3, <2>5, <3>2
  <2> QED
    BY <2>4, <2>5
<1>6. N \in P
  <2>1. \A n \in 0..N : n \in P
    <3> HIDE DEF P, N
    <3> QED
      BY <1>2, <1>4, <1>5, Induction
  <2> QED
    BY <1>2, <2>1
<1> DEFINE s == f[N]
           all == Fix!Joined(OdBytes(s.rows))
<1>7. PodInv(T, file, N, s) /\ Od!Dump(file) = s
  BY <1>3, <1>6
<1> HIDE DEF s
<1>8. /\ s \in PodState(T) /\ s.pos \in 0..N /\ Len(s.left) = N - s.pos
      /\ s.left = << >> \/ s.pos >= N
      /\ Len(all) = s.pos /\ \A i \in 1..s.pos : all[i] = file[i]
      /\ \A k \in 1..Len(s.rows) :
           /\ RowRight(file, s.rows[k])
           /\ k < Len(s.rows) \/ s.left # << >> => Len(s.rows[k].bytes) = RowLen
  BY <1>7 DEF PodInv
<1>9. s.left \in Seq(T) /\ s.rows \in Seq(PodRow(T)) /\ s.pos \in Nat
  BY <1>8 DEF PodState
<1>10. s.left = << >> /\ s.pos = N
  <2>1. CASE s.left = << >>
    <3>1. Len(s.left) = 0
      BY <2>1
    <3> HIDE DEF N
    <3> QED
      BY <1>2, <1>8, <2>1, <3>1
  <2>2. CASE s.left # << >>
    <3>1. Len(s.left) \in Nat /\ Len(s.left) # 0
      BY <1>9, <2>2, EmptySeq
    <3> HIDE DEF N
    <3> QED
      BY <1>2, <1>8, <2>2, <3>1
  <2> QED
    BY <2>1, <2>2
<1>11. all = file
  <2>1. all \in Seq(T)
    <3>1. OdBytes(s.rows) \in Seq(Seq(T))
      BY <1>9, BytesAre
    <3> QED
      BY <3>1, JoinedAppend
  <2> QED
    BY <1>1, <1>8, <1>10, <2>1, SeqEqual
<1>13. ASSUME NEW k \in 1..Len(s.rows)
       PROVE  LET row == s.rows[k] IN
              /\ row.bytes = SubSeq(file, row.pos + 1, row.pos + Len(row.bytes))
              /\ k < Len(s.rows) => Len(row.bytes) = RowLen
  <2> DEFINE row == s.rows[k]
             size == Len(row.bytes)
             from == row.pos + 1
             to == row.pos + size
             part == SubSeq(file, from, to)
  <2>1. RowRight(file, row) /\ (k < Len(s.rows) => size = RowLen)
    BY <1>8
  <2>2. row \in PodRow(T)
    BY <1>9
  <2> HIDE DEF row
  <2>3. row.bytes \in Seq(T) /\ row.pos \in Nat /\ size \in Nat /\ row.pos + size <= N
        /\ \A i \in 1..size : row.bytes[i] = file[row.pos + i]
    BY <2>1, <2>2 DEF PodRow, RowRight
  <2> HIDE DEF size, N
  <2>4. from \in Int /\ to \in Int /\ \A i \in from..to : file[i] \in T
    <3>1. \A i \in 1..N : file[i] \in T
      BY <1>1 DEF N
    <3> QED
      BY <1>2, <2>3, <3>1
  <2>5. /\ to - from + 1 = size /\ (~(from <= to) => size = 0)
        /\ \A i \in 1..size : from + i - 1 = row.pos + i
    <3> DEFINE p == row.pos
    <3>1. p \in Nat /\ size \in Nat /\ from = p + 1 /\ to = p + size
      BY <2>3
    <3> HIDE DEF p, from, to
    <3>2. to - from + 1 = size /\ (~(from <= to) => size = 0)
      BY <3>1
    <3>3. \A i \in 1..size : from + i - 1 = p + i
      BY <3>1
    <3> QED
      BY <3>2, <3>3 DEF p
  <2> HIDE DEF from, to
  <2>6. part \in Seq(T) /\ Len(part) = size /\ \A i \in 1..size : part[i] = file[row.pos + i]
    <3>1. /\ part \in Seq(T) /\ Len(part) = (IF from <= to THEN to - from + 1 ELSE 0)
          /\ \A i \in 1..(to - from + 1) : part[i] = file[from + i - 1]
      BY <2>4, SubSeqProperties
    <3> HIDE DEF part
    <3> QED
      BY <2>5, <3>1
  <2> HIDE DEF part
  <2>7. row.bytes = part
    <3>1. Len(row.bytes) = Len(part) /\ \A i \in 1..Len(row.bytes) : row.bytes[i] = part[i]
      BY <2>3, <2>6 DEF size
    <3> QED
      BY <2>3, <2>6, <3>1, SeqEqual
  <2> QED
    BY <2>1, <2>7 DEF part, row, size, from, to
<1>14. Od!Main(<<"-x">>, TRUE, TRUE, file) = s
  <2>1. ~(\E k \in DOMAIN <<"-x">> : <<"-x">>[k] # "-x")
    OBVIOUS
  <2> QED
    BY <1>7, <2>1 DEF Od!Main
<1>15. DOMAIN s.rows = 1..Len(s.rows)
  BY <1>9
<1>16. Od!Joined([k \in DOMAIN s.rows |-> s.rows[k].bytes]) = file
  BY <1>11, OdJoined DEF OdBytes
<1> HIDE DEF all
<1> QED
  BY <1>10, <1>13, <1>14, <1>15, <1>16 DEF Od!PodShowsAll

----------------------------------------------------------------------------
(* hexvert.c                                                               *)

Radix == {10, 16}

HexState == [at : {"blanks", "digits", "end"}, sign : {1, -1}, any : BOOLEAN, value : Nat]
HexFirst == [at |-> "blanks", sign |-> 1, any |-> FALSE, value |-> 0]

LEMMA ReadTypes ==
  ASSUME NEW base \in Radix, NEW st \in HexState, NEW c \in Char
  PROVE  Hex!ReadChar(st, c, base) \in HexState
<1>1. st.value * base + c \in Nat /\ st.sign \in {1, -1} /\ st.value \in Nat
  <2>1. st.value \in Nat /\ base \in Nat /\ c \in Nat
    BY DEF HexState, Radix, Char, Hex!Other
  <2>2. st.value * base \in Nat
    BY <2>1
  <2> QED
    BY <2>1, <2>2 DEF HexState
<1>2. [st EXCEPT !.at = "digits", !.sign = -1] \in HexState
  BY DEF HexState
<1>3. [st EXCEPT !.at = "end"] \in HexState
  BY DEF HexState
<1>4. [st EXCEPT !.at = "digits", !.any = TRUE, !.value = @ * base + c] \in HexState
  <2> DEFINE v == st.value * base + c
  <2>1. v \in Nat
    BY <1>1
  <2> HIDE DEF v
  <2>2. [st EXCEPT !.at = "digits", !.any = TRUE, !.value = v] \in HexState
    BY <2>1 DEF HexState
  <2> QED
    BY <2>2 DEF v
<1> QED
  BY <1>2, <1>3, <1>4, Zenon DEF Hex!ReadChar

\* Where sscanf is after a text.
ReadStep(base) == [x \in HexState \X Char |-> Hex!ReadChar(x[1], x[2], base)]
Scanned(s, base)  == After(s, HexState, HexFirst, ReadStep(base))

LEMMA ReadStepIs ==
  ASSUME NEW base \in Radix
  PROVE  /\ IsStep(HexState, Char, HexFirst, ReadStep(base))
         /\ \A st \in HexState, c \in Char : ReadStep(base)[<<st, c>>] = Hex!ReadChar(st, c, base)
<1>1. \A st \in HexState, c \in Char : Hex!ReadChar(st, c, base) \in HexState
  BY ReadTypes
<1>2. HexFirst \in HexState
  BY DEF HexFirst, HexState
<1> DEFINE S == HexState
<1> HIDE DEF S
<1>3. ReadStep(base) \in [S \X Char -> S]
  BY <1>1 DEF ReadStep, S
<1>4. ASSUME NEW st \in S, NEW c \in Char PROVE ReadStep(base)[<<st, c>>] = Hex!ReadChar(st, c, base)
  BY DEF ReadStep, S
<1> QED
  BY <1>2, <1>3, <1>4 DEF IsStep, S

LEMMA ReadIs ==
  ASSUME NEW base \in Radix
  PROVE  /\ Scanned(<< >>, base) = HexFirst
         /\ \A s \in Seq(Char) : Scanned(s, base) \in HexState
         /\ \A s \in Seq(Char), c \in Char :
              Scanned(Append(s, c), base) = Hex!ReadChar(Scanned(s, base), c, base)
<1> DEFINE S == HexState
           step == ReadStep(base)
           End(s) == After(s, S, HexFirst, step)
<1>1. IsStep(S, Char, HexFirst, step)
  BY ReadStepIs
<1>2. \A st \in S, c \in Char : step[<<st, c>>] = Hex!ReadChar(st, c, base)
  BY ReadStepIs
<1> HIDE DEF S, step
<1>3. /\ \A s \in Seq(Char) : End(s) \in S
      /\ End(<< >>) = HexFirst
      /\ \A s \in Seq(Char), c \in Char : End(Append(s, c)) = step[<<End(s), c>>]
  BY <1>1, AfterIs
<1>4. \A s : Scanned(s, base) = End(s)
  BY DEF Scanned, S, step
<1> HIDE DEF End
<1>5. ASSUME NEW s \in Seq(Char), NEW c \in Char
      PROVE  Scanned(Append(s, c), base) = Hex!ReadChar(Scanned(s, base), c, base)
  BY <1>2, <1>3, <1>4
<1> QED
  BY <1>3, <1>4, <1>5 DEF S

\* Scan is what its definition says.
LEMMA ScanIs ==
  ASSUME NEW base \in Radix, NEW s \in Seq(Char)
  PROVE  Hex!Scan(s, base) = IF Scanned(s, base).any
                             THEN <<(Scanned(s, base).sign * Scanned(s, base).value) % HexWord>> ELSE << >>
<1> DEFINE N == Len(s)
           S == HexState
           step == ReadStep(base)
           Is(r) == r = [n \in 0..N |-> IF n = 0 THEN [at |-> "blanks", sign |-> 1, any |-> FALSE, value |-> 0]
                                        ELSE Hex!ReadChar(r[n - 1], s[n], base)]
           scan == CHOOSE r : Is(r)
<1>1. N \in Nat /\ \A n \in 1..N : s[n] \in Char
  OBVIOUS
<1>a. /\ 0 \in 0..N /\ N \in 0..N /\ \A n \in 0..N : n = 0 \/ n \in 1..N
      /\ \A n \in 1..N : n # 0 /\ n \in 0..N /\ n - 1 \in 0..N
  <2> HIDE DEF N
  <2> QED
    BY <1>1
<1>2. PICK f : IsFold(f, s, S, HexFirst, step)
  <2>1. IsStep(S, Char, HexFirst, step)
    BY ReadStepIs
  <2> HIDE DEF S, step
  <2> QED
    BY <2>1, FoldExists
<1>3. f \in [0..N -> S] /\ f[0] = HexFirst /\ \A n \in 1..N : f[n] = step[<<f[n - 1], s[n]>>]
  <2> HIDE DEF step, S
  <2> QED
    BY <1>2 DEF IsFold
<1>4. \A st \in S, c \in Char : step[<<st, c>>] = Hex!ReadChar(st, c, base)
  BY ReadStepIs
<1> HIDE DEF S, step
<1>5. Is(f)
  <2> HIDE DEF N
  <2>1. \A n \in 1..N : f[n] = Hex!ReadChar(f[n - 1], s[n], base)
    BY <1>1, <1>a, <1>3, <1>4
  <2>2. \A n \in 0..N : f[n] = IF n = 0 THEN HexFirst ELSE Hex!ReadChar(f[n - 1], s[n], base)
    BY <1>a, <1>3, <2>1
  <2>3. f = [n \in 0..N |-> f[n]]
    BY <1>3
  <2> QED
    BY <2>2, <2>3 DEF HexFirst
<1>6. Is(scan)
  <2> HIDE DEF Is
  <2> QED
    BY <1>5
<1>7. Hex!Scan(s, base) = IF scan[N].any THEN <<(scan[N].sign * scan[N].value) % HexWord>> ELSE << >>
  BY DEF Hex!Scan
<1> HIDE DEF scan
<1>8. /\ scan = [n \in 0..N |-> scan[n]] /\ scan[0] = HexFirst
      /\ \A n \in 1..N : scan[n] = Hex!ReadChar(scan[n - 1], s[n], base)
  <2> HIDE DEF N
  <2>1. scan = [n \in 0..N |-> IF n = 0 THEN HexFirst ELSE Hex!ReadChar(scan[n - 1], s[n], base)]
    BY <1>6 DEF HexFirst
  <2> HIDE <1>6
  <2>2. \A n \in 0..N : scan[n] = IF n = 0 THEN HexFirst ELSE Hex!ReadChar(scan[n - 1], s[n], base)
    BY <2>1
  <2>3. scan = [n \in 0..N |-> scan[n]]
    BY <2>1, <2>2
  <2> QED
    BY <1>a, <2>2, <2>3
<1> DEFINE P == {n \in 0..N : scan[n] \in S}
<1>9. 0 \in P /\ \A n \in 1..N : n - 1 \in P => n \in P
  <2> HIDE DEF N
  <2>1. 0 \in P
    BY <1>a, <1>3, <1>8
  <2>2. ASSUME NEW n \in 1..N, n - 1 \in P PROVE n \in P
    BY <1>1, <1>a, <1>8, <2>2, ReadTypes DEF S
  <2> QED
    BY <2>1, <2>2
<1>10. \A n \in 0..N : n \in P
  <2> HIDE DEF P
  <2> QED
    BY <1>1, <1>9, Induction
<1>11. scan \in [0..N -> S]
  BY <1>8, <1>10
<1>12. \A n \in 1..N : scan[n] = step[<<scan[n - 1], s[n]>>]
  <2> HIDE DEF N
  <2> QED
    BY <1>1, <1>a, <1>4, <1>8, <1>11
<1>13. IsFold(scan, s, S, HexFirst, step)
  BY <1>8, <1>11, <1>12 DEF IsFold
<1>14. scan[N] = Scanned(s, base)
  <2>1. IsStep(S, Char, HexFirst, step)
    BY ReadStepIs DEF S, step
  <2>2. scan[N] = After(s, S, HexFirst, step)
    BY <1>13, <2>1, AfterIs
  <2> QED
    BY <2>2 DEF Scanned, S, step
<1> QED
  BY <1>7, <1>14

\* What printf's recursion over the number is.
IsDigits(f, N, base) ==
  f = [m \in 0..N |-> IF m < base THEN <<m>> ELSE Append(f[m \div base], m % base)]

\* A quotient is smaller, and gives the number back.
LEMMA Quotient ==
  ASSUME NEW base \in Radix, NEW m \in Nat, m >= base
  PROVE  /\ m \div base \in 0..(m - 1) /\ m % base \in 0..(base - 1)
         /\ (m \div base) * base + (m % base) = m
<1>1. CASE base = 10
  <2> DEFINE q == m \div 10
             c == m % 10
  <2>a. q \in Nat /\ c \in 0..9 /\ m = 10 * q + c
    OBVIOUS
  <2> HIDE DEF q, c
  <2>b. q \in 0..(m - 1) /\ q * 10 + c = m
    BY <1>1, <2>a
  <2>1. m \div 10 \in 0..(m - 1) /\ m % 10 \in 0..9 /\ (m \div 10) * 10 + (m % 10) = m
    BY <2>a, <2>b DEF q, c
  <2> QED
    BY <1>1, <2>1
<1>2. CASE base = 16
  <2> DEFINE q == m \div 16
             c == m % 16
  <2>a. q \in Nat /\ c \in 0..15 /\ m = 16 * q + c
    OBVIOUS
  <2> HIDE DEF q, c
  <2>b. q \in 0..(m - 1) /\ q * 16 + c = m
    BY <1>2, <2>a
  <2>1. m \div 16 \in 0..(m - 1) /\ m % 16 \in 0..15 /\ (m \div 16) * 16 + (m % 16) = m
    BY <2>a, <2>b DEF q, c
  <2> QED
    BY <1>2, <2>1
<1> QED
  BY <1>1, <1>2 DEF Radix

LEMMA DigitsExist ==
  ASSUME NEW base \in Radix, NEW N \in Nat
  PROVE  \E f : IsDigits(f, N, base)
<1> DEFINE P == {n \in 0..N : \E f : IsDigits(f, n, base)}
<1>1. 0 \in P
  <2> DEFINE f == [m \in 0..0 |-> <<0>>]
  <2>1. \A m \in 0..0 : m = 0 /\ m < base
    BY DEF Radix
  <2>2. IsDigits(f, 0, base)
    BY <2>1 DEF IsDigits
  <2> HIDE DEF f
  <2> QED
    BY <2>2
<1>2. ASSUME NEW n \in 1..N, n - 1 \in P PROVE n \in P
  <2>1. PICK f : IsDigits(f, n - 1, base)
    BY <1>2
  <2> DEFINE g == [m \in 0..n |-> IF m = n THEN IF n < base THEN <<n>> ELSE Append(f[n \div base], n % base)
                                  ELSE f[m]]
  <2>2. ASSUME NEW m \in 0..n
        PROVE  g[m] = IF m < base THEN <<m>> ELSE Append(g[m \div base], m % base)
    <3>1. m \in Nat /\ n \in Nat /\ base \in Nat
      BY DEF Radix
    <3>2. CASE m < base
      <4>1. CASE m = n
        BY <3>2, <4>1
      <4>2. CASE m # n
        <5>1. m \in 0..(n - 1)
          BY <3>1, <4>2
        <5>2. f[m] = <<m>>
          BY <2>1, <3>2, <5>1 DEF IsDigits
        <5> QED
          BY <3>2, <4>2, <5>2
      <4> QED
        BY <4>1, <4>2
    <3>3. CASE ~(m < base)
      <4> DEFINE q == m \div base
      <4>1. q \in 0..(m - 1)
        BY <3>1, <3>3, Quotient
      <4> HIDE DEF q
      <4>2. q \in 0..n /\ q # n
        BY <3>1, <4>1
      <4>3. g[q] = f[q]
        BY <4>2
      <4>4. CASE m = n
        <5>1. g[m] = Append(f[q], m % base)
          BY <3>3, <4>4 DEF q
        <5> QED
          BY <3>3, <4>3, <5>1 DEF q
      <4>5. CASE m # n
        <5>1. m \in 0..(n - 1)
          BY <3>1, <4>5
        <5>2. f[m] = Append(f[q], m % base)
          BY <2>1, <3>3, <5>1 DEF IsDigits, q
        <5>3. g[m] = f[m]
          BY <4>5
        <5> HIDE DEF g
        <5> QED
          BY <3>3, <4>3, <5>2, <5>3 DEF q
      <4> QED
        BY <4>4, <4>5
    <3> QED
      BY <3>2, <3>3
  <2>3. g = [m \in 0..n |-> g[m]]
    OBVIOUS
  <2> HIDE DEF g
  <2>4. IsDigits(g, n, base)
    BY <2>2, <2>3 DEF IsDigits
  <2> QED
    BY <2>4
<1>3. \A n \in 0..N : n \in P
  <2> HIDE DEF P
  <2> QED
    BY <1>1, <1>2, Induction
<1> QED
  BY <1>3

LEMMA DigitsAgree ==
  ASSUME NEW base \in Radix, NEW M \in Nat, NEW N \in Nat, M <= N, NEW f, NEW g,
         IsDigits(f, M, base), IsDigits(g, N, base)
  PROVE  f[M] = g[M]
<1> DEFINE P == {n \in 0..M : \A m \in 0..n : f[m] = g[m]}
<1>1. ASSUME NEW n \in 0..M, \A m \in 0..(n - 1) : f[m] = g[m] PROVE n \in P
  <2>1. n \in 0..N /\ n \in Nat /\ base \in Nat
    BY DEF Radix
  <2>2. f[n] = IF n < base THEN <<n>> ELSE Append(f[n \div base], n % base)
    BY DEF IsDigits
  <2>3. g[n] = IF n < base THEN <<n>> ELSE Append(g[n \div base], n % base)
    BY <2>1 DEF IsDigits
  <2>4. f[n] = g[n]
    <3>1. CASE n < base
      BY <2>2, <2>3, <3>1
    <3>2. CASE ~(n < base)
      <4>1. n \div base \in 0..(n - 1)
        BY <2>1, <3>2, Quotient
      <4>2. f[n \div base] = g[n \div base]
        BY <1>1, <4>1
      <4> QED
        BY <2>2, <2>3, <3>2, <4>2
    <3> QED
      BY <3>1, <3>2
  <2>5. \A m \in 0..n : m = n \/ m \in 0..(n - 1)
    BY <2>1
  <2> QED
    BY <1>1, <2>4, <2>5
<1>2. 0 \in P
  <2>1. 0 \in 0..M /\ \A m \in 0..(0 - 1) : f[m] = g[m]
    OBVIOUS
  <2> HIDE DEF P
  <2> QED
    BY <1>1, <2>1
<1>3. ASSUME NEW n \in 1..M, n - 1 \in P PROVE n \in P
  <2>1. n \in 0..M /\ \A m \in 0..(n - 1) : f[m] = g[m]
    BY <1>3
  <2> HIDE DEF P
  <2> QED
    BY <1>1, <2>1
<1>4. M \in P
  <2>1. \A n \in 0..M : n \in P
    <3> HIDE DEF P
    <3> QED
      BY <1>2, <1>3, Induction
  <2> QED
    BY <2>1
<1> QED
  BY <1>4

\* printf: the last digit is the remainder.
LEMMA DigitsIs ==
  ASSUME NEW base \in Radix, NEW n \in Nat
  PROVE  Hex!Digits(n, base) = IF n < base THEN <<n>>
                               ELSE Append(Hex!Digits(n \div base, base), n % base)
<1> DEFINE F(N) == CHOOSE f : IsDigits(f, N, base)
<1>1. \A N \in Nat : IsDigits(F(N), N, base)
  BY DigitsExist
<1>2. \A N : Hex!Digits(N, base) = F(N)[N]
  BY DEF Hex!Digits, IsDigits
<1> HIDE DEF F
<1>3. F(n)[n] = IF n < base THEN <<n>> ELSE Append(F(n)[n \div base], n % base)
  <2>1. n \in 0..n
    OBVIOUS
  <2> QED
    BY <1>1, <2>1 DEF IsDigits
<1>4. CASE n < base
  BY <1>2, <1>3, <1>4
<1>5. CASE ~(n < base)
  <2> DEFINE q == n \div base
  <2>1. n >= base
    BY <1>5 DEF Radix
  <2>2. q \in 0..(n - 1)
    BY <2>1, Quotient
  <2> HIDE DEF q
  <2>3. q \in Nat /\ q <= n
    BY <2>2
  <2>4. F(q)[q] = F(n)[q]
    BY <1>1, <2>3, DigitsAgree
  <2> QED
    BY <1>2, <1>3, <1>5, <2>4 DEF q
<1> QED
  BY <1>4, <1>5

\* Reading the digits from a place where no other digit stands before them
\* gives the number.
LEMMA DigitsRead ==
  ASSUME NEW base \in Radix, NEW p \in Seq(Char),
         Scanned(p, base).at # "end", ~Scanned(p, base).any, Scanned(p, base).value = 0, NEW N \in Nat
  PROVE  /\ Hex!Digits(N, base) \in Seq(0..(base - 1)) /\ Hex!Digits(N, base) # << >>
         /\ Scanned(p \o Hex!Digits(N, base), base) =
              [at |-> "digits", sign |-> Scanned(p, base).sign, any |-> TRUE, value |-> N]
<1> DEFINE D == 0..(base - 1)
           sign == Scanned(p, base).sign
           d(n) == Hex!Digits(n, base)
           Is(n) == /\ d(n) \in Seq(D) /\ d(n) # << >>
                    /\ Scanned(p \o d(n), base) = [at |-> "digits", sign |-> sign, any |-> TRUE, value |-> n]
           P == {n \in 0..N : \A m \in 0..n : Is(m)}
<1>1. base \in Nat /\ base > 0 /\ \A c \in D : c \in Char /\ c \in Nat /\ c < base
        /\ c # Hex!Space /\ c # Hex!Minus
  BY DEF Radix, Char, Hex!Other, Hex!Space, Hex!Minus
<1>2. Scanned(p, base) \in HexState
  BY ReadIs
<1>3. ASSUME NEW n \in 0..N, \A m \in 0..(n - 1) : Is(m) PROVE Is(n)
  <2>0. n \in Nat
    OBVIOUS
  <2>1. CASE n < base
    <3>1. n \in D /\ n \in Char
      BY <1>1, <2>0, <2>1
    <3>2. d(n) = <<n>>
      BY <2>0, <2>1, DigitsIs
    <3> DEFINE st == Scanned(p, base)
    <3>3. p \o <<n>> = Append(p, n)
      OBVIOUS
    <3>4. Scanned(Append(p, n), base) = Hex!ReadChar(st, n, base)
      BY <3>1, ReadIs
    <3>5. Hex!ReadChar(st, n, base) = [st EXCEPT !.at = "digits", !.any = TRUE, !.value = @ * base + n]
      <4>1. n # Hex!Space /\ n # Hex!Minus /\ st.at # "end" /\ n < base
        BY <1>1, <2>1, <3>1
      <4> HIDE DEF st
      <4> QED
        BY <4>1 DEF Hex!ReadChar
    <3>6. st.value * base + n = n
      BY <1>1, <2>0
    <3>7. Scanned(p \o <<n>>, base) = [at |-> "digits", sign |-> sign, any |-> TRUE, value |-> n]
      <4> DEFINE s == st
                 v == s.value * base + n
      <4>1. v = n /\ s \in HexState /\ sign = s.sign
        BY <1>2, <3>6
      <4>2. Scanned(p \o <<n>>, base) = [s EXCEPT !.at = "digits", !.any = TRUE, !.value = v]
        BY <3>3, <3>4, <3>5
      <4> HIDE DEF v, s, sign
      <4> QED
        BY <4>1, <4>2 DEF HexState
    <3>8. <<n>> \in Seq(D) /\ <<n>> # << >>
      BY <3>1
    <3> HIDE DEF D, sign
    <3> QED
      BY <3>2, <3>7, <3>8
  <2>2. CASE ~(n < base)
    <3> DEFINE q == n \div base
               c == n % base
    <3>1. q \in 0..(n - 1) /\ c \in D /\ q * base + c = n
      <4>1. n >= base
        BY <1>1, <2>0, <2>2
      <4> QED
        BY <2>0, <4>1, Quotient
    <3>2. d(n) = Append(d(q), c)
      BY <2>0, <2>2, DigitsIs
    <3> HIDE DEF q, c, d
    <3>3. Is(q)
      BY <1>3, <3>1
    <3>4. c \in Char /\ c < base /\ c # Hex!Space /\ c # Hex!Minus
      BY <1>1, <3>1
    <3>5. d(q) \in Seq(Char) /\ d(q) \in Seq(D)
      <4>1. D \subseteq Char
        BY <1>1
      <4> HIDE DEF D
      <4> QED
        BY <3>3, <4>1, SeqMonotonic
    <3>6. p \o d(q) \in Seq(Char) /\ p \o Append(d(q), c) = Append(p \o d(q), c)
      <4>1. p \o d(q) \in Seq(Char)
        BY <3>5, ConcatProperties
      <4>2. Append(d(q), c) = d(q) \o <<c>> /\ Append(p \o d(q), c) = (p \o d(q)) \o <<c>>
              /\ <<c>> \in Seq(Char)
        BY <3>4, <3>5, <4>1
      <4>3. (p \o d(q)) \o <<c>> = p \o (d(q) \o <<c>>)
        BY <3>5, <4>2, ConcatAssociative
      <4> QED
        BY <4>1, <4>2, <4>3
    <3> DEFINE st == Scanned(p \o d(q), base)
    <3>7. st = [at |-> "digits", sign |-> sign, any |-> TRUE, value |-> q]
      BY <3>3
    <3>8. Scanned(p \o d(n), base) = Hex!ReadChar(st, c, base)
      BY <3>2, <3>4, <3>6, ReadIs
    <3> HIDE DEF st, sign
    <3>9. Hex!ReadChar(st, c, base) = [st EXCEPT !.at = "digits", !.any = TRUE, !.value = st.value * base + c]
      BY <3>4, <3>7 DEF Hex!ReadChar
    <3>10. st.value * base + c = n
      BY <3>1, <3>7
    <3>11. Scanned(p \o d(n), base) = [at |-> "digits", sign |-> sign, any |-> TRUE, value |-> n]
      BY <3>7, <3>8, <3>9, <3>10
    <3>12. d(n) \in Seq(D) /\ d(n) # << >>
      <4> HIDE DEF D
      <4> QED
        BY <3>1, <3>2, <3>5, AppendProperties
    <3> QED
      BY <3>11, <3>12
  <2> QED
    BY <2>1, <2>2
<1> HIDE DEF Is
<1>4. ASSUME NEW n \in 0..N, \A m \in 0..(n - 1) : Is(m) PROVE n \in P
  <2>1. \A m \in 0..n : m = n \/ m \in 0..(n - 1)
    OBVIOUS
  <2> QED
    BY <1>3, <1>4, <2>1
<1>5. 0 \in P
  <2>1. 0 \in 0..N /\ \A m \in 0..(0 - 1) : Is(m)
    OBVIOUS
  <2> HIDE DEF P
  <2> QED
    BY <1>4, <2>1
<1>6. ASSUME NEW n \in 1..N, n - 1 \in P PROVE n \in P
  <2>1. n \in 0..N /\ \A m \in 0..(n - 1) : Is(m)
    BY <1>6
  <2> HIDE DEF P
  <2> QED
    BY <1>4, <2>1
<1>7. N \in P
  <2>1. \A n \in 0..N : n \in P
    <3> HIDE DEF P
    <3> QED
      BY <1>5, <1>6, Induction
  <2> QED
    BY <2>1
<1> QED
  BY <1>7 DEF Is

\* A text of blanks, and one in which a number may still begin.
Blank(s)   == \A j \in 1..Len(s) : s[j] = Hex!Space
Opening(s) == \A j \in 1..Len(s) : s[j] = Hex!Space \/ (s[j] = Hex!Minus /\ j = Len(s))

LEMMA OpeningAppend ==
  ASSUME NEW s \in Seq(Char), NEW c \in Char
  PROVE  /\ Blank(Append(s, c)) <=> (Blank(s) /\ c = Hex!Space)
         /\ Opening(Append(s, c)) <=> (Blank(s) /\ c \in {Hex!Space, Hex!Minus})
         /\ Hex!IsNumber(Append(s, c)) <=> (Hex!IsNumber(s) \/ (Opening(s) /\ c < 10))
<1> DEFINE N == Len(s)
           t == Append(s, c)
           Space == Hex!Space
           Minus == Hex!Minus
<1>1. /\ N \in Nat /\ Len(t) = N + 1 /\ DOMAIN t = 1..(N + 1) /\ DOMAIN s = 1..N
      /\ t[N + 1] = c /\ \A n \in 1..N : t[n] = s[n]
  OBVIOUS
<1>2. \A n : n \in 1..(N + 1) <=> (n \in 1..N \/ n = N + 1)
  BY <1>1
<1> HIDE DEF N, t, Space, Minus
<1>3. Blank(t) <=> (Blank(s) /\ c = Space)
  BY <1>1, <1>2 DEF Blank, N, Space
<1>4. Opening(t) <=> (Blank(s) /\ c \in {Space, Minus})
  <2>1. \A n \in 1..N : n # N + 1 /\ n \in 1..(N + 1)
    BY <1>1
  <2>2. N + 1 \in 1..(N + 1)
    BY <1>1
  <2>3. Opening(t) <=> \A n \in 1..(N + 1) : t[n] = Space \/ (t[n] = Minus /\ n = N + 1)
    BY <1>1 DEF Opening, Space, Minus
  <2>4. Blank(s) <=> \A n \in 1..N : s[n] = Space
    BY DEF Blank, Space, N
  <2>5. ASSUME Opening(t) PROVE Blank(s) /\ c \in {Space, Minus}
    BY <1>1, <2>1, <2>2, <2>3, <2>4, <2>5
  <2>6. ASSUME Blank(s), c \in {Space, Minus} PROVE Opening(t)
    BY <1>1, <1>2, <2>3, <2>4, <2>6
  <2> QED
    BY <2>5, <2>6
<1>5. Hex!IsNumber(t) <=> (Hex!IsNumber(s) \/ (Opening(s) /\ c < 10))
  <2> DEFINE At(u, i) == /\ \A j \in 1..(i - 1) : u[j] = Space \/ (u[j] = Minus /\ j = i - 1)
                         /\ u[i] < 10
  <2>1. /\ Hex!IsNumber(t) <=> \E i \in 1..(N + 1) : At(t, i)
        /\ Hex!IsNumber(s) <=> \E i \in 1..N : At(s, i)
    BY <1>1 DEF Hex!IsNumber, Space, Minus
  <2>2. ASSUME NEW i \in 1..N PROVE At(t, i) <=> At(s, i)
    <3>1. \A j \in 1..(i - 1) : j \in 1..N
      BY <1>1
    <3> QED
      BY <1>1, <3>1
  <2>3. At(t, N + 1) <=> (Opening(s) /\ c < 10)
    <3>1. (N + 1) - 1 = N
      BY <1>1
    <3>2. Opening(s) <=> \A j \in 1..N : s[j] = Space \/ (s[j] = Minus /\ j = N)
      BY DEF Opening, Space, Minus, N
    <3> QED
      BY <1>1, <3>1, <3>2
  <2> HIDE DEF At
  <2> QED
    BY <1>2, <2>1, <2>2, <2>3
<1> QED
  BY <1>3, <1>4, <1>5 DEF t, Space, Minus

\* sscanf finds a decimal number in the texts that begin with one.
LEMMA ReadAny ==
  ASSUME NEW s \in Seq(Char)
  PROVE  Scanned(s, 10).any <=> Hex!IsNumber(s)
<1> DEFINE st(u) == Scanned(u, 10)
           Is(u) == /\ st(u).at = "blanks" <=> Blank(u)
                    /\ st(u).at = "blanks" => ~st(u).any
                    /\ (st(u).at # "end" /\ ~st(u).any) <=> Opening(u)
                    /\ st(u).any <=> Hex!IsNumber(u)
           P == {u \in Seq(Char) : Is(u)}
<1>0. 10 \in Radix
  BY DEF Radix
<1>1. Is(<< >>)
  <2>1. st(<< >>) = HexFirst
    BY <1>0, ReadIs
  <2>2. Blank(<< >>) /\ Opening(<< >>) /\ ~Hex!IsNumber(<< >>)
    BY DEF Blank, Opening, Hex!IsNumber
  <2> QED
    BY <2>1, <2>2 DEF HexFirst
<1>2. ASSUME NEW u \in Seq(Char), NEW c \in Char, Is(u) PROVE Is(Append(u, c))
  <2> DEFINE a == st(u)
             b == st(Append(u, c))
  <2>1. a \in HexState /\ b = Hex!ReadChar(a, c, 10)
    BY <1>0, ReadIs
  <2>2. c \in Nat /\ Hex!Space >= 10 /\ Hex!Minus >= 10 /\ Hex!Space # Hex!Minus
    BY DEF Char, Hex!Space, Hex!Minus, Hex!Other
  <2>3. /\ Blank(Append(u, c)) <=> (Blank(u) /\ c = Hex!Space)
        /\ Opening(Append(u, c)) <=> (Blank(u) /\ c \in {Hex!Space, Hex!Minus})
        /\ Hex!IsNumber(Append(u, c)) <=> (Hex!IsNumber(u) \/ (Opening(u) /\ c < 10))
    BY OpeningAppend
  <2>4. /\ a.at = "blanks" <=> Blank(u)
        /\ a.at = "blanks" => ~a.any
        /\ (a.at # "end" /\ ~a.any) <=> Opening(u)
        /\ a.any <=> Hex!IsNumber(u)
    BY <1>2
  <2>5. Append(u, c) \in Seq(Char)
    OBVIOUS
  <2> SUFFICES /\ b.at = "blanks" <=> Blank(Append(u, c))
               /\ b.at = "blanks" => ~b.any
               /\ (b.at # "end" /\ ~b.any) <=> Opening(Append(u, c))
               /\ b.any <=> Hex!IsNumber(Append(u, c))
    OBVIOUS
  <2> HIDE DEF a, b
  <2>6. CASE a.at = "blanks" /\ c = Hex!Space
    <3>1. b = a
      BY <2>1, <2>2, <2>6 DEF Hex!ReadChar
    <3>2. ~(c < 10)
      BY <2>2, <2>6
    <3> QED
      BY <2>3, <2>4, <2>6, <3>1, <3>2
  <2>7. CASE a.at = "blanks" /\ c = Hex!Minus
    <3>1. b = [a EXCEPT !.at = "digits", !.sign = -1]
      BY <2>1, <2>2, <2>7 DEF Hex!ReadChar
    <3>2. b.at = "digits" /\ b.any = a.any
      BY <2>1, <3>1 DEF HexState
    <3>3. ~(c < 10) /\ c # Hex!Space
      BY <2>2, <2>7
    <3> QED
      BY <2>3, <2>4, <2>7, <3>2, <3>3
  <2>8. CASE a.at # "end" /\ c < 10
    <3>1. c # Hex!Space /\ c # Hex!Minus
      BY <2>2, <2>8
    <3>2. b = [a EXCEPT !.at = "digits", !.any = TRUE, !.value = @ * 10 + c]
      BY <2>1, <2>8, <3>1 DEF Hex!ReadChar
    <3>3. b.at = "digits" /\ b.any = TRUE
      BY <2>1, <3>2 DEF HexState
    <3> QED
      BY <2>3, <2>4, <2>8, <3>1, <3>3
  <2>9. CASE /\ ~(a.at = "blanks" /\ c = Hex!Space) /\ ~(a.at = "blanks" /\ c = Hex!Minus)
             /\ ~(a.at # "end" /\ c < 10)
    <3>1. b = [a EXCEPT !.at = "end"]
      BY <2>1, <2>9, Zenon DEF Hex!ReadChar
    <3>2. b.at = "end" /\ b.any = a.any
      BY <2>1, <3>1 DEF HexState
    <3> QED
      BY <2>3, <2>4, <2>9, <3>2
  <2> QED
    BY <2>6, <2>7, <2>8, <2>9
<1>3. << >> \in P /\ \A u \in Seq(Char), c \in Char : u \in P => Append(u, c) \in P
  <2>1. << >> \in Seq(Char) /\ \A u \in Seq(Char), c \in Char : Append(u, c) \in Seq(Char)
    OBVIOUS
  <2> HIDE DEF Is
  <2> QED
    BY <1>1, <1>2, <2>1
<1>4. \A u \in Seq(Char) : u \in P
  <2> HIDE DEF P
  <2> QED
    BY <1>3, SeqInduction
<1> QED
  BY <1>4

\* The remainders that a computer's numbers are.
LEMMA Remainders ==
  ASSUME NEW w \in Nat, w > 0
  PROVE  /\ \A n \in 0..(w - 1) : n % w = n
         /\ \A n \in 1..w : (-n) % w = w - n
         /\ \A n \in Int : n % w \in 0..(w - 1)
<1>1. ASSUME NEW n \in Int PROVE n % w \in 0..(w - 1)
  OBVIOUS
<1>2. ASSUME NEW n \in 0..(w - 1) PROVE n % w = n
  OBVIOUS
<1>3. ASSUME NEW n \in 1..w PROVE (-n) % w = w - n
  OBVIOUS
<1> QED
  BY <1>1, <1>2, <1>3

\* The hexadecimal form.
Hexa(v) == <<0, Hex!X>> \o Hex!Digits(v, 16)

\* What printf writes, sscanf reads.
LEMMA ScanDigits ==
  ASSUME HexNumbers, NEW base \in Radix, NEW n \in Nat
  PROVE  /\ Hex!Digits(n, base) \in Seq(0..(base - 1)) /\ Hex!Digits(n, base) \in Seq(Char)
         /\ Hex!Digits(n, base) # << >>
         /\ Hex!Scan(Hex!Digits(n, base), base) = <<n % HexWord>>
<1> DEFINE d == Hex!Digits(n, base)
           p == << >>
<1>1. p \in Seq(Char) /\ Scanned(p, base) = HexFirst
  BY ReadIs
<1>2. Scanned(p, base).at # "end" /\ ~Scanned(p, base).any /\ Scanned(p, base).value = 0
        /\ Scanned(p, base).sign = 1
  BY <1>1 DEF HexFirst
<1>3. /\ d \in Seq(0..(base - 1)) /\ d # << >>
      /\ Scanned(p \o d, base) = [at |-> "digits", sign |-> Scanned(p, base).sign, any |-> TRUE, value |-> n]
  <2> HIDE DEF p
  <2> QED
    BY <1>1, <1>2, DigitsRead
<1>4. d \in Seq(Char)
  <2>1. 0..(base - 1) \subseteq Char
    BY DEF Radix, Char, Hex!Other
  <2> HIDE DEF d
  <2> QED
    BY <1>3, <2>1, SeqMonotonic
<1>5. p \o d = d
  <2> HIDE DEF d
  <2> QED
    BY <1>4
<1>6. Scanned(d, base) = [at |-> "digits", sign |-> 1, any |-> TRUE, value |-> n]
  BY <1>2, <1>3, <1>5
<1>7. Hex!Scan(d, base) = <<(1 * n) % HexWord>>
  <2> HIDE DEF d
  <2>1. Hex!Scan(d, base) = IF Scanned(d, base).any
                            THEN <<(Scanned(d, base).sign * Scanned(d, base).value) % HexWord>> ELSE << >>
    BY <1>4, ScanIs
  <2> DEFINE r == Scanned(d, base)
  <2>2. r.any = TRUE /\ r.sign = 1 /\ r.value = n
    BY <1>6
  <2> HIDE DEF r
  <2> QED
    BY <2>1, <2>2, Zenon DEF r
<1>8. 1 * n = n
  OBVIOUS
<1> QED
  BY <1>3, <1>4, <1>7, <1>8

LEMMA ScanMinus ==
  ASSUME HexNumbers, NEW n \in Nat
  PROVE  Hex!Scan(<<Hex!Minus>> \o Hex!Digits(n, 10), 10) = <<(-n) % HexWord>>
<1> DEFINE d == Hex!Digits(n, 10)
           p == <<Hex!Minus>>
<1>0. 10 \in Radix /\ Hex!Minus \in Char
  BY DEF Radix, Char, Hex!Minus, Hex!Other
<1>1. p \in Seq(Char) /\ Scanned(p, 10) = [at |-> "digits", sign |-> -1, any |-> FALSE, value |-> 0]
  <2>1. p = Append(<< >>, Hex!Minus) /\ << >> \in Seq(Char) /\ p \in Seq(Char)
    BY <1>0
  <2>2. Scanned(p, 10) = Hex!ReadChar(HexFirst, Hex!Minus, 10)
    BY <1>0, <2>1, ReadIs
  <2>3. Hex!ReadChar(HexFirst, Hex!Minus, 10) = [HexFirst EXCEPT !.at = "digits", !.sign = -1]
    BY DEF Hex!ReadChar, HexFirst, Hex!Minus, Hex!Space
  <2> QED
    BY <2>1, <2>2, <2>3 DEF HexFirst
<1>2. Scanned(p, 10).at # "end" /\ ~Scanned(p, 10).any /\ Scanned(p, 10).value = 0 /\ Scanned(p, 10).sign = -1
  BY <1>1
<1>3. /\ d \in Seq(Char)
      /\ Scanned(p \o d, 10) = [at |-> "digits", sign |-> Scanned(p, 10).sign, any |-> TRUE, value |-> n]
  <2>1. d \in Seq(Char)
    BY <1>0, ScanDigits
  <2> HIDE DEF p
  <2> QED
    BY <1>0, <1>1, <1>2, <2>1, DigitsRead
<1> DEFINE t == p \o d
           r == Scanned(t, 10)
<1>4. t \in Seq(Char)
  <2> HIDE DEF p, d
  <2> QED
    BY <1>1, <1>3, ConcatProperties
<1>5. r.any = TRUE /\ r.sign = -1 /\ r.value = n
  BY <1>2, <1>3
<1>6. Hex!Scan(t, 10) = IF r.any THEN <<(r.sign * r.value) % HexWord>> ELSE << >>
  <2> HIDE DEF t
  <2> QED
    BY <1>0, <1>4, ScanIs
<1>7. Hex!Scan(t, 10) = <<((-1) * n) % HexWord>>
  <2> HIDE DEF r
  <2> QED
    BY <1>5, <1>6, Zenon
<1>8. (-1) * n = -n
  OBVIOUS
<1> QED
  BY <1>7, <1>8

\* Both forms of a number, and what they are converted into.
LEMMA FormsAre ==
  ASSUME HexNumbers, NEW v \in 0..(HexWord - 1)
  PROVE  /\ Hex!Decimal(v) \in Seq(Char) /\ Hexa(v) \in Seq(Char)
         /\ Hex!Decimal(v) # << >> /\ Hexa(v) # << >>
         /\ Hex!Scan(Hex!Decimal(v), 10) = <<v>>
         /\ ~(Len(Hex!Decimal(v)) >= 2 /\ Hex!Decimal(v)[1] = 0 /\ Hex!Decimal(v)[2] = Hex!X)
<1> DEFINE W == HexWord
           half == W \div 2
           dec == Hex!Decimal(v)
<1>0. 10 \in Radix /\ 16 \in Radix /\ 0 \in Char /\ Hex!Minus \in Char /\ Hex!X \in Char
  BY DEF Radix, Char, Hex!Minus, Hex!X, Hex!Other
<1>1. W \in Nat /\ W > 0 /\ half \in Nat /\ half <= W
  BY DEF HexNumbers
<1>2. v \in Nat /\ W - v \in 1..W
  <2> HIDE DEF half
  <2> QED
    BY <1>1
<1>3. Hexa(v) \in Seq(Char) /\ Hexa(v) # << >>
  <2> DEFINE d == Hex!Digits(v, 16)
             p == <<0, Hex!X>>
  <2>1. d \in Seq(Char) /\ p \in Seq(Char) /\ Len(p) = 2
    BY <1>0, <1>2, ScanDigits
  <2> HIDE DEF d, p
  <2>2. p \o d \in Seq(Char) /\ Len(p \o d) = Len(p) + Len(d) /\ Len(d) \in Nat
    BY <2>1, ConcatProperties, LenProperties
  <2>3. p \o d # << >>
    BY <2>1, <2>2
  <2> QED
    BY <2>2, <2>3 DEF Hexa, d, p
<1>4. CASE v < half
  <2> DEFINE d == Hex!Digits(v, 10)
  <2>1. dec = d
    BY <1>4 DEF Hex!Decimal
  <2>2. d \in Seq(0..9) /\ d \in Seq(Char) /\ d # << >> /\ Hex!Scan(d, 10) = <<v % W>>
    <3>1. d \in Seq(0..(10 - 1)) /\ d \in Seq(Char) /\ d # << >> /\ Hex!Scan(d, 10) = <<v % W>>
      BY <1>0, <1>2, ScanDigits
    <3>2. 10 - 1 = 9
      OBVIOUS
    <3> HIDE DEF d
    <3> QED
      BY <3>1, <3>2
  <2>3. v % W = v
    BY <1>1, Remainders
  <2> HIDE DEF d, dec
  <2>4. Len(d) >= 2 => d[2] # Hex!X
    <3>1. Len(d) >= 2 => d[2] \in 0..9
      BY <2>2
    <3> QED
      BY <3>1 DEF Hex!X
  <2>5. dec \in Seq(Char) /\ dec # << >> /\ Hex!Scan(dec, 10) = <<v>>
    BY <2>1, <2>2, <2>3
  <2>6. ~(Len(dec) >= 2 /\ dec[1] = 0 /\ dec[2] = Hex!X)
    BY <2>1, <2>4
  <2> QED
    BY <1>3, <2>5, <2>6 DEF dec
<1>5. CASE ~(v < half)
  <2> DEFINE n == W - v
             d == Hex!Digits(n, 10)
             p == <<Hex!Minus>>
  <2>0. n \in 1..W /\ n \in Nat /\ W - n = v
    BY <1>1, <1>2
  <2>1. dec = p \o d
    BY <1>5 DEF Hex!Decimal
  <2> HIDE DEF n
  <2>2. d \in Seq(Char) /\ p \in Seq(Char) /\ Len(p) = 1 /\ p[1] = Hex!Minus
    BY <1>0, <2>0, ScanDigits
  <2>3. Hex!Scan(p \o d, 10) = <<(-n) % W>>
    BY <2>0, ScanMinus
  <2>4. (-n) % W = v
    BY <1>1, <2>0, Remainders
  <2> HIDE DEF d, p, dec
  <2>5. p \o d \in Seq(Char) /\ Len(p \o d) = Len(p) + Len(d) /\ Len(d) \in Nat
          /\ (p \o d)[1] = p[1]
    BY <2>2, ConcatProperties
  <2>6. p \o d # << >> /\ (p \o d)[1] # 0
    BY <2>2, <2>5 DEF Hex!Minus
  <2>7. dec \in Seq(Char) /\ dec # << >> /\ Hex!Scan(dec, 10) = <<v>> /\ dec[1] # 0
    BY <2>1, <2>3, <2>4, <2>5, <2>6
  <2> QED
    BY <1>3, <2>7 DEF dec
<1> QED
  BY <1>4, <1>5

\* A text that begins with "0x", and what is behind it.
IsHexa(s)  == Len(s) >= 2 /\ s[1] = 0 /\ s[2] = Hex!X
Behind(s)  == SubSeq(s, 3, Len(s))
ScanHex(s) == IF IsHexa(s) THEN Hex!Scan(Behind(s), 16) ELSE << >>

LEMMA ConvertForms ==
  ASSUME HexNumbers, NEW v \in 0..(HexWord - 1)
  PROVE  Hex!Convert(Hex!Decimal(v)) = Hexa(v) /\ Hex!Convert(Hexa(v)) = Hex!Decimal(v)
<1> DEFINE dec == Hex!Decimal(v)
           d == Hex!Digits(v, 16)
           h == <<0, Hex!X>> \o d
<1>0. 16 \in Radix /\ 0 \in Char /\ Hex!X \in Char /\ v \in Nat
  BY DEF Radix, Char, Hex!X, Hex!Other, HexNumbers
<1>1. Hex!Convert(dec) = h
  <2>1. Hex!Scan(dec, 10) = <<v>> /\ ~(Len(dec) >= 2 /\ dec[1] = 0 /\ dec[2] = Hex!X)
    BY FormsAre
  <2> HIDE DEF dec
  <2>2. Hex!Scan(dec, 10) # << >> /\ Hex!Scan(dec, 10)[1] = v
    BY <2>1
  <2> QED
    BY <2>1, <2>2, Zenon DEF Hex!Convert
<1>2. Hex!Convert(h) = dec
  <2>1. d \in Seq(Char) /\ Hex!Scan(d, 16) = <<v % HexWord>>
    BY <1>0, ScanDigits
  <2>2. v % HexWord = v
    BY Remainders DEF HexNumbers
  <2> HIDE DEF d
  <2> DEFINE p == <<0, Hex!X>>
  <2>3. p \in Seq(Char) /\ Len(p) = 2 /\ p[1] = 0 /\ p[2] = Hex!X /\ Len(d) \in Nat
    BY <1>0, <2>1
  <2>4. h = p \o d
    OBVIOUS
  <2> HIDE DEF p
  <2>5. /\ h \in Seq(Char) /\ Len(h) = 2 + Len(d) /\ h[1] = 0 /\ h[2] = Hex!X
        /\ \A k \in 1..Len(d) : h[2 + k] = d[k]
    <3>1. /\ p \o d \in Seq(Char) /\ Len(p \o d) = Len(p) + Len(d)
          /\ \A i \in 1..(Len(p) + Len(d)) : (p \o d)[i] = IF i <= Len(p) THEN p[i] ELSE d[i - Len(p)]
      BY <2>1, <2>3, ConcatProperties
    <3> DEFINE M == Len(d)
    <3>2. M \in Nat
      BY <2>3
    <3>3. 1 \in 1..(2 + M) /\ 2 \in 1..(2 + M) /\ \A k \in 1..M : 2 + k \in 1..(2 + M)
            /\ ~(2 + k <= 2) /\ (2 + k) - 2 = k
      <4> HIDE DEF M
      <4> QED
        BY <3>2
    <3> HIDE DEF h
    <3> QED
      BY <2>3, <2>4, <3>1, <3>3
  <2> HIDE DEF h
  <2>6. SubSeq(h, 3, Len(h)) = d
    <3> DEFINE M == Len(d)
               u == SubSeq(h, 3, Len(h))
    <3>1. M \in Nat /\ Len(h) = 2 + M
      BY <2>3, <2>5
    <3>2. \A i \in 3..Len(h) : h[i] \in Char
      BY <2>5
    <3>3. /\ u \in Seq(Char) /\ Len(u) = IF 3 <= Len(h) THEN Len(h) - 3 + 1 ELSE 0
          /\ \A i \in 1..(Len(h) - 3 + 1) : u[i] = h[3 + i - 1]
      BY <3>1, <3>2, SubSeqProperties
    <3> HIDE DEF M, u
    <3>4. Len(u) = M
      BY <3>1, <3>3
    <3>5. ASSUME NEW i \in 1..M PROVE u[i] = d[i]
      <4>1. i \in 1..(Len(h) - 3 + 1) /\ 3 + i - 1 = 2 + i
        BY <3>1
      <4> QED
        BY <2>5, <3>3, <4>1 DEF M
    <3>6. u = d
      <4>1. Len(u) = Len(d) /\ \A i \in 1..Len(u) : u[i] = d[i]
        BY <3>4, <3>5 DEF M
      <4> QED
        BY <2>1, <3>3, <4>1, SeqEqual
    <3> QED
      BY <3>6 DEF u
  <2>7. Len(h) >= 2
    BY <2>3, <2>5
  <2> DEFINE scan == Hex!Scan(SubSeq(h, 3, Len(h)), 16)
  <2>8. scan # << >> /\ scan[1] = v
    <3>1. scan = <<v>>
      BY <2>1, <2>2, <2>6, Zenon
    <3> HIDE DEF scan
    <3> QED
      BY <3>1
  <2> QED
    BY <2>5, <2>7, <2>8, Zenon DEF Hex!Convert
<1> QED
  BY <1>1, <1>2 DEF Hexa

\* What convert makes of any text.
LEMMA ConvertIs ==
  ASSUME HexNumbers, NEW s \in Seq(Char)
  PROVE  /\ Hex!Convert(s) # << >> <=> Hex!IsNumber(s)
         /\ Hex!Convert(s) # << >> =>
              \E v \in 0..(HexWord - 1) : Hex!Convert(s) \in {Hex!Decimal(v), Hexa(v)}
<1> DEFINE hex == ScanHex(s)
           dec == Hex!Scan(s, 10)
<1>0. 10 \in Radix /\ 16 \in Radix
  BY DEF Radix
<1>1. ASSUME NEW base \in Radix, NEW t \in Seq(Char), Hex!Scan(t, base) # << >>
      PROVE  Hex!Scan(t, base)[1] \in 0..(HexWord - 1)
  <2> DEFINE r == Scanned(t, base)
             z == r.sign * r.value
  <2>1. Hex!Scan(t, base) = IF r.any THEN <<z % HexWord>> ELSE << >>
    BY ScanIs
  <2>2. r.sign \in Int /\ r.value \in Int
    <3>1. r \in HexState
      BY ReadIs
    <3> HIDE DEF r
    <3> QED
      BY <3>1 DEF HexState
  <2>3. z \in Int
    <3> HIDE DEF r
    <3> QED
      BY <2>2
  <2> HIDE DEF r, z
  <2>4. z % HexWord \in 0..(HexWord - 1)
    BY <2>3, Remainders DEF HexNumbers
  <2>5. Hex!Scan(t, base) = <<z % HexWord>>
    BY <1>1, <2>1
  <2> QED
    BY <2>4, <2>5
<1>2. dec # << >> <=> Hex!IsNumber(s)
  <2>1. dec = IF Scanned(s, 10).any THEN <<(Scanned(s, 10).sign * Scanned(s, 10).value) % HexWord>> ELSE << >>
    BY <1>0, ScanIs
  <2>2. \A x : <<x>> # << >>
    OBVIOUS
  <2>3. dec # << >> <=> Scanned(s, 10).any
    <3> HIDE DEF dec
    <3> QED
      BY <2>1, <2>2
  <2> QED
    BY <2>3, ReadAny
<1>3. IsHexa(s) => Behind(s) \in Seq(Char)
  <2> DEFINE N == Len(s)
  <2>1. N \in Nat /\ \A i \in 3..N : s[i] \in Char
    OBVIOUS
  <2> QED
    BY <2>1, SubSeqProperties DEF Behind
<1>4. hex # << >> => IsHexa(s) /\ hex[1] \in 0..(HexWord - 1)
  BY <1>0, <1>1, <1>3 DEF ScanHex
<1>5. hex # << >> => Hex!IsNumber(s)
  <2>1. ASSUME IsHexa(s) PROVE Hex!IsNumber(s)
    <3>1. s[1] = 0 /\ 1 \in DOMAIN s
      BY <2>1 DEF IsHexa
    <3>2. s[1] < 10 /\ \A j \in 1..(1 - 1) : FALSE
      BY <3>1
    <3> QED
      BY <3>1, <3>2 DEF Hex!IsNumber
  <2> QED
    BY <1>4, <2>1
<1>6. dec # << >> => dec[1] \in 0..(HexWord - 1)
  BY <1>0, <1>1
<1>7. Hex!Convert(s) = IF hex # << >> THEN Hex!Decimal(hex[1])
                       ELSE IF dec # << >> THEN Hexa(dec[1]) ELSE << >>
  BY Zenon DEF Hex!Convert, Hexa, ScanHex, IsHexa, Behind
<1>8. \A v \in 0..(HexWord - 1) : Hex!Decimal(v) # << >> /\ Hexa(v) # << >>
  BY FormsAre
<1> HIDE DEF hex, dec
<1>9. CASE hex # << >>
  <2>1. Hex!Convert(s) = Hex!Decimal(hex[1])
    BY <1>7, <1>9, Zenon
  <2> QED
    BY <1>4, <1>5, <1>8, <1>9, <2>1
<1>10. CASE hex = << >> /\ dec # << >>
  <2>1. Hex!Convert(s) = Hexa(dec[1])
    BY <1>7, <1>10, Zenon
  <2> QED
    BY <1>2, <1>6, <1>8, <1>10, <2>1
<1>11. CASE hex = << >> /\ dec = << >>
  <2>1. Hex!Convert(s) = << >>
    BY <1>7, <1>11, Zenon
  <2> QED
    BY <1>2, <1>11, <2>1
<1> QED
  BY <1>9, <1>10, <1>11

\* A result is a text that is converted back.
LEMMA ConvertTwice ==
  ASSUME HexNumbers, NEW s \in Seq(Char), Hex!Convert(s) # << >>
  PROVE  /\ Hex!Convert(s) \in Seq(Char) /\ Hex!Convert(Hex!Convert(s)) # << >>
         /\ Hex!Convert(Hex!Convert(Hex!Convert(s))) = Hex!Convert(s)
<1> DEFINE r == Hex!Convert(s)
<1>1. PICK v \in 0..(HexWord - 1) : r \in {Hex!Decimal(v), Hexa(v)}
  BY ConvertIs
<1>2. /\ Hex!Decimal(v) \in Seq(Char) /\ Hexa(v) \in Seq(Char)
      /\ Hex!Decimal(v) # << >> /\ Hexa(v) # << >>
  BY FormsAre
<1>3. Hex!Convert(Hex!Decimal(v)) = Hexa(v) /\ Hex!Convert(Hexa(v)) = Hex!Decimal(v)
  BY ConvertForms
<1> HIDE DEF r
<1>4. CASE r = Hex!Decimal(v)
  BY <1>2, <1>3, <1>4 DEF r
<1>5. CASE r = Hexa(v)
  BY <1>2, <1>3, <1>5 DEF r
<1> QED
  BY <1>1, <1>4, <1>5

\* The decimal forms are those of the numbers.
LEMMA CanonicalAre ==
  ASSUME HexNumbers, NEW s \in Hex!Canonical
  PROVE  s # << >> /\ Hex!Convert(Hex!Convert(s)) = s
<1> DEFINE W == HexWord
           half == W \div 2
<1>1. W \in Nat /\ W > 0 /\ half \in Nat /\ half + half <= W
  BY DEF HexNumbers
<1>2. \E v \in 0..(W - 1) : s = Hex!Decimal(v)
  <2>1. CASE \E n \in 0..(half - 1) : s = Hex!Digits(n, 10)
    <3>1. PICK n \in 0..(half - 1) : s = Hex!Digits(n, 10)
      BY <2>1
    <3>2. n \in 0..(W - 1) /\ n < half
      <4> HIDE DEF half
      <4> QED
        BY <1>1
    <3> QED
      BY <3>1, <3>2 DEF Hex!Decimal
  <2>2. CASE \E n \in 1..half : s = <<Hex!Minus>> \o Hex!Digits(n, 10)
    <3>1. PICK n \in 1..half : s = <<Hex!Minus>> \o Hex!Digits(n, 10)
      BY <2>2
    <3> DEFINE v == W - n
    <3>2. v \in 0..(W - 1) /\ ~(v < half) /\ W - v = n
      <4> HIDE DEF half
      <4> QED
        BY <1>1
    <3>3. Hex!Decimal(v) = <<Hex!Minus>> \o Hex!Digits(W - v, 10)
      BY <3>2 DEF Hex!Decimal
    <3> QED
      BY <3>1, <3>2, <3>3
  <2> QED
    BY <2>1, <2>2 DEF Hex!Canonical
<1>3. PICK v \in 0..(W - 1) : s = Hex!Decimal(v)
  BY <1>2
<1> QED
  BY <1>3, FormsAre, ConvertForms

\* Where main is after some lines.
Text        == Seq(Char)
HexMain     == [out : Seq(Text), dead : BOOLEAN]
HexBegin    == [out |-> << >>, dead |-> FALSE]
HexStep     == [x \in HexMain \X Text |-> Hex!Line(x[1], x[2])]
HexAt(file) == After(file, HexMain, HexBegin, HexStep)

LEMMA LineTypes ==
  ASSUME HexNumbers, NEW s \in HexMain, NEW line \in Text
  PROVE  Hex!Line(s, line) \in HexMain
<1>1. CASE s.dead \/ Hex!Convert(line) = << >>
  <2>1. Hex!Line(s, line) = [s EXCEPT !.dead = TRUE]
    BY <1>1, Zenon DEF Hex!Line
  <2> QED
    BY <2>1 DEF HexMain
<1>2. CASE ~(s.dead \/ Hex!Convert(line) = << >>)
  <2> DEFINE r == Hex!Convert(line)
             o == Append(s.out, r)
  <2>1. Hex!Line(s, line) = [s EXCEPT !.out = Append(@, r)]
    BY <1>2, Zenon DEF Hex!Line
  <2>2. r \in Text
    BY <1>2, ConvertTwice DEF Text
  <2> HIDE DEF r
  <2>3. o \in Seq(Text)
    BY <2>2 DEF HexMain
  <2>4. Hex!Line(s, line) = [s EXCEPT !.out = o]
    BY <2>1
  <2> HIDE DEF o
  <2> QED
    BY <2>3, <2>4 DEF HexMain
<1> QED
  BY <1>1, <1>2

LEMMA HexStepIs ==
  ASSUME HexNumbers
  PROVE  /\ IsStep(HexMain, Text, HexBegin, HexStep)
         /\ \A s \in HexMain, line \in Text : HexStep[<<s, line>>] = Hex!Line(s, line)
<1>1. \A s \in HexMain, line \in Text : Hex!Line(s, line) \in HexMain
  BY LineTypes
<1>2. HexBegin \in HexMain
  BY DEF HexBegin, HexMain
<1> DEFINE S == HexMain
           T == Text
<1> HIDE DEF S, T
<1>3. HexStep \in [S \X T -> S]
  BY <1>1 DEF HexStep, S, T
<1>4. ASSUME NEW s \in S, NEW line \in T PROVE HexStep[<<s, line>>] = Hex!Line(s, line)
  BY DEF HexStep, S, T
<1> QED
  BY <1>2, <1>3, <1>4 DEF IsStep, S, T

LEMMA HexAtIs ==
  ASSUME HexNumbers
  PROVE  /\ HexAt(<< >>) = HexBegin
         /\ \A file \in Seq(Text) : HexAt(file) \in HexMain
         /\ \A file \in Seq(Text), line \in Text :
              HexAt(Append(file, line)) = Hex!Line(HexAt(file), line)
<1> DEFINE S == HexMain
           T == Text
           End(s) == After(s, S, HexBegin, HexStep)
<1>1. IsStep(S, T, HexBegin, HexStep)
  BY HexStepIs
<1>2. \A s \in S, line \in T : HexStep[<<s, line>>] = Hex!Line(s, line)
  BY HexStepIs
<1> HIDE DEF S, T
<1>3. /\ \A s \in Seq(T) : End(s) \in S
      /\ End(<< >>) = HexBegin
      /\ \A s \in Seq(T), c \in T : End(Append(s, c)) = HexStep[<<End(s), c>>]
  BY <1>1, AfterIs
<1>4. \A s : HexAt(s) = End(s)
  BY DEF HexAt, S
<1> HIDE DEF End
<1>5. ASSUME NEW s \in Seq(T), NEW c \in T
      PROVE  HexAt(Append(s, c)) = Hex!Line(HexAt(s), c)
  BY <1>2, <1>3, <1>4
<1> QED
  BY <1>3, <1>4, <1>5 DEF S, T

\* main is what its definition says.
LEMMA HexMainIs ==
  ASSUME HexNumbers, NEW file \in Seq(Text)
  PROVE  Hex!Main(<< >>, file) = HexAt(file)
<1> DEFINE N == Len(file)
           S == HexMain
           Is(r) == r = [n \in 0..N |-> IF n = 0 THEN [out |-> << >>, dead |-> Len(<< >>) > 1]
                                        ELSE Hex!Line(r[n - 1], file[n])]
           after == CHOOSE r : Is(r)
<1>1. N \in Nat /\ \A n \in 1..N : file[n] \in Text
  OBVIOUS
<1>a. /\ 0 \in 0..N /\ N \in 0..N /\ \A n \in 0..N : n = 0 \/ n \in 1..N
      /\ \A n \in 1..N : n # 0 /\ n \in 0..N /\ n - 1 \in 0..N
  <2> HIDE DEF N
  <2> QED
    BY <1>1
<1>b. [out |-> << >>, dead |-> Len(<< >>) > 1] = HexBegin
  <2>1. (Len(<< >>) > 1) = FALSE
    OBVIOUS
  <2> QED
    BY <2>1, Zenon DEF HexBegin
<1>2. PICK f : IsFold(f, file, S, HexBegin, HexStep)
  <2>1. IsStep(S, Text, HexBegin, HexStep)
    BY HexStepIs
  <2> HIDE DEF S
  <2> QED
    BY <2>1, FoldExists
<1>3. f \in [0..N -> S] /\ f[0] = HexBegin /\ \A n \in 1..N : f[n] = HexStep[<<f[n - 1], file[n]>>]
  <2> HIDE DEF S
  <2> QED
    BY <1>2 DEF IsFold
<1>4. \A s \in S, line \in Text : HexStep[<<s, line>>] = Hex!Line(s, line)
  BY HexStepIs
<1> HIDE DEF S
<1>5. Is(f)
  <2> HIDE DEF N
  <2>1. \A n \in 1..N : f[n] = Hex!Line(f[n - 1], file[n])
    BY <1>1, <1>a, <1>3, <1>4
  <2>2. \A n \in 0..N : f[n] = IF n = 0 THEN HexBegin ELSE Hex!Line(f[n - 1], file[n])
    BY <1>a, <1>3, <2>1
  <2>3. f = [n \in 0..N |-> f[n]]
    BY <1>3
  <2>4. f = [n \in 0..N |-> IF n = 0 THEN HexBegin ELSE Hex!Line(f[n - 1], file[n])]
    BY <2>2, <2>3
  <2> QED
    BY <1>b, <2>4, Zenon
<1>6. Is(after)
  <2> HIDE DEF Is
  <2> QED
    BY <1>5
<1>7. Hex!Main(<< >>, file) = after[N]
  BY DEF Hex!Main
<1> HIDE DEF after
<1>8. /\ after = [n \in 0..N |-> after[n]] /\ after[0] = HexBegin
      /\ \A n \in 1..N : after[n] = Hex!Line(after[n - 1], file[n])
  <2> HIDE DEF N
  <2>1. after = [n \in 0..N |-> IF n = 0 THEN HexBegin ELSE Hex!Line(after[n - 1], file[n])]
    BY <1>6, <1>b, Zenon
  <2> HIDE <1>6
  <2>2. \A n \in 0..N : after[n] = IF n = 0 THEN HexBegin ELSE Hex!Line(after[n - 1], file[n])
    BY <2>1
  <2>3. after = [n \in 0..N |-> after[n]]
    BY <2>1, <2>2
  <2> QED
    BY <1>a, <2>2, <2>3
<1> DEFINE P == {n \in 0..N : after[n] \in S}
<1>9. 0 \in P /\ \A n \in 1..N : n - 1 \in P => n \in P
  <2> HIDE DEF N
  <2>1. 0 \in P
    BY <1>a, <1>3, <1>8
  <2>2. ASSUME NEW n \in 1..N, n - 1 \in P PROVE n \in P
    BY <1>1, <1>a, <1>8, <2>2, LineTypes DEF S
  <2> QED
    BY <2>1, <2>2
<1>10. \A n \in 0..N : n \in P
  <2> HIDE DEF P
  <2> QED
    BY <1>1, <1>9, Induction
<1>11. after \in [0..N -> S]
  BY <1>8, <1>10
<1>12. \A n \in 1..N : after[n] = HexStep[<<after[n - 1], file[n]>>]
  <2> HIDE DEF N
  <2> QED
    BY <1>1, <1>a, <1>4, <1>8, <1>11
<1>13. IsFold(after, file, S, HexBegin, HexStep)
  BY <1>8, <1>11, <1>12 DEF IsFold
<1>14. after[N] = HexAt(file)
  <2>1. IsStep(S, Text, HexBegin, HexStep)
    BY HexStepIs DEF S
  <2>2. after[N] = After(file, S, HexBegin, HexStep)
    BY <1>13, <2>1, AfterIs
  <2> QED
    BY <2>2 DEF HexAt, S
<1> QED
  BY <1>7, <1>14

\* What main has done with the lines so far.
IsConverted(file, r) ==
  LET m == Len(r.out) IN
  /\ r \in HexMain /\ m <= Len(file)
  /\ \A k \in 1..m : r.out[k] = Hex!Convert(file[k]) /\ Hex!Convert(file[k]) # << >>
  /\ IF r.dead THEN m < Len(file) /\ Hex!Convert(file[m + 1]) = << >> ELSE m = Len(file)

LEMMA ConvertedLines ==
  ASSUME HexNumbers, NEW file \in Seq(Text)
  PROVE  IsConverted(file, Hex!Main(<< >>, file))
<1> DEFINE P == {t \in Seq(Text) : IsConverted(t, HexAt(t))}
<1>1. << >> \in P
  <2>1. << >> \in Seq(Text) /\ HexAt(<< >>) = HexBegin /\ HexBegin \in HexMain
    BY HexAtIs DEF HexBegin, HexMain
  <2>2. HexBegin.out = << >> /\ HexBegin.dead = FALSE /\ Len(<< >>) = 0
    BY DEF HexBegin
  <2>3. IsConverted(<< >>, HexBegin)
    BY <2>1, <2>2 DEF IsConverted
  <2> QED
    BY <2>1, <2>3
<1>2. ASSUME NEW t \in Seq(Text), NEW line \in Text, IsConverted(t, HexAt(t))
      PROVE  IsConverted(Append(t, line), HexAt(Append(t, line)))
  <2> DEFINE u == Append(t, line)
             N == Len(t)
             a == HexAt(t)
             b == HexAt(u)
             m == Len(a.out)
             r == Hex!Convert(line)
  <2>1. N \in Nat /\ u \in Seq(Text) /\ Len(u) = N + 1 /\ u[N + 1] = line
          /\ \A k \in 1..N : u[k] = t[k]
    OBVIOUS
  <2>2. b = Hex!Line(a, line) /\ a \in HexMain /\ b \in HexMain
    BY <2>1, HexAtIs
  <2>3. /\ m <= N /\ \A k \in 1..m : a.out[k] = Hex!Convert(t[k]) /\ Hex!Convert(t[k]) # << >>
        /\ IF a.dead THEN m < N /\ Hex!Convert(t[m + 1]) = << >> ELSE m = N
    BY <1>2 DEF IsConverted
  <2>4. a.out \in Seq(Text) /\ a.dead \in BOOLEAN
    <3> HIDE DEF a
    <3> QED
      BY <2>2 DEF HexMain
  <2>5. m \in Nat
    <3> HIDE DEF a
    <3> QED
      BY <2>4
  <2> HIDE DEF u, N, a, b, m
  <2>6. \A k \in 1..m : u[k] = t[k]
    BY <2>1, <2>3, <2>5
  <2>7. CASE a.dead
    <3>1. b = [a EXCEPT !.dead = TRUE]
      BY <2>2, <2>7, Zenon DEF Hex!Line
    <3>2. b.out = a.out /\ b.dead = TRUE
      BY <2>2, <3>1 DEF HexMain
    <3>3. m < N /\ Hex!Convert(t[m + 1]) = << >> /\ m + 1 \in 1..N
      BY <2>1, <2>3, <2>5, <2>7
    <3>4. Len(b.out) = m /\ m < Len(u) /\ m <= Len(u) /\ u[m + 1] = t[m + 1]
      BY <2>1, <2>5, <3>2, <3>3 DEF m
    <3> QED
      BY <2>2, <2>3, <2>6, <3>2, <3>3, <3>4 DEF IsConverted, u, b
  <2>8. CASE ~a.dead /\ r = << >>
    <3>1. b = [a EXCEPT !.dead = TRUE]
      BY <2>2, <2>8, Zenon DEF Hex!Line
    <3>2. b.out = a.out /\ b.dead = TRUE
      BY <2>2, <3>1 DEF HexMain
    <3>3. m = N /\ u[m + 1] = line
      BY <2>1, <2>3, <2>8
    <3>4. Len(b.out) = m /\ m < Len(u) /\ m <= Len(u)
      BY <2>1, <2>5, <3>2, <3>3 DEF m
    <3> QED
      BY <2>2, <2>3, <2>6, <2>8, <3>2, <3>3, <3>4 DEF IsConverted, u, b
  <2>9. CASE ~a.dead /\ r # << >>
    <3> HIDE DEF r
    <3>1. b = [a EXCEPT !.out = Append(@, r)]
      BY <2>2, <2>9, Zenon DEF Hex!Line, r
    <3>2. b.out = Append(a.out, r) /\ b.dead = FALSE
      BY <2>2, <2>4, <2>9, <3>1 DEF HexMain
    <3>3. m = N
      BY <2>3, <2>9
    <3>4. r \in Text
      BY <2>9, ConvertTwice DEF r, Text
    <3>5. Len(b.out) = m + 1 /\ b.out[m + 1] = r /\ \A k \in 1..m : b.out[k] = a.out[k]
      BY <2>4, <3>2, <3>4 DEF m
    <3>6. \A k \in 1..(m + 1) : k \in 1..m \/ k = m + 1
      BY <2>5
    <3>7. u[m + 1] = line /\ Len(u) = m + 1
      BY <2>1, <3>3
    <3>8. \A k \in 1..(m + 1) : b.out[k] = Hex!Convert(u[k]) /\ Hex!Convert(u[k]) # << >>
      BY <2>3, <2>6, <2>9, <3>5, <3>6, <3>7 DEF r
    <3>9. m + 1 <= m + 1
      BY <2>5
    <3> QED
      BY <2>2, <3>2, <3>5, <3>7, <3>8, <3>9 DEF IsConverted, u, b
  <2> QED
    BY <2>4, <2>7, <2>8, <2>9
<1>3. \A t \in Seq(Text) : t \in P
  <2>1. \A t \in Seq(Text), line \in Text : t \in P => Append(t, line) \in P
    <3>1. \A t \in Seq(Text), line \in Text : Append(t, line) \in Seq(Text)
      OBVIOUS
    <3> QED
      BY <1>2, <3>1
  <2> HIDE DEF P
  <2> QED
    BY <1>1, <2>1, SeqInduction
<1> QED
  BY <1>3, HexMainIs

\* A text of results is converted to its end.
LEMMA ConvertedResults ==
  ASSUME HexNumbers, NEW file \in Seq(Text), \A k \in 1..Len(file) : Hex!Convert(file[k]) # << >>,
         NEW r, IsConverted(file, r)
  PROVE  /\ ~r.dead /\ Len(r.out) = Len(file) /\ r.out \in Seq(Text)
         /\ \A k \in 1..Len(file) : r.out[k] = Hex!Convert(file[k])
<1> DEFINE m == Len(r.out)
           N == Len(file)
<1>1. r.out \in Seq(Text) /\ r.dead \in BOOLEAN
  BY DEF IsConverted, HexMain
<1>2. m \in Nat /\ N \in Nat
  BY <1>1
<1>3. /\ m <= N /\ \A k \in 1..m : r.out[k] = Hex!Convert(file[k])
      /\ IF r.dead THEN m < N /\ Hex!Convert(file[m + 1]) = << >> ELSE m = N
  BY DEF IsConverted
<1> HIDE DEF m
<1>4. ~r.dead
  <2>1. ASSUME m < N PROVE Hex!Convert(file[m + 1]) # << >>
    <3>1. m + 1 \in 1..N
      BY <1>2, <2>1
    <3> QED
      BY <3>1
  <2> QED
    BY <1>1, <1>3, <2>1
<1> QED
  BY <1>1, <1>3, <1>4 DEF m

LEMMA HexRight ==
  ASSUME HexNumbers, NEW lines \in Seq(Text)
  PROVE  Hex!HexvertInverts(lines)
<1> DEFINE result == Hex!Main(<< >>, lines)
           there  == Hex!Main(<< >>, result.out)
           back   == Hex!Main(<< >>, there.out)
           good   == {k \in DOMAIN lines : \A j \in 1..k : Hex!IsNumber(lines[j])}
           m      == Len(result.out)
           N      == Len(lines)
<1>1. IsConverted(lines, result)
  BY ConvertedLines
<1>2. result.out \in Seq(Text) /\ result.dead \in BOOLEAN
  BY <1>1 DEF IsConverted, HexMain
<1>3. m \in Nat /\ N \in Nat /\ DOMAIN lines = 1..N /\ \A k \in 1..N : lines[k] \in Text
  BY <1>2
<1>4. /\ m <= N /\ \A k \in 1..m : result.out[k] = Hex!Convert(lines[k])
           /\ Hex!Convert(lines[k]) # << >>
      /\ IF result.dead THEN m < N /\ Hex!Convert(lines[m + 1]) = << >> ELSE m = N
  BY <1>1 DEF IsConverted
<1>a. \A k \in 1..m : k \in 1..N
  <2> HIDE DEF m, N
  <2> QED
    BY <1>3, <1>4
<1>5. ASSUME NEW k \in 1..N PROVE Hex!Convert(lines[k]) # << >> <=> Hex!IsNumber(lines[k])
  BY <1>3, ConvertIs DEF Text
<1>6. good = 1..m
  <2>1. good = {k \in 1..N : \A j \in 1..k : Hex!IsNumber(lines[j])}
    BY <1>3
  <2> HIDE DEF m, N, good
  <2>2. ASSUME NEW k \in 1..m PROVE k \in good
    <3>1. \A j \in 1..k : j \in 1..m /\ j \in 1..N
      BY <1>3, <1>4
    <3> QED
      BY <1>4, <1>5, <1>a, <2>1, <3>1
  <2>3. ASSUME NEW k \in good PROVE k \in 1..m
    <3>1. k \in 1..N /\ \A j \in 1..k : Hex!IsNumber(lines[j])
      BY <2>1
    <3>2. ASSUME ~(k \in 1..m) PROVE FALSE
      <4>1. m + 1 \in 1..k /\ m + 1 \in 1..N /\ m < N
        BY <1>3, <3>1, <3>2
      <4>2. Hex!Convert(lines[m + 1]) = << >>
        <5>1. result.dead
          <6>1. ~result.dead => m = N
            BY <1>4
          <6> QED
            BY <1>3, <4>1, <6>1
        <5> QED
          BY <1>4, <5>1
      <4> QED
        BY <1>5, <3>1, <4>1, <4>2
    <3> QED
      BY <3>2
  <2> QED
    BY <2>2, <2>3
<1>7. result.dead <=> good # DOMAIN lines
  <2> HIDE DEF m, N, good
  <2>1. CASE result.dead
    <3>1. m < N /\ N \in 1..N /\ ~(N \in 1..m)
      BY <1>3, <1>4, <2>1
    <3> QED
      BY <1>3, <1>6, <2>1, <3>1
  <2>2. CASE ~result.dead
    BY <1>3, <1>4, <1>6, <2>2
  <2> QED
    BY <2>1, <2>2
<1>8. DOMAIN result.out = good
  BY <1>2, <1>6
<1> DEFINE U == result.out
<1>9. ASSUME NEW k \in 1..m
      PROVE  Hex!Convert(U[k]) # << >> /\ Hex!Convert(Hex!Convert(U[k])) = U[k]
               /\ Hex!Convert(U[k]) \in Text
  <2>1. lines[k] \in Text /\ U[k] = Hex!Convert(lines[k]) /\ Hex!Convert(lines[k]) # << >>
    BY <1>3, <1>4, <1>a
  <2>2. U[k] # << >> /\ U[k] \in Seq(Char) /\ Hex!Convert(U[k]) # << >>
          /\ Hex!Convert(Hex!Convert(U[k])) = U[k]
    BY <2>1, ConvertTwice DEF Text
  <2> QED
    BY <2>2, ConvertTwice DEF Text
<1>10. /\ ~there.dead /\ Len(there.out) = m /\ there.out \in Seq(Text)
       /\ \A k \in 1..m : there.out[k] = Hex!Convert(U[k])
  <2>1. IsConverted(U, there)
    BY <1>2, ConvertedLines
  <2> HIDE DEF U, there
  <2>2. \A k \in 1..Len(U) : Hex!Convert(U[k]) # << >>
    BY <1>9 DEF U
  <2>3. U \in Seq(Text) /\ Len(U) = m
    BY <1>2 DEF U
  <2> QED
    BY <2>1, <2>2, <2>3, ConvertedResults
<1> DEFINE V == there.out
<1>11. /\ ~back.dead /\ Len(back.out) = m /\ back.out \in Seq(Text)
       /\ \A k \in 1..m : back.out[k] = Hex!Convert(V[k])
  <2>1. IsConverted(V, back)
    BY <1>10, ConvertedLines
  <2>2. \A k \in 1..m : Hex!Convert(V[k]) # << >>
    <3> HIDE DEF U, there, result, m
    <3>1. ASSUME NEW k \in 1..m PROVE Hex!Convert(V[k]) # << >>
      <4>1. V[k] = Hex!Convert(U[k])
        BY <1>10
      <4>2. Hex!Convert(V[k]) = U[k]
        BY <1>9, <4>1
      <4>3. U[k] # << >>
        <5>1. U[k] = Hex!Convert(lines[k]) /\ Hex!Convert(lines[k]) # << >>
          BY <1>4 DEF U
        <5> QED
          BY <5>1
      <4> QED
        BY <4>2, <4>3
    <3> QED
      BY <3>1
  <2>3. V \in Seq(Text) /\ Len(V) = m
    BY <1>10
  <2> HIDE DEF V, back, m
  <2>4. \A k \in 1..Len(V) : Hex!Convert(V[k]) # << >>
    BY <2>2, <2>3
  <2> QED
    BY <2>1, <2>3, <2>4, ConvertedResults
<1>12. back.out = U
  <2>1. Len(back.out) = Len(U) /\ back.out \in Seq(Text) /\ U \in Seq(Text)
    BY <1>2, <1>11
  <2>2. \A k \in 1..m : back.out[k] = U[k]
    <3> HIDE DEF U, V, m, back
    <3> QED
      BY <1>9, <1>10, <1>11 DEF V
  <2>3. \A k \in 1..Len(U) : back.out[k] = U[k]
    BY <2>2
  <2> HIDE DEF back, U
  <2> QED
    BY <2>1, <2>3, SeqEqual
<1>13. ASSUME NEW k \in good, lines[k] \in Hex!Canonical PROVE there.out[k] = lines[k]
  <2>1. k \in 1..m
    BY <1>6
  <2>2. U[k] = Hex!Convert(lines[k])
    BY <1>4, <2>1
  <2>3. there.out[k] = Hex!Convert(U[k])
    BY <1>10, <2>1
  <2> HIDE DEF U
  <2>4. Hex!Convert(Hex!Convert(lines[k])) = lines[k]
    BY <1>13, CanonicalAre
  <2> QED
    BY <2>2, <2>3, <2>4
<1> HIDE DEF result, there, back, good
<1>14. ~there.dead /\ ~back.dead /\ back.out = result.out
  BY <1>10, <1>11, <1>12
<1>15. \A k \in good : lines[k] \in Hex!Canonical => there.out[k] = lines[k]
  BY <1>13
<1> QED
  BY <1>7, <1>8, <1>14, <1>15, Zenon DEF Hex!HexvertInverts, result, there, back, good

----------------------------------------------------------------------------
(* cvspwd.c                                                                *)

\* Twice the table is nothing, and the control characters stay.
LEMMA ShiftsTwice ==
  /\ \A c \in Code : Cvs!Shifts[c + 1] \in Code /\ Cvs!Shifts[Cvs!Shifts[c + 1] + 1] = c
  /\ \A c \in Code : Cvs!Shifts[c + 1] = Cvs!Newline <=> c = Cvs!Newline
<1>1. \A c \in Code : Cvs!Shifts[c + 1] \in Code
  BY DEF Cvs!Shifts, Code
<1>2. \A c \in Code : Cvs!Shifts[Cvs!Shifts[c + 1] + 1] = c
  BY DEF Cvs!Shifts, Code
<1>3. \A c \in Code : Cvs!Shifts[c + 1] = Cvs!Newline <=> c = Cvs!Newline
  BY DEF Cvs!Shifts, Code, Cvs!Newline
<1> QED
  BY <1>1, <1>2, <1>3

LEMMA ShiftIs ==
  ASSUME NEW s \in Seq(Code)
  PROVE  /\ Cvs!Shift(s) \in Seq(Code) /\ Len(Cvs!Shift(s)) = Len(s)
         /\ Cvs!Shift(Cvs!Shift(s)) = s
         /\ \A k \in 1..Len(s) : Cvs!Shift(s)[k] = Cvs!Shifts[s[k] + 1]
         /\ \A k \in 1..Len(s) : Cvs!Shift(s)[k] = Cvs!Newline <=> s[k] = Cvs!Newline
<1> DEFINE N == Len(s)
           t == Cvs!Shift(s)
<1>1. N \in Nat /\ DOMAIN s = 1..N /\ \A k \in 1..N : s[k] \in Code
  OBVIOUS
<1>2. t = [k \in 1..N |-> Cvs!Shifts[s[k] + 1]]
  BY <1>1 DEF Cvs!Shift
<1>3. \A k \in 1..N : t[k] \in Code /\ Cvs!Shifts[t[k] + 1] = s[k]
  BY <1>1, <1>2, ShiftsTwice
<1>4. DOMAIN t = 1..N
  BY <1>2
<1> HIDE DEF t
<1>5. t = [k \in 1..N |-> t[k]]
  BY <1>2
<1>6. t \in Seq(Code) /\ Len(t) = N
  <2>1. t \in [1..N -> Code]
    BY <1>3, <1>5
  <2> HIDE DEF N
  <2> QED
    BY <1>1, <2>1, LenProperties, SeqDef
<1>7. Cvs!Shift(t) = s
  <2>1. Cvs!Shift(t) = [k \in 1..N |-> Cvs!Shifts[t[k] + 1]]
    BY <1>4 DEF Cvs!Shift
  <2>2. Cvs!Shift(t) = [k \in 1..N |-> s[k]]
    BY <1>3, <2>1
  <2>3. s = [k \in 1..N |-> s[k]]
    BY <1>1
  <2> QED
    BY <2>2, <2>3
<1>8. \A k \in 1..N : t[k] = Cvs!Shifts[s[k] + 1]
  BY <1>2
<1>9. \A k \in 1..N : t[k] = Cvs!Newline <=> s[k] = Cvs!Newline
  BY <1>1, <1>8, ShiftsTwice
<1> QED
  BY <1>6, <1>7, <1>8, <1>9 DEF t

\* The places in two texts put together.
LEMMA PlacesOfTwo ==
  ASSUME NEW T, NEW a \in Seq(T), NEW b \in Seq(T)
  PROVE  /\ a \o b \in Seq(T) /\ Len(a \o b) = Len(a) + Len(b) /\ Len(a) \in Nat /\ Len(b) \in Nat
         /\ \A k \in 1..Len(a) : (a \o b)[k] = a[k]
         /\ \A k \in 1..Len(b) : (a \o b)[Len(a) + k] = b[k]
<1> DEFINE M == Len(a)
           N == Len(b)
<1>1. M \in Nat /\ N \in Nat
  OBVIOUS
<1>2. /\ a \o b \in Seq(T) /\ Len(a \o b) = M + N
      /\ \A i \in 1..(M + N) : (a \o b)[i] = IF i <= M THEN a[i] ELSE b[i - M]
  BY ConcatProperties
<1> DEFINE c == a \o b
<1> HIDE DEF M, N, c
<1>3. \A k \in 1..M : k \in 1..(M + N) /\ k <= M
  BY <1>1
<1>4. \A k \in 1..N : M + k \in 1..(M + N) /\ ~(M + k <= M) /\ (M + k) - M = k
  BY <1>1
<1>5. \A k \in 1..M : c[k] = a[k]
  BY <1>2, <1>3 DEF c
<1>6. \A k \in 1..N : c[M + k] = b[k]
  BY <1>2, <1>4 DEF c
<1> QED
  BY <1>1, <1>2, <1>5, <1>6 DEF M, N, c

\* What the two of them do together: the line's end stays.
LEMMA ShiftLine ==
  ASSUME NEW s \in Seq(Code)
  PROVE  Cvs!Shift(Cvs!Shift(s) \o <<Cvs!Newline>>) = s \o <<Cvs!Newline>>
<1> DEFINE N == Len(s)
           e == <<Cvs!Newline>>
           a == Cvs!Shift(s)
           t == a \o e
           r == s \o e
<1>1. e \in Seq(Code) /\ Len(e) = 1 /\ e[1] = Cvs!Newline /\ N \in Nat
  BY DEF Code, Cvs!Newline
<1>2. /\ a \in Seq(Code) /\ Len(a) = N /\ Cvs!Shift(a) = s
      /\ \A k \in 1..N : Cvs!Shift(a)[k] = Cvs!Shifts[a[k] + 1]
  <2>1. a \in Seq(Code) /\ Len(a) = N /\ Cvs!Shift(a) = s
    BY ShiftIs
  <2> HIDE DEF a
  <2> QED
    BY <2>1, ShiftIs
<1> HIDE DEF a, e
<1>3. /\ t \in Seq(Code) /\ Len(t) = N + 1
      /\ \A k \in 1..N : t[k] = a[k]
      /\ t[N + 1] = Cvs!Newline
  <2>1. /\ t \in Seq(Code) /\ Len(t) = Len(a) + Len(e)
        /\ \A k \in 1..Len(a) : t[k] = a[k]
        /\ \A k \in 1..Len(e) : t[Len(a) + k] = e[k]
    BY <1>1, <1>2, PlacesOfTwo
  <2> QED
    BY <1>1, <1>2, <2>1
<1>4. /\ r \in Seq(Code) /\ Len(r) = N + 1
      /\ \A k \in 1..N : r[k] = s[k]
      /\ r[N + 1] = Cvs!Newline
  <2>1. /\ r \in Seq(Code) /\ Len(r) = Len(s) + Len(e)
        /\ \A k \in 1..Len(s) : r[k] = s[k]
        /\ \A k \in 1..Len(e) : r[Len(s) + k] = e[k]
    BY <1>1, PlacesOfTwo
  <2> QED
    BY <1>1, <2>1
<1> HIDE DEF t, r, N
<1>5. /\ Cvs!Shift(t) \in Seq(Code) /\ Len(Cvs!Shift(t)) = N + 1
      /\ \A k \in 1..(N + 1) : Cvs!Shift(t)[k] = Cvs!Shifts[t[k] + 1]
  BY <1>3, ShiftIs
<1>6. ASSUME NEW k \in 1..(N + 1) PROVE Cvs!Shift(t)[k] = r[k]
  <2>1. CASE k \in 1..N
    BY <1>2, <1>3, <1>4, <1>5, <2>1
  <2>2. CASE k = N + 1
    <3>1. Cvs!Shifts[Cvs!Newline + 1] = Cvs!Newline
      BY DEF Cvs!Shifts, Cvs!Newline
    <3> QED
      BY <1>3, <1>4, <1>5, <2>2, <3>1
  <2>3. k \in 1..N \/ k = N + 1
    BY <1>1
  <2> QED
    BY <2>1, <2>2, <2>3
<1>7. Cvs!Shift(t) = r
  BY <1>4, <1>5, <1>6, SeqEqual
<1> QED
  BY <1>7 DEF t, r, a, e

\* What fgets returns, and that nothing more comes to the last of it.
Piece  == Seq(Code)
Whole(pieces) == pieces # << >> => Cvs!IsEnded(pieces[Len(pieces)])

\* Put makes pieces of pieces.
LEMMA PutTypes ==
  ASSUME NEW pieces \in Seq(Piece), NEW ch \in Code
  PROVE  Cvs!Put(pieces, ch) \in Seq(Piece)
<1> DEFINE last == Len(pieces)
           new == <<ch>>
           more == Append(pieces[last], ch)
           P == Piece
<1>1. last \in Nat /\ pieces \in Seq(P)
  OBVIOUS
<1>2. new \in P
  BY DEF Piece
<1>3. CASE last = 0 \/ Cvs!IsEnded(pieces[last])
  <2>1. Cvs!Put(pieces, ch) = Append(pieces, new)
    BY <1>3, Zenon DEF Cvs!Put
  <2> HIDE DEF P, new
  <2> QED
    BY <1>1, <1>2, <2>1, AppendProperties DEF P
<1>4. CASE ~(last = 0 \/ Cvs!IsEnded(pieces[last]))
  <2>1. Cvs!Put(pieces, ch) = [pieces EXCEPT ![last] = Append(@, ch)]
    BY <1>4, Zenon DEF Cvs!Put
  <2>2. last \in 1..Len(pieces) /\ last \in DOMAIN pieces
    BY <1>4
  <2>3. more \in P
    <3>1. pieces[last] \in Seq(Code)
      BY <2>2 DEF Piece
    <3> HIDE DEF last
    <3> QED
      BY <3>1, AppendProperties DEF Piece
  <2>4. [pieces EXCEPT ![last] = Append(@, ch)] = [pieces EXCEPT ![last] = more]
    BY <2>2
  <2> HIDE DEF P, more, last
  <2>5. [pieces EXCEPT ![last] = more] \in Seq(P)
    BY <1>1, <2>2, <2>3, ExceptSeq
  <2> QED
    BY <2>1, <2>4, <2>5 DEF P
<1> QED
  BY <1>3, <1>4

\* Pieces, as a fold.
PutStep   == [x \in Seq(Piece) \X Code |-> Cvs!Put(x[1], x[2])]
Cut(text) == After(text, Seq(Piece), << >>, PutStep)

\* The fold's step is Put.
LEMMA PutStepIs ==
  /\ IsStep(Seq(Piece), Code, << >>, PutStep)
  /\ \A p \in Seq(Piece), c \in Code : PutStep[<<p, c>>] = Cvs!Put(p, c)
<1> DEFINE S == Seq(Piece)
<1>1. \A p \in S, c \in Code : Cvs!Put(p, c) \in S
  BY PutTypes
<1>2. << >> \in S
  OBVIOUS
<1> HIDE DEF S
<1>3. PutStep \in [S \X Code -> S]
  BY <1>1 DEF PutStep, S
<1>4. ASSUME NEW p \in S, NEW c \in Code PROVE PutStep[<<p, c>>] = Cvs!Put(p, c)
  BY DEF PutStep, S
<1> QED
  BY <1>2, <1>3, <1>4 DEF IsStep, S

\* The pieces of a text, and of one with a character more.
LEMMA CutIs ==
  /\ Cut(<< >>) = << >>
  /\ \A text \in Seq(Code) : Cut(text) \in Seq(Piece)
  /\ \A text \in Seq(Code), c \in Code : Cut(Append(text, c)) = Cvs!Put(Cut(text), c)
<1> DEFINE S == Seq(Piece)
           End(s) == After(s, S, << >>, PutStep)
<1>1. IsStep(S, Code, << >>, PutStep)
  BY PutStepIs
<1>2. \A p \in S, c \in Code : PutStep[<<p, c>>] = Cvs!Put(p, c)
  BY PutStepIs
<1> HIDE DEF S
<1>3. /\ \A s \in Seq(Code) : End(s) \in S
      /\ End(<< >>) = << >>
      /\ \A s \in Seq(Code), c \in Code : End(Append(s, c)) = PutStep[<<End(s), c>>]
  BY <1>1, AfterIs
<1>4. \A s : Cut(s) = End(s)
  BY DEF Cut, S
<1> HIDE DEF End
<1>5. ASSUME NEW s \in Seq(Code), NEW c \in Code
      PROVE  Cut(Append(s, c)) = Cvs!Put(Cut(s), c)
  BY <1>2, <1>3, <1>4
<1> QED
  BY <1>3, <1>4, <1>5 DEF S

\* Pieces is that fold.
LEMMA PiecesIs ==
  ASSUME NEW text \in Seq(Code)
  PROVE  Cvs!Pieces(text) = Cut(text)
<1> DEFINE N == Len(text)
           S == Seq(Piece)
           Is(r) == r = [n \in 0..N |-> IF n = 0 THEN << >> ELSE Cvs!Put(r[n - 1], text[n])]
           pieces == CHOOSE r : Is(r)
<1>1. N \in Nat /\ \A n \in 1..N : text[n] \in Code
  OBVIOUS
<1>a. /\ 0 \in 0..N /\ N \in 0..N /\ \A n \in 0..N : n = 0 \/ n \in 1..N
      /\ \A n \in 1..N : n # 0 /\ n \in 0..N /\ n - 1 \in 0..N
  <2> HIDE DEF N
  <2> QED
    BY <1>1
<1>2. PICK f : IsFold(f, text, S, << >>, PutStep)
  <2>1. IsStep(S, Code, << >>, PutStep)
    BY PutStepIs
  <2> HIDE DEF S
  <2> QED
    BY <2>1, FoldExists
<1>3. f \in [0..N -> S] /\ f[0] = << >> /\ \A n \in 1..N : f[n] = PutStep[<<f[n - 1], text[n]>>]
  <2> HIDE DEF S
  <2> QED
    BY <1>2 DEF IsFold
<1>4. \A p \in S, c \in Code : PutStep[<<p, c>>] = Cvs!Put(p, c)
  BY PutStepIs
<1>b. << >> \in S
  OBVIOUS
<1> HIDE DEF S
<1>5. Is(f)
  <2> HIDE DEF N
  <2>1. \A n \in 1..N : f[n] = Cvs!Put(f[n - 1], text[n])
    BY <1>1, <1>a, <1>3, <1>4
  <2>2. \A n \in 0..N : f[n] = IF n = 0 THEN << >> ELSE Cvs!Put(f[n - 1], text[n])
    BY <1>a, <1>3, <2>1
  <2>3. f = [n \in 0..N |-> f[n]]
    BY <1>3
  <2> QED
    BY <2>2, <2>3
<1>6. Is(pieces)
  <2> HIDE DEF Is
  <2> QED
    BY <1>5
<1>7. Cvs!Pieces(text) = pieces[N]
  BY DEF Cvs!Pieces
<1> HIDE DEF pieces
<1>8. /\ pieces = [n \in 0..N |-> pieces[n]] /\ pieces[0] = << >>
      /\ \A n \in 1..N : pieces[n] = Cvs!Put(pieces[n - 1], text[n])
  <2> HIDE DEF N
  <2>1. pieces = [n \in 0..N |-> IF n = 0 THEN << >> ELSE Cvs!Put(pieces[n - 1], text[n])]
    BY <1>6
  <2> HIDE <1>6
  <2>2. \A n \in 0..N : pieces[n] = IF n = 0 THEN << >> ELSE Cvs!Put(pieces[n - 1], text[n])
    BY <2>1
  <2>3. pieces = [n \in 0..N |-> pieces[n]]
    BY <2>1, <2>2
  <2> QED
    BY <1>a, <2>2, <2>3
<1> DEFINE P == {n \in 0..N : pieces[n] \in S}
<1>9. 0 \in P /\ \A n \in 1..N : n - 1 \in P => n \in P
  <2> HIDE DEF N
  <2>1. 0 \in P
    BY <1>a, <1>b, <1>8
  <2>2. ASSUME NEW n \in 1..N, n - 1 \in P PROVE n \in P
    BY <1>1, <1>a, <1>8, <2>2, PutTypes DEF S
  <2> QED
    BY <2>1, <2>2
<1>10. \A n \in 0..N : n \in P
  <2> HIDE DEF P
  <2> QED
    BY <1>1, <1>9, Induction
<1>11. pieces \in [0..N -> S]
  BY <1>8, <1>10
<1>12. \A n \in 1..N : pieces[n] = PutStep[<<pieces[n - 1], text[n]>>]
  <2> HIDE DEF N
  <2> QED
    BY <1>1, <1>a, <1>4, <1>8, <1>11
<1>13. IsFold(pieces, text, S, << >>, PutStep)
  BY <1>8, <1>11, <1>12 DEF IsFold
<1>14. pieces[N] = Cut(text)
  <2>1. IsStep(S, Code, << >>, PutStep)
    BY PutStepIs DEF S
  <2>2. pieces[N] = After(text, S, << >>, PutStep)
    BY <1>13, <2>1, AfterIs
  <2> QED
    BY <2>2 DEF Cut, S
<1> QED
  BY <1>7, <1>14

\* Pieces before others do not matter, once the last of them is ended.
LEMMA PutBehind ==
  ASSUME NEW p \in Seq(Piece), NEW q \in Seq(Piece), NEW ch \in Code, Whole(p)
  PROVE  Cvs!Put(p \o q, ch) = p \o Cvs!Put(q, ch)
<1> DEFINE P == Piece
           M == Len(p)
           N == Len(q)
           new == <<ch>>
           r == p \o q
<1>1. /\ p \in Seq(P) /\ q \in Seq(P) /\ r \in Seq(P) /\ new \in P /\ M \in Nat /\ N \in Nat
      /\ Len(r) = M + N
      /\ \A k \in 1..M : r[k] = p[k]
      /\ \A k \in 1..N : r[M + k] = q[k]
  <2>1. new \in P
    BY DEF Piece
  <2> HIDE DEF new
  <2>2. p \in Seq(P) /\ q \in Seq(P)
    OBVIOUS
  <2> HIDE DEF P
  <2> QED
    BY <2>1, <2>2, PlacesOfTwo
<1>2. CASE q = << >>
  <2>1. r = p /\ Len(q) = 0
    BY <1>2
  <2>2. Cvs!Put(q, ch) = Append(q, new)
    BY <2>1, Zenon DEF Cvs!Put
  <2>3. Cvs!Put(p, ch) = Append(p, new)
    <3>1. p = << >> => Len(p) = 0
      OBVIOUS
    <3>2. Len(p) = 0 \/ Cvs!IsEnded(p[Len(p)])
      BY <3>1 DEF Whole
    <3> QED
      BY <3>2, Zenon DEF Cvs!Put
  <2> HIDE DEF P, new
  <2>4. Append(q, new) = <<new>> /\ Append(p, new) = p \o <<new>>
    BY <1>1, <1>2
  <2> QED
    BY <2>1, <2>2, <2>3, <2>4 DEF r
<1>3. CASE q # << >>
  <2>1. N # 0 /\ M + N # 0 /\ r[M + N] = q[N] /\ N \in 1..N /\ M + N \in 1..(M + N)
    <3>1. N # 0
      BY <1>3
    <3> HIDE DEF M, N, r, P
    <3>2. N \in 1..N
      BY <1>1, <3>1
    <3> QED
      BY <1>1, <3>1, <3>2
  <2>2. CASE Cvs!IsEnded(q[N])
    <3>1. Cvs!Put(q, ch) = Append(q, new)
      BY <2>2, Zenon DEF Cvs!Put
    <3>2. Cvs!Put(r, ch) = Append(r, new)
      <4>1. Cvs!IsEnded(r[Len(r)])
        <5> HIDE DEF r, M, N
        <5> QED
          BY <1>1, <2>1, <2>2, Zenon
      <4> QED
        BY <4>1, Zenon DEF Cvs!Put
    <3> HIDE DEF P, new, r
    <3>3. Append(r, new) = r \o <<new>> /\ Append(q, new) = q \o <<new>> /\ <<new>> \in Seq(P)
      BY <1>1
    <3>4. (p \o q) \o <<new>> = p \o (q \o <<new>>)
      BY <1>1, <3>3, ConcatAssociative
    <3> QED
      BY <3>1, <3>2, <3>3, <3>4 DEF r
  <2>3. CASE ~Cvs!IsEnded(q[N])
    <3> DEFINE more == Append(q[N], ch)
               a == [q EXCEPT ![N] = more]
               b == [r EXCEPT ![M + N] = more]
    <3>1. Cvs!Put(q, ch) = a
      <4>1. Cvs!Put(q, ch) = [q EXCEPT ![N] = Append(@, ch)]
        BY <2>1, <2>3, Zenon DEF Cvs!Put
      <4> QED
        BY <4>1
    <3>2. Cvs!Put(r, ch) = b
      <4> DEFINE K == Len(r)
      <4>1. K = M + N
        BY <1>1
      <4>2. K # 0 /\ ~Cvs!IsEnded(r[K]) /\ r[K] = q[N]
        <5> HIDE DEF K, r, M, N
        <5> QED
          BY <2>1, <2>3, <4>1
      <4>3. Cvs!Put(r, ch) = [r EXCEPT ![K] = Append(@, ch)]
        BY <4>2, Zenon DEF Cvs!Put
      <4> HIDE DEF K, r, M, N
      <4>4. [r EXCEPT ![K] = Append(@, ch)] = [r EXCEPT ![K] = Append(r[K], ch)]
        OBVIOUS
      <4> QED
        BY <4>1, <4>2, <4>3, <4>4 DEF N
    <3>3. more \in P
      <4>1. q[N] \in Piece
        BY <1>1, <2>1
      <4> HIDE DEF N
      <4> QED
        BY <4>1, AppendProperties DEF Piece
    <3> HIDE DEF more, r, P
    <3>4. /\ a \in Seq(P) /\ Len(a) = N
          /\ \A j \in 1..N : a[j] = IF j = N THEN more ELSE q[j]
      <4>1. N \in 1..Len(q)
        BY <2>1
      <4> QED
        BY <1>1, <3>3, <4>1, ExceptSeq
    <3>5. /\ b \in Seq(P) /\ Len(b) = M + N
          /\ \A j \in 1..(M + N) : b[j] = IF j = M + N THEN more ELSE r[j]
      <4>1. M + N \in 1..Len(r)
        BY <1>1, <2>1
      <4> QED
        BY <1>1, <3>3, <4>1, ExceptSeq
    <3> DEFINE c == p \o a
    <3>p. p \in Seq(P) /\ Len(p) = M
      BY <1>1
    <3> HIDE DEF a, b, P
    <3>6. /\ c \in Seq(P) /\ Len(c) = M + N
          /\ \A k \in 1..M : c[k] = p[k]
          /\ \A k \in 1..N : c[M + k] = a[k]
      <4>1. /\ c \in Seq(P) /\ Len(c) = Len(p) + Len(a)
            /\ \A k \in 1..Len(p) : c[k] = p[k]
            /\ \A k \in 1..Len(a) : c[Len(p) + k] = a[k]
        <5>1. a \in Seq(P)
          BY <3>4
        <5> HIDE <3>4
        <5> HIDE DEF M, N, new, c
        <5>2. c = p \o a
          BY DEF c
        <5> QED
          <6>1. p \in Seq(Piece) /\ a \in Seq(Piece)
            BY <5>1 DEF P
          <6> HIDE <3>p, <5>1
          <6>2. /\ p \o a \in Seq(Piece) /\ Len(p \o a) = Len(p) + Len(a)
                /\ \A k \in 1..Len(p) : (p \o a)[k] = p[k]
                /\ \A k \in 1..Len(a) : (p \o a)[Len(p) + k] = a[k]
            BY <6>1, PlacesOfTwo
          <6> QED
            BY <6>2, <5>2 DEF P
      <4> QED
        BY <3>p, <3>4, <4>1
    <3> HIDE DEF c, M, N
    <3>7. ASSUME NEW j \in 1..(M + N) PROVE b[j] = c[j]
      <4>1. CASE j \in 1..M
        <5>1. j # M + N
          BY <1>1, <2>1, <4>1
        <5> QED
          BY <1>1, <3>5, <3>6, <4>1, <5>1
      <4>2. CASE ~(j \in 1..M)
        <5> DEFINE k == j - M
        <5>1. k \in 1..N /\ j = M + k /\ (j = M + N <=> k = N)
          BY <1>1, <4>2
        <5> HIDE DEF k
        <5>2. r[j] = q[k] /\ c[j] = a[k]
          BY <1>1, <3>6, <5>1
        <5> QED
          BY <3>4, <3>5, <5>1, <5>2
      <4> QED
        BY <4>1, <4>2
    <3>8. b = c
      BY <3>5, <3>6, <3>7, SeqEqual
    <3> QED
      BY <3>1, <3>2, <3>8 DEF c, r
  <2> QED
    BY <2>2, <2>3
<1> QED
  BY <1>2, <1>3

\* A text behind one whose last piece is ended is cut as if it were alone.
LEMMA CutBehind ==
  ASSUME NEW t \in Seq(Code), Whole(Cut(t)), NEW u \in Seq(Code)
  PROVE  t \o u \in Seq(Code) /\ Cut(t \o u) = Cut(t) \o Cut(u)
<1> DEFINE P == {s \in Seq(Code) : Cut(t \o s) = Cut(t) \o Cut(s)}
<1>0. Cut(t) \in Seq(Piece) /\ Cut(<< >>) = << >> /\ t \o << >> = t
  BY CutIs
<1>1. << >> \in P
  <2>1. Cut(t) \o << >> = Cut(t)
    BY <1>0
  <2>2. << >> \in Seq(Code)
    OBVIOUS
  <2> QED
    BY <1>0, <2>1, <2>2
<1>2. ASSUME NEW s \in Seq(Code), NEW c \in Code, s \in P PROVE Append(s, c) \in P
  <2>1. t \o s \in Seq(Code) /\ Append(s, c) \in Seq(Code) /\ Append(t \o s, c) = t \o Append(s, c)
    <3>1. t \o s \in Seq(Code) /\ <<c>> \in Seq(Code)
      BY ConcatProperties
    <3>2. Append(s, c) = s \o <<c>> /\ Append(t \o s, c) = (t \o s) \o <<c>>
      BY <3>1
    <3>3. (t \o s) \o <<c>> = t \o (s \o <<c>>)
      BY <3>1, ConcatAssociative
    <3> QED
      BY <3>1, <3>2, <3>3
  <2>2. Cut(Append(t \o s, c)) = Cvs!Put(Cut(t \o s), c) /\ Cut(Append(s, c)) = Cvs!Put(Cut(s), c)
    BY <2>1, CutIs
  <2>3. Cut(t \o s) = Cut(t) \o Cut(s)
    BY <1>2
  <2>4. Cut(s) \in Seq(Piece)
    BY CutIs
  <2>5. Cvs!Put(Cut(t) \o Cut(s), c) = Cut(t) \o Cvs!Put(Cut(s), c)
    BY <1>0, <2>4, PutBehind
  <2> QED
    BY <2>1, <2>2, <2>3, <2>5
<1>3. \A s \in Seq(Code) : s \in P
  <2> HIDE DEF P
  <2> QED
    BY <1>1, <1>2, SeqInduction
<1> QED
  BY <1>3, ConcatProperties

\* A piece that fgets goes on with.
IsOpen(s) == Len(s) + 1 < BufSize /\ \A k \in 1..Len(s) : s[k] # Cvs!Newline

\* The only element of a sequence, replaced.
LEMMA SingleExcept ==
  ASSUME NEW a, NEW b
  PROVE  [<<a>> EXCEPT ![1] = b] = <<b>>
<1> DEFINE x == <<a>>
           y == [x EXCEPT ![1] = b]
           z == <<b>>
<1>1. x \in Seq({a, b}) /\ Len(x) = 1 /\ z \in Seq({a, b}) /\ Len(z) = 1 /\ z[1] = b
  OBVIOUS
<1> HIDE DEF x, z
<1>2. y \in Seq({a, b}) /\ Len(y) = Len(x) /\ y[1] = b
  <2>1. 1 \in 1..Len(x) /\ b \in {a, b}
    BY <1>1
  <2>2. y \in Seq({a, b}) /\ Len(y) = Len(x)
        /\ \A j \in 1..Len(x) : y[j] = IF j = 1 THEN b ELSE x[j]
    BY <1>1, <2>1, ExceptSeq
  <2> HIDE DEF y
  <2> QED
    BY <2>1, <2>2
<1> HIDE DEF y
<1>3. \A j \in 1..Len(y) : y[j] = z[j]
  <2>1. \A j \in 1..Len(y) : j = 1
    BY <1>1, <1>2
  <2> QED
    BY <1>1, <1>2, <2>1
<1>4. y = z
  BY <1>1, <1>2, <1>3, SeqEqual
<1> QED
  BY <1>4 DEF x, y, z

\* As long as the piece is open, a character goes on with it.
LEMMA PutOn ==
  ASSUME CvsNumbers, NEW s \in Seq(Code), IsOpen(s), NEW ch \in Code,
         NEW p, p = (IF s = << >> THEN << >> ELSE <<s>>)
  PROVE  Cvs!Put(p, ch) = <<Append(s, ch)>>
<1>1. CASE s = << >>
  <2>1. p = << >> /\ Len(p) = 0
    BY <1>1
  <2>2. Cvs!Put(p, ch) = Append(p, <<ch>>)
    BY <2>1, Zenon DEF Cvs!Put
  <2> QED
    BY <1>1, <2>1, <2>2
<1>2. CASE s # << >>
  <2>1. p = <<s>> /\ Len(p) = 1 /\ p[1] = s
    BY <1>2
  <2> DEFINE N == Len(s)
  <2>2. ~Cvs!IsEnded(s)
    <3>1. N \in Nat /\ N > 0 /\ N \in 1..N
      BY <1>2
    <3>2. s[N] # Cvs!Newline /\ N + 1 < BufSize
      BY <3>1 DEF IsOpen
    <3> HIDE DEF N
    <3>3. N # BufSize - 1
      BY <3>1, <3>2 DEF CvsNumbers
    <3> QED
      BY <3>2, <3>3 DEF Cvs!IsEnded, N
  <2>3. Cvs!Put(p, ch) = [p EXCEPT ![1] = Append(@, ch)]
    <3>1. ~(Len(p) = 0 \/ Cvs!IsEnded(p[Len(p)]))
      BY <2>1, <2>2
    <3> HIDE DEF N
    <3>2. Cvs!Put(p, ch) = [p EXCEPT ![Len(p)] = Append(@, ch)]
      BY <3>1, Zenon DEF Cvs!Put
    <3> QED
      BY <2>1, <3>2, Zenon
  <2> DEFINE more == Append(s, ch)
  <2>4. [p EXCEPT ![1] = Append(@, ch)] = [p EXCEPT ![1] = more]
    BY <2>1
  <2> HIDE DEF more
  <2>5. [p EXCEPT ![1] = more] = <<more>>
    <3>1. p = <<s>>
      BY <2>1
    <3>2. [<<s>> EXCEPT ![1] = more] = <<more>>
      BY SingleExcept
    <3> QED
      BY <3>1, <3>2, Zenon
  <2> QED
    BY <2>3, <2>4, <2>5 DEF more
<1> QED
  BY <1>1, <1>2

\* Such a line, alone, is one piece, and that is ended.
LEMMA CutLine ==
  ASSUME CvsNumbers, NEW line, IsLine(line)
  PROVE  Cut(line) = <<line>> /\ Whole(<<line>>)
<1> DEFINE one(s) == IF s = << >> THEN << >> ELSE <<s>>
           P == {s \in Seq(Code) : IsOpen(s) => Cut(s) = one(s)}
<1>1. << >> \in P
  <2>1. << >> \in Seq(Code) /\ Cut(<< >>) = << >>
    BY CutIs
  <2> QED
    BY <2>1
<1>2. ASSUME NEW s \in Seq(Code), NEW ch \in Code, IsOpen(s), Cut(s) = one(s)
      PROVE  Cut(Append(s, ch)) = <<Append(s, ch)>>
  <2>1. Cut(Append(s, ch)) = Cvs!Put(Cut(s), ch)
    BY CutIs
  <2> QED
    BY <1>2, <2>1, PutOn
<1>3. ASSUME NEW s \in Seq(Code), NEW ch \in Code, s \in P PROVE Append(s, ch) \in P
  <2> DEFINE t == Append(s, ch)
             N == Len(s)
  <2>1. t \in Seq(Code) /\ Len(t) = N + 1 /\ N \in Nat /\ \A k \in 1..N : t[k] = s[k]
    OBVIOUS
  <2>2. t # << >>
    <3> HIDE DEF t, N
    <3>1. t = << >> => Len(t) = 0
      OBVIOUS
    <3> QED
      BY <2>1, <3>1
  <2>3. ASSUME IsOpen(t) PROVE IsOpen(s)
    <3> HIDE DEF t, N
    <3>1. (N + 1) + 1 < BufSize /\ \A k \in 1..(N + 1) : t[k] # Cvs!Newline
      BY <2>1, <2>3 DEF IsOpen
    <3>2. N + 1 < BufSize /\ \A k \in 1..N : s[k] # Cvs!Newline
      BY <2>1, <3>1 DEF CvsNumbers
    <3> QED
      BY <3>2 DEF IsOpen, N
  <2>4. ASSUME IsOpen(t) PROVE Cut(t) = <<t>>
    BY <1>2, <1>3, <2>3, <2>4
  <2> HIDE DEF t
  <2> QED
    BY <2>1, <2>2, <2>4 DEF t
<1>4. \A s \in Seq(Code) : s \in P
  <2> HIDE DEF P
  <2> QED
    BY <1>1, <1>3, SeqInduction
<1>5. PICK s \in Seq(Code), ch \in Code : line = Append(s, ch) /\ IsOpen(s)
  <2> DEFINE N == Len(line)
             s == SubSeq(line, 1, N - 1)
  <2>1. line \in Seq(Code) /\ N > 0 /\ N < BufSize /\ N \in Nat
        /\ \A k \in 1..N : line[k] = Cvs!Newline <=> k = N
    BY DEF IsLine
  <2>2. N \in 1..N /\ N - 1 \in Int /\ 1 \in Int /\ line[N] \in Code
        /\ \A k \in 1..(N - 1) : line[k] \in Code /\ line[k] # Cvs!Newline
    <3>1. \A k \in 1..(N - 1) : k \in 1..N /\ k # N
      BY <2>1
    <3>2. N \in 1..N
      BY <2>1
    <3> QED
      BY <2>1, <3>1, <3>2
  <2>3. /\ s \in Seq(Code) /\ Len(s) = (IF 1 <= N - 1 THEN (N - 1) - 1 + 1 ELSE 0)
        /\ \A i \in 1..((N - 1) - 1 + 1) : s[i] = line[1 + i - 1]
    <3> HIDE DEF N
    <3> QED
      BY <2>1, <2>2, SubSeqProperties
  <2> HIDE DEF s, N
  <2>4. Len(s) = N - 1 /\ \A i \in 1..(N - 1) : s[i] = line[i]
    <3>1. Len(s) = N - 1
      BY <2>1, <2>3
    <3>2. ASSUME NEW i \in 1..(N - 1) PROVE s[i] = line[i]
      <4>1. i \in 1..((N - 1) - 1 + 1) /\ 1 + i - 1 = i
        BY <2>1
      <4> QED
        BY <2>3, <4>1
    <3> QED
      BY <3>1, <3>2
  <2>5. IsOpen(s)
    <3>1. Len(s) + 1 < BufSize
      BY <2>1, <2>4
    <3> QED
      BY <2>2, <2>4, <3>1 DEF IsOpen
  <2> DEFINE t == Append(s, line[N])
  <2>6. t \in Seq(Code) /\ Len(t) = Len(line) /\ \A k \in 1..Len(t) : t[k] = line[k]
    <3>1. /\ t \in Seq(Code) /\ Len(t) = Len(s) + 1 /\ t[Len(s) + 1] = line[N]
          /\ \A k \in 1..Len(s) : t[k] = s[k]
      BY <2>2, <2>3, AppendProperties
    <3> HIDE DEF t
    <3>2. Len(t) = N /\ \A k \in 1..N : k \in 1..(N - 1) \/ k = N
      BY <2>1, <2>4, <3>1
    <3>3. t[N] = line[N]
      <4>1. Len(s) + 1 = N
        BY <2>1, <2>4
      <4> QED
        BY <3>1, <4>1
    <3>4. \A k \in 1..N : t[k] = line[k]
      BY <2>4, <3>1, <3>2, <3>3
    <3> QED
      BY <3>1, <3>2, <3>4 DEF N
  <2>7. t = line
    <3> HIDE DEF t
    <3> QED
      BY <2>1, <2>6, SeqEqual
  <2> QED
    BY <2>2, <2>3, <2>5, <2>7
<1>6. Cut(line) = <<line>>
  BY <1>2, <1>4, <1>5
<1>7. Whole(<<line>>)
  <2>1. Len(<<line>>) = 1 /\ <<line>>[1] = line
    OBVIOUS
  <2>2. line[Len(line)] = Cvs!Newline
    <3>1. Len(line) \in 1..Len(line)
      BY DEF IsLine
    <3> QED
      BY <3>1 DEF IsLine
  <2> QED
    BY <2>1, <2>2 DEF Whole, Cvs!IsEnded
<1> QED
  BY <1>6, <1>7

\* What is printed for a line.
Report == {Cvs!Fields(line) : line \in Seq(Code)}

\* A line gives one report at most.
LEMMA OfLineTypes == \A line \in Seq(Code) : Cvs!OfLine(line) \in Seq(Report)
<1> TAKE line \in Seq(Code)
<1> DEFINE f == Cvs!Fields(line)
<1>1. f \in Report
  BY DEF Report
<1>2. Cvs!OfLine(line) = <<f>> \/ Cvs!OfLine(line) = << >>
  BY Zenon DEF Cvs!OfLine
<1> HIDE DEF f
<1> DEFINE Reports == Report
<1>3. f \in Reports
  BY <1>1
<1> HIDE DEF Reports
<1>4. <<f>> \in Seq(Reports) /\ << >> \in Seq(Reports)
  BY <1>3
<1> QED
  BY <1>2, <1>4 DEF Reports

\* A function on each of the elements.
Mapped(f, s) == [k \in DOMAIN s |-> f[s[k]]]

\* It is a sequence again, and grows as the other does.
LEMMA MappedIs ==
  ASSUME NEW T, NEW U, NEW f \in [T -> U]
  PROVE  /\ Mapped(f, << >>) = << >>
         /\ \A s \in Seq(T) : Mapped(f, s) \in Seq(U)
         /\ \A s \in Seq(T), c \in T : Mapped(f, Append(s, c)) = Append(Mapped(f, s), f[c])
<1>1. ASSUME NEW s \in Seq(T)
      PROVE  /\ Mapped(f, s) \in Seq(U) /\ Len(Mapped(f, s)) = Len(s)
             /\ \A k \in 1..Len(s) : Mapped(f, s)[k] = f[s[k]]
  <2> DEFINE N == Len(s)
             m == Mapped(f, s)
  <2>1. N \in Nat /\ DOMAIN s = 1..N /\ \A k \in 1..N : s[k] \in T
    OBVIOUS
  <2>2. m = [k \in 1..N |-> f[s[k]]]
    BY <2>1 DEF Mapped
  <2> HIDE DEF N, m
  <2>3. m \in [1..N -> U]
    BY <2>1, <2>2
  <2>4. m \in Seq(U) /\ Len(m) = N
    BY <2>1, <2>3, LenProperties, SeqDef
  <2> QED
    BY <2>2, <2>4 DEF N, m
<1>2. ASSUME NEW s \in Seq(T), NEW c \in T
      PROVE  Mapped(f, Append(s, c)) = Append(Mapped(f, s), f[c])
  <2> DEFINE N == Len(s)
             t == Append(s, c)
             a == Mapped(f, s)
             b == Mapped(f, t)
             x == Append(a, f[c])
  <2>1. N \in Nat /\ t \in Seq(T) /\ Len(t) = N + 1 /\ t[N + 1] = c /\ \A k \in 1..N : t[k] = s[k]
    OBVIOUS
  <2>2. a \in Seq(U) /\ Len(a) = N /\ \A k \in 1..N : a[k] = f[s[k]]
    <3> HIDE DEF t, b, x
    <3> QED
      BY <1>1
  <2> HIDE DEF t
  <2>3. b \in Seq(U) /\ Len(b) = N + 1 /\ \A k \in 1..(N + 1) : b[k] = f[t[k]]
    <3>1. b \in Seq(U) /\ Len(b) = Len(t) /\ \A k \in 1..Len(t) : b[k] = f[t[k]]
      BY <1>1, <2>1
    <3> HIDE DEF b
    <3> QED
      BY <2>1, <3>1
  <2> HIDE DEF a, b, N
  <2>4. x \in Seq(U) /\ Len(x) = N + 1 /\ x[N + 1] = f[c] /\ \A k \in 1..N : x[k] = a[k]
    <3>1. f[c] \in U
      OBVIOUS
    <3> QED
      BY <2>2, <3>1, AppendProperties
  <2> HIDE DEF x
  <2>5. ASSUME NEW k \in 1..(N + 1) PROVE b[k] = x[k]
    <3>1. CASE k \in 1..N
      <4>1. b[k] = f[t[k]] /\ t[k] = s[k] /\ x[k] = a[k] /\ a[k] = f[s[k]]
        BY <2>1, <2>2, <2>3, <2>4, <3>1
      <4> QED
        BY <4>1
    <3>2. CASE k = N + 1
      <4>1. b[k] = f[t[k]] /\ t[k] = c /\ x[k] = f[c]
        BY <2>1, <2>3, <2>4, <3>2
      <4> QED
        BY <4>1
    <3>3. k \in 1..N \/ k = N + 1
      BY <2>1
    <3> QED
      BY <3>1, <3>2, <3>3
  <2>6. b = x
    BY <2>3, <2>4, <2>5, SeqEqual
  <2> QED
    BY <2>6 DEF a, b, x, t
<1>3. Mapped(f, << >>) = << >>
  <2>1. DOMAIN << >> = {}
    OBVIOUS
  <2>2. Mapped(f, << >>) = [k \in {} |-> f[<< >>[k]]]
    BY <2>1 DEF Mapped
  <2>3. << >> \in Seq(T)
    OBVIOUS
  <2>4. Len(Mapped(f, << >>)) = 0 /\ Mapped(f, << >>) \in Seq(U)
    BY <1>1, <2>3
  <2> QED
    BY <2>4
<1> QED
  BY <1>1, <1>2, <1>3

\* The two definitions are the same.
LEMMA CvsJoined == \A seqs : Cvs!Joined(seqs) = Fix!Joined(seqs)
BY DEF Cvs!Joined, Fix!Joined

LineOut == [line \in Piece |-> Cvs!OfLine(line)]

\* One line more in the file.
LEMMA OfFileIs ==
  ASSUME CvsNumbers
  PROVE  /\ Cvs!OfFile(<< >>) = << >> /\ Whole(Cut(<< >>))
         /\ \A text, line \in Seq(Code) : Whole(Cut(text)) /\ IsLine(line)
              => /\ text \o line \in Seq(Code) /\ Whole(Cut(text \o line))
                 /\ Cvs!OfFile(text \o line) = Cvs!OfFile(text) \o Cvs!OfLine(line)
<1>1. LineOut \in [Piece -> Seq(Report)] /\ \A line \in Piece : LineOut[line] = Cvs!OfLine(line)
  BY OfLineTypes DEF LineOut, Piece
<1>2. ASSUME NEW text \in Seq(Code)
      PROVE  Cut(text) \in Seq(Piece) /\ Cvs!OfFile(text) = Fix!Joined(Mapped(LineOut, Cut(text)))
  <2> DEFINE p == Cut(text)
  <2>1. Cvs!Pieces(text) = p /\ p \in Seq(Piece)
    BY PiecesIs, CutIs
  <2> HIDE DEF p
  <2>2. Cvs!OfFile(text) = Fix!Joined([k \in DOMAIN p |-> Cvs!OfLine(p[k])])
    BY <2>1, CvsJoined DEF Cvs!OfFile
  <2>3. \A k \in DOMAIN p : p[k] \in Piece
    <3> DEFINE P == Piece
    <3>1. p \in Seq(P)
      BY <2>1
    <3> HIDE DEF P
    <3>2. \A k \in DOMAIN p : p[k] \in P
      BY <3>1
    <3> QED
      BY <3>2 DEF P
  <2>4. [k \in DOMAIN p |-> Cvs!OfLine(p[k])] = Mapped(LineOut, p)
    BY <1>1, <2>3 DEF Mapped
  <2> QED
    BY <2>1, <2>2, <2>4 DEF p
<1>3. /\ Mapped(LineOut, << >>) = << >>
      /\ \A s \in Seq(Piece) : Mapped(LineOut, s) \in Seq(Seq(Report))
      /\ \A s \in Seq(Piece), c \in Piece :
           Mapped(LineOut, Append(s, c)) = Append(Mapped(LineOut, s), LineOut[c])
  BY <1>1, MappedIs
<1>4. Cvs!OfFile(<< >>) = << >> /\ Whole(Cut(<< >>))
  <2>1. << >> \in Seq(Code) /\ Cut(<< >>) = << >>
    BY CutIs
  <2>2. Cvs!OfFile(<< >>) = Fix!Joined(<< >>)
    BY <1>2, <1>3, <2>1
  <2> QED
    BY <2>1, <2>2, JoinedAppend DEF Whole
<1>5. ASSUME NEW text \in Seq(Code), NEW line \in Seq(Code), Whole(Cut(text)), IsLine(line)
      PROVE  /\ text \o line \in Seq(Code) /\ Whole(Cut(text \o line))
             /\ Cvs!OfFile(text \o line) = Cvs!OfFile(text) \o Cvs!OfLine(line)
  <2> DEFINE t == text \o line
             p == Cut(text)
  <2>1. line \in Seq(Code) /\ line \in Piece
    BY <1>5 DEF IsLine, Piece
  <2>2. Cut(line) = <<line>> /\ Whole(<<line>>)
    BY <1>5, CutLine
  <2>3. t \in Seq(Code) /\ Cut(t) = p \o <<line>>
    BY <1>5, <2>1, <2>2, CutBehind
  <2>4. p \in Seq(Piece)
    BY <1>2
  <2> HIDE DEF p, t
  <2> DEFINE P == Piece
  <2>5. p \in Seq(P) /\ line \in P
    BY <2>1, <2>4
  <2> HIDE DEF P
  <2>6. Append(p, line) = p \o <<line>> /\ Append(p, line) \in Seq(P)
    BY <2>5
  <2>7. Whole(Append(p, line))
    <3>1. Len(Append(p, line)) = Len(p) + 1 /\ Append(p, line)[Len(p) + 1] = line
      BY <2>5
    <3>2. Len(<<line>>) = 1 /\ <<line>>[1] = line /\ <<line>> # << >>
      OBVIOUS
    <3>3. Cvs!IsEnded(line)
      BY <2>2, <3>2 DEF Whole
    <3> QED
      BY <3>1, <3>3 DEF Whole
  <2>8. Mapped(LineOut, Append(p, line)) = Append(Mapped(LineOut, p), Cvs!OfLine(line))
    BY <1>1, <1>3, <2>1, <2>4
  <2>9. Mapped(LineOut, p) \in Seq(Seq(Report)) /\ Cvs!OfLine(line) \in Seq(Report)
    BY <1>3, <2>1, <2>4, OfLineTypes
  <2>10. Cvs!OfFile(t) = Fix!Joined(Mapped(LineOut, Append(p, line)))
    BY <1>2, <2>3, <2>6
  <2>11. Cvs!OfFile(t) = Fix!Joined(Mapped(LineOut, p)) \o Cvs!OfLine(line)
    BY <2>8, <2>9, <2>10, JoinedAppend
  <2>12. Cvs!OfFile(text) = Fix!Joined(Mapped(LineOut, p))
    BY <1>2 DEF p
  <2> QED
    BY <2>3, <2>6, <2>7, <2>11, <2>12 DEF t
<1> QED
  BY <1>4, <1>5

\* strchr finds the first one, if there is one.
LEMMA StrChrIs ==
  ASSUME NEW text \in Seq(Code), NEW ch, NEW from \in Nat \ {0}
  PROVE  LET found == Cvs!StrChr(text, ch, from) IN
         /\ found # 0 => found \in from..Len(text) /\ text[found] = ch
         /\ \A k \in from..Len(text) :
              text[k] = ch /\ (\A j \in from..Len(text) : text[j] = ch => k <= j) => found = k
<1> DEFINE found == Cvs!StrChr(text, ch, from)
           at == {k \in from..Len(text) : text[k] = ch}
           First(k) == \A j \in at : k <= j
<1>1. Len(text) \in Nat
  OBVIOUS
<1>2. at \in SUBSET Nat
  BY <1>1
<1>3. CASE at = {}
  BY <1>3, Zenon DEF Cvs!StrChr
<1>4. CASE at # {}
  <2>1. found = CHOOSE k \in at : First(k)
    BY <1>4, Zenon DEF Cvs!StrChr
  <2> HIDE DEF found
  <2>2. \E k \in at : First(k)
    <3> HIDE DEF at
    <3> QED
      BY <1>2, <1>4, Smallest
  <2>3. found \in at /\ First(found)
    <3> HIDE DEF at, First
    <3> QED
      BY <2>1, <2>2
  <2>4. found \in from..Len(text) /\ text[found] = ch
    BY <2>3
  <2>5. ASSUME NEW k \in from..Len(text), text[k] = ch,
               \A j \in from..Len(text) : text[j] = ch => k <= j
        PROVE  found = k
    <3>1. k <= found /\ found <= k
      BY <2>3, <2>5
    <3> QED
      BY <1>1, <2>4, <3>1
  <2> QED
    BY <2>4, <2>5 DEF found
<1> QED
  BY <1>3, <1>4

\* A line with fewer than three colons prints nothing: one of them is missing.
LEMMA NoAccount ==
  ASSUME NEW text \in Seq(Code), TwoColons(text)
  PROVE  Cvs!OfLine(text) = << >>
<1> DEFINE N      == Len(text)
           first  == Cvs!StrChr(text, Cvs!Colon, 1)
           second == Cvs!StrChr(text, Cvs!Colon, first + 1)
           third  == Cvs!StrChr(text, Cvs!Colon, second + 1)
           blank  == Cvs!StrChr(text, Cvs!Blank, third + 1)
<1>1. N \in Nat /\ DOMAIN text = 1..N
  OBVIOUS
<1>2. 0 \in {first, second, third}
  <2> SUFFICES ASSUME first # 0, second # 0, third # 0 PROVE FALSE
    OBVIOUS
  <2>1. first \in 1..N /\ text[first] = Cvs!Colon
    BY StrChrIs
  <2> HIDE DEF first
  <2>2. second \in (first + 1)..N /\ text[second] = Cvs!Colon
    <3>1. first + 1 \in Nat \ {0}
      BY <2>1
    <3> QED
      BY <3>1, StrChrIs
  <2> HIDE DEF second
  <2>3. third \in (second + 1)..N /\ text[third] = Cvs!Colon
    <3>1. second + 1 \in Nat \ {0}
      BY <2>1, <2>2
    <3> QED
      BY <3>1, StrChrIs
  <2> HIDE DEF third, N
  <2>4. first \in 1..N /\ second \in 1..N /\ third \in 1..N
        /\ first # second /\ second # third /\ first # third
    BY <1>1, <2>1, <2>2, <2>3
  <2> QED
    BY <1>1, <2>1, <2>2, <2>3, <2>4 DEF TwoColons
<1>3. 0 \in {first, second, third, blank}
  BY <1>2
<1>4. Cvs!Fields(text) = << >>
  BY <1>3, Zenon DEF Cvs!Fields
<1> QED
  BY <1>4, Zenon DEF Cvs!OfLine

\* It fits into the buffer, and the blank in it is the one behind the path.
Fits(a) ==
  /\ Len(Cvs!CvsLine(a)) < BufSize
  /\ \A k \in DOMAIN a.path : a.path[k] # Cvs!Blank

\* A line that CVS has written, from the first character to the last.
IsWritten(line, user, path, pass, U, P, W) ==
  /\ line \in Seq(Code) /\ Len(line) = U + P + W + 9
  /\ line[1] = Cvs!Colon /\ line[2] = 112 /\ line[3] = Cvs!Colon
  /\ \A k \in 1..U : line[3 + k] = user[k]
  /\ line[U + 4] = 64 /\ line[U + 5] = 104 /\ line[U + 6] = Cvs!Colon
  /\ \A k \in 1..P : line[U + 6 + k] = path[k]
  /\ line[U + P + 7] = Cvs!Blank /\ line[U + P + 8] = Cvs!MethodA
  /\ \A k \in 1..W : line[U + P + 8 + k] = Cvs!Shift(pass)[k]
  /\ line[U + P + W + 9] = Cvs!Newline

\* CvsLine puts its parts where IsWritten has them.
LEMMA LineIsWritten ==
  ASSUME NEW a, IsAccount(a)
  PROVE  IsWritten(Cvs!CvsLine(a), a.user, a.path, a.pass, Len(a.user), Len(a.path), Len(a.pass))
<1> DEFINE user == a.user
           path == a.path
           pass == Cvs!Shift(a.pass)
           U  == Len(user)
           P  == Len(path)
           W  == Len(pass)
           s1 == <<Cvs!Colon, 112, Cvs!Colon>>
           s3 == <<64, 104, Cvs!Colon>>
           s5 == <<Cvs!Blank>>
           s6 == <<Cvs!MethodA>>
           s7 == <<Cvs!Newline>>
           scramble == s6 \o pass
           t2 == s1 \o user
           t3 == t2 \o s3
           t4 == t3 \o path
           t5 == t4 \o s5
           t6 == t5 \o scramble
           t7 == t6 \o s7
<1>1. /\ s1 \in Seq(Code) /\ Len(s1) = 3 /\ s1[1] = Cvs!Colon /\ s1[2] = 112 /\ s1[3] = Cvs!Colon
      /\ s3 \in Seq(Code) /\ Len(s3) = 3 /\ s3[1] = 64 /\ s3[2] = 104 /\ s3[3] = Cvs!Colon
      /\ s5 \in Seq(Code) /\ Len(s5) = 1 /\ s5[1] = Cvs!Blank
      /\ s6 \in Seq(Code) /\ Len(s6) = 1 /\ s6[1] = Cvs!MethodA
      /\ s7 \in Seq(Code) /\ Len(s7) = 1 /\ s7[1] = Cvs!Newline
  BY DEF Code, Cvs!Colon, Cvs!Blank, Cvs!MethodA, Cvs!Newline
<1>2. user \in Seq(Code) /\ path \in Seq(Code) /\ pass \in Seq(Code) /\ W = Len(a.pass)
  BY ShiftIs DEF IsAccount
<1>3. Cvs!CvsLine(a) = t7
  BY Zenon DEF Cvs!CvsLine, Cvs!Scramble
<1> HIDE DEF user, path, pass, s1, s3, s5, s6, s7
<1>4. U \in Nat /\ P \in Nat /\ W \in Nat
  BY <1>2
<1>5. /\ scramble \in Seq(Code) /\ Len(scramble) = W + 1 /\ scramble[1] = Cvs!MethodA
      /\ \A k \in 1..W : scramble[1 + k] = pass[k]
  <2>1. /\ scramble \in Seq(Code) /\ Len(scramble) = Len(s6) + Len(pass)
        /\ \A k \in 1..Len(s6) : scramble[k] = s6[k]
        /\ \A k \in 1..Len(pass) : scramble[Len(s6) + k] = pass[k]
    <3>1. s6 \in Seq(Code) /\ pass \in Seq(Code)
      BY <1>1, <1>2
    <3> QED
      BY <3>1, PlacesOfTwo
  <2> QED
    BY <1>1, <1>4, <2>1
<1> HIDE DEF scramble
<1>6. /\ t2 \in Seq(Code) /\ Len(t2) = U + 3
      /\ \A k \in 1..3 : t2[k] = s1[k]
      /\ \A k \in 1..U : t2[3 + k] = user[k]
  <2>1. /\ t2 \in Seq(Code) /\ Len(t2) = Len(s1) + Len(user)
        /\ \A k \in 1..Len(s1) : t2[k] = s1[k]
        /\ \A k \in 1..Len(user) : t2[Len(s1) + k] = user[k]
    <3>1. s1 \in Seq(Code) /\ user \in Seq(Code)
      BY <1>1, <1>2
    <3> QED
      BY <3>1, PlacesOfTwo
  <2> QED
    BY <1>1, <1>4, <2>1
<1> HIDE DEF t2
<1>7. /\ t3 \in Seq(Code) /\ Len(t3) = U + 6
      /\ \A k \in 1..(U + 3) : t3[k] = t2[k]
      /\ \A k \in 1..3 : t3[(U + 3) + k] = s3[k]
  <2>1. /\ t3 \in Seq(Code) /\ Len(t3) = Len(t2) + Len(s3)
        /\ \A k \in 1..Len(t2) : t3[k] = t2[k]
        /\ \A k \in 1..Len(s3) : t3[Len(t2) + k] = s3[k]
    <3>1. t2 \in Seq(Code) /\ s3 \in Seq(Code)
      BY <1>1, <1>6
    <3> QED
      BY <3>1, PlacesOfTwo
  <2> QED
    BY <1>1, <1>4, <1>6, <2>1
<1> HIDE DEF t3
<1>8. /\ t4 \in Seq(Code) /\ Len(t4) = U + P + 6
      /\ \A k \in 1..(U + 6) : t4[k] = t3[k]
      /\ \A k \in 1..P : t4[(U + 6) + k] = path[k]
  <2>1. /\ t4 \in Seq(Code) /\ Len(t4) = Len(t3) + Len(path)
        /\ \A k \in 1..Len(t3) : t4[k] = t3[k]
        /\ \A k \in 1..Len(path) : t4[Len(t3) + k] = path[k]
    <3>1. t3 \in Seq(Code) /\ path \in Seq(Code)
      BY <1>2, <1>7
    <3> QED
      BY <3>1, PlacesOfTwo
  <2> QED
    BY <1>4, <1>7, <2>1
<1> HIDE DEF t4
<1>9. /\ t5 \in Seq(Code) /\ Len(t5) = U + P + 7
      /\ \A k \in 1..(U + P + 6) : t5[k] = t4[k]
      /\ t5[U + P + 7] = Cvs!Blank
  <2>1. /\ t5 \in Seq(Code) /\ Len(t5) = Len(t4) + Len(s5)
        /\ \A k \in 1..Len(t4) : t5[k] = t4[k]
        /\ \A k \in 1..Len(s5) : t5[Len(t4) + k] = s5[k]
    <3>1. t4 \in Seq(Code) /\ s5 \in Seq(Code)
      BY <1>1, <1>8
    <3> QED
      BY <3>1, PlacesOfTwo
  <2>2. t5[(U + P + 6) + 1] = Cvs!Blank
    BY <1>1, <1>8, <2>1
  <2> QED
    BY <1>1, <1>4, <1>8, <2>1, <2>2
<1> HIDE DEF t5
<1>10. /\ t6 \in Seq(Code) /\ Len(t6) = U + P + W + 8
       /\ \A k \in 1..(U + P + 7) : t6[k] = t5[k]
       /\ \A k \in 1..(W + 1) : t6[(U + P + 7) + k] = scramble[k]
  <2>1. /\ t6 \in Seq(Code) /\ Len(t6) = Len(t5) + Len(scramble)
        /\ \A k \in 1..Len(t5) : t6[k] = t5[k]
        /\ \A k \in 1..Len(scramble) : t6[Len(t5) + k] = scramble[k]
    <3>1. t5 \in Seq(Code) /\ scramble \in Seq(Code)
      BY <1>5, <1>9
    <3> QED
      BY <3>1, PlacesOfTwo
  <2> QED
    BY <1>4, <1>5, <1>9, <2>1
<1> HIDE DEF t6
<1>11. /\ t7 \in Seq(Code) /\ Len(t7) = U + P + W + 9
       /\ \A k \in 1..(U + P + W + 8) : t7[k] = t6[k]
       /\ t7[U + P + W + 9] = Cvs!Newline
  <2>1. /\ t7 \in Seq(Code) /\ Len(t7) = Len(t6) + Len(s7)
        /\ \A k \in 1..Len(t6) : t7[k] = t6[k]
        /\ \A k \in 1..Len(s7) : t7[Len(t6) + k] = s7[k]
    <3>1. t6 \in Seq(Code) /\ s7 \in Seq(Code)
      BY <1>1, <1>10
    <3> QED
      BY <3>1, PlacesOfTwo
  <2>2. t7[(U + P + W + 8) + 1] = Cvs!Newline
    BY <1>1, <1>10, <2>1
  <2> QED
    BY <1>1, <1>4, <1>10, <2>1, <2>2
<1> HIDE DEF t7, U, P, W
<1>12. t7[1] = Cvs!Colon /\ t7[2] = 112 /\ t7[3] = Cvs!Colon
  <2>1. \A k \in 1..3 : t7[k] = s1[k]
    <3> TAKE k \in 1..3
    <3>1. /\ k \in 1..(U + P + W + 8) /\ k \in 1..(U + P + 7) /\ k \in 1..(U + P + 6)
          /\ k \in 1..(U + 6) /\ k \in 1..(U + 3)
      BY <1>4
    <3>2. t7[k] = t6[k] /\ t6[k] = t5[k] /\ t5[k] = t4[k] /\ t4[k] = t3[k] /\ t3[k] = t2[k] /\ t2[k] = s1[k]
      BY <1>6, <1>7, <1>8, <1>9, <1>10, <1>11, <3>1
    <3> QED
      BY <3>2
  <2> QED
    BY <1>1, <2>1
<1>13. ASSUME NEW k \in 1..U PROVE t7[3 + k] = user[k]
  <2> DEFINE i == 3 + k
  <2>1. /\ i \in 1..(U + P + W + 8) /\ i \in 1..(U + P + 7) /\ i \in 1..(U + P + 6)
        /\ i \in 1..(U + 6) /\ i \in 1..(U + 3)
    BY <1>4
  <2>2. t2[i] = user[k]
    BY <1>6
  <2> HIDE DEF i
  <2>3. t7[i] = t6[i] /\ t6[i] = t5[i] /\ t5[i] = t4[i] /\ t4[i] = t3[i] /\ t3[i] = t2[i]
    BY <1>7, <1>8, <1>9, <1>10, <1>11, <2>1
  <2> QED
    BY <2>2, <2>3 DEF i
<1>14. t7[U + 4] = 64 /\ t7[U + 5] = 104 /\ t7[U + 6] = Cvs!Colon
  <2>1. ASSUME NEW k \in 1..3 PROVE t7[(U + 3) + k] = s3[k]
    <3> DEFINE i == (U + 3) + k
    <3>1. i \in 1..(U + P + W + 8) /\ i \in 1..(U + P + 7) /\ i \in 1..(U + P + 6) /\ i \in 1..(U + 6)
      BY <1>4
    <3>2. t3[i] = s3[k]
      BY <1>7
    <3> HIDE DEF i
    <3>3. t7[i] = t6[i] /\ t6[i] = t5[i] /\ t5[i] = t4[i] /\ t4[i] = t3[i]
      BY <1>8, <1>9, <1>10, <1>11, <3>1
    <3> QED
      BY <3>2, <3>3 DEF i
  <2>2. (U + 3) + 1 = U + 4 /\ (U + 3) + 2 = U + 5 /\ (U + 3) + 3 = U + 6
    BY <1>4
  <2>3. t7[(U + 3) + 1] = 64 /\ t7[(U + 3) + 2] = 104 /\ t7[(U + 3) + 3] = Cvs!Colon
    BY <1>1, <2>1
  <2> QED
    BY <2>2, <2>3
<1>15. ASSUME NEW k \in 1..P PROVE t7[U + 6 + k] = path[k]
  <2> DEFINE i == U + 6 + k
  <2>1. i \in 1..(U + P + W + 8) /\ i \in 1..(U + P + 7) /\ i \in 1..(U + P + 6)
    BY <1>4
  <2>2. t4[i] = path[k]
    BY <1>8
  <2> HIDE DEF i
  <2>3. t7[i] = t6[i] /\ t6[i] = t5[i] /\ t5[i] = t4[i]
    BY <1>9, <1>10, <1>11, <2>1
  <2> QED
    BY <2>2, <2>3 DEF i
<1>16. t7[U + P + 7] = Cvs!Blank
  <2> DEFINE i == U + P + 7
  <2>1. i \in 1..(U + P + W + 8) /\ i \in 1..(U + P + 7)
    BY <1>4
  <2>2. t5[i] = Cvs!Blank
    BY <1>9
  <2> HIDE DEF i
  <2>3. t7[i] = t6[i] /\ t6[i] = t5[i]
    <3> HIDE <2>1
    <3>1. t7[i] = t6[i]
      BY <1>11, <2>1
    <3>2. t6[i] = t5[i]
      BY <1>10, <2>1
    <3> QED
      BY <3>1, <3>2
  <2> QED
    BY <2>2, <2>3 DEF i
<1>17. ASSUME NEW k \in 1..(W + 1) PROVE t7[(U + P + 7) + k] = scramble[k]
  <2> DEFINE i == (U + P + 7) + k
  <2>1. i \in 1..(U + P + W + 8)
    BY <1>4
  <2>2. t6[i] = scramble[k]
    BY <1>10
  <2> HIDE DEF i
  <2> QED
    BY <1>11, <2>1, <2>2 DEF i
<1>18. t7[U + P + 8] = Cvs!MethodA
  <2>1. (U + P + 7) + 1 = U + P + 8 /\ 1 \in 1..(W + 1)
    BY <1>4
  <2>2. t7[(U + P + 7) + 1] = scramble[1]
    BY <1>17, <2>1
  <2> QED
    BY <1>5, <2>1, <2>2
<1>19. ASSUME NEW k \in 1..W PROVE t7[U + P + 8 + k] = pass[k]
  <2>1. (U + P + 7) + (1 + k) = U + P + 8 + k /\ 1 + k \in 1..(W + 1)
    BY <1>4
  <2>2. t7[(U + P + 7) + (1 + k)] = scramble[1 + k]
    BY <1>17, <2>1
  <2> QED
    BY <1>5, <2>1, <2>2
<1>20. IsWritten(t7, user, path, a.pass, U, P, W)
  <2>1. \A k \in 1..W : t7[U + P + 8 + k] = Cvs!Shift(a.pass)[k]
    BY <1>19 DEF pass
  <2> QED
    BY <1>11, <1>12, <1>13, <1>14, <1>15, <1>16, <1>18, <2>1 DEF IsWritten
<1> QED
  <2>1. W = Len(a.pass)
    BY <1>2 DEF W
  <2> QED
    BY <1>3, <1>20, <2>1 DEF user, path, U, P

\* It ends where it should, and only there.
LEMMA WrittenIsLine ==
  ASSUME NEW a, IsAccount(a), Len(Cvs!CvsLine(a)) < BufSize
  PROVE  IsLine(Cvs!CvsLine(a))
<1> DEFINE line == Cvs!CvsLine(a)
           user == a.user
           path == a.path
           pass == a.pass
           U == Len(user)
           P == Len(path)
           W == Len(pass)
<1>1. IsWritten(line, user, path, pass, U, P, W)
  BY LineIsWritten
<1>2. /\ user \in Seq(Code) /\ path \in Seq(Code) /\ pass \in Seq(Code)
      /\ U \in Nat /\ P \in Nat /\ W \in Nat
      /\ \A k \in 1..U : user[k] # Cvs!Newline
      /\ \A k \in 1..P : path[k] # Cvs!Newline
      /\ \A k \in 1..W : pass[k] # Cvs!Newline
  BY DEF IsAccount
<1>3. \A k \in 1..W : Cvs!Shift(pass)[k] # Cvs!Newline
  BY <1>2, ShiftIs
<1> HIDE DEF line, user, path, pass, U, P, W
<1> DEFINE N == U + P + W + 9
<1>4. line \in Seq(Code) /\ Len(line) = N /\ N \in Nat /\ N > 0 /\ N < BufSize /\ line[N] = Cvs!Newline
  <2>1. N \in Nat /\ N > 0
    BY <1>2
  <2> QED
    BY <1>1, <2>1 DEF IsWritten, line
<1>6. /\ line[1] = 58 /\ line[2] = 112 /\ line[3] = 58
      /\ line[U + 4] = 64 /\ line[U + 5] = 104 /\ line[U + 6] = 58
      /\ line[U + P + 7] = 32 /\ line[U + P + 8] = 65
  BY <1>1 DEF IsWritten, Cvs!Colon, Cvs!Blank, Cvs!MethodA
<1>7. \A k \in 1..U : line[3 + k] = user[k]
  BY <1>1, Zenon DEF IsWritten
<1>8. \A k \in 1..P : line[U + 6 + k] = path[k]
  BY <1>1, Zenon DEF IsWritten
<1>5. ASSUME NEW k \in 1..N, k # N PROVE line[k] # Cvs!Newline
  <2>1. CASE k \in {1, 2, 3, U + 4, U + 5, U + 6, U + P + 7, U + P + 8}
    BY <1>6, <2>1 DEF Cvs!Newline
  <2>2. CASE k \in 4..(U + 3)
    <3> DEFINE i == k - 3
    <3>1. i \in 1..U /\ k = 3 + i
      BY <1>2, <2>2
    <3> HIDE DEF i
    <3> QED
      BY <1>2, <1>7, <3>1
  <2>3. CASE k \in (U + 7)..(U + P + 6)
    <3> DEFINE i == k - (U + 6)
    <3>1. i \in 1..P /\ k = U + 6 + i
      BY <1>2, <2>3
    <3> HIDE DEF i
    <3> QED
      BY <1>2, <1>8, <3>1
  <2>4. CASE k \in (U + P + 9)..(U + P + W + 8)
    <3> DEFINE i == k - (U + P + 8)
    <3>1. i \in 1..W /\ k = U + P + 8 + i
      BY <1>2, <2>4
    <3> HIDE DEF i
    <3> QED
      BY <1>1, <1>3, <3>1 DEF IsWritten
  <2>5. \/ k \in {1, 2, 3, U + 4, U + 5, U + 6, U + P + 7, U + P + 8}
        \/ k \in 4..(U + 3) \/ k \in (U + 7)..(U + P + 6) \/ k \in (U + P + 9)..(U + P + W + 8)
    BY <1>2, <1>5
  <2> QED
    BY <2>1, <2>2, <2>3, <2>4, <2>5
<1> HIDE DEF N
<1> QED
  BY <1>4, <1>5 DEF IsLine, line

\* The scramble, and what is made of it.
LEMMA TailIs ==
  ASSUME NEW s \in Seq(Code), NEW ch \in Code
  PROVE  /\ <<ch>> \o s \in Seq(Code) /\ <<ch>> \o s # << >>
         /\ (<<ch>> \o s)[1] = ch /\ Tail(<<ch>> \o s) = s
<1> DEFINE one == <<ch>>
           t == one \o s
<1>1. one \in Seq(Code) /\ Len(one) = 1 /\ one[1] = ch
  OBVIOUS
<1> HIDE DEF one
<1>2. /\ t \in Seq(Code) /\ Len(t) = Len(one) + Len(s) /\ Len(s) \in Nat
      /\ \A k \in 1..Len(one) : t[k] = one[k]
      /\ \A k \in 1..Len(s) : t[Len(one) + k] = s[k]
  <2>1. one \in Seq(Code) /\ s \in Seq(Code)
    BY <1>1
  <2> QED
    BY <2>1, PlacesOfTwo
<1> HIDE DEF t
<1>3. Len(t) = Len(s) + 1 /\ t[1] = ch /\ \A k \in 1..Len(s) : t[1 + k] = s[k]
  BY <1>1, <1>2
<1>4. t # << >>
  <2>1. t = << >> => Len(t) = 0
    OBVIOUS
  <2> QED
    BY <1>2, <1>3, <2>1
<1> DEFINE u == Tail(t)
<1>5. u \in Seq(Code) /\ Len(u) = Len(t) - 1 /\ \A k \in 1..Len(u) : u[k] = t[k + 1]
  BY <1>2, <1>4, HeadTailProperties
<1> HIDE DEF u
<1>6. Len(u) = Len(s) /\ \A k \in 1..Len(u) : u[k] = s[k]
  <2>1. Len(u) = Len(s)
    BY <1>2, <1>3, <1>5
  <2>2. ASSUME NEW k \in 1..Len(u) PROVE u[k] = s[k]
    <3>1. k \in 1..Len(s) /\ k + 1 = 1 + k
      BY <1>2, <2>1
    <3> QED
      BY <1>3, <1>5, <3>1
  <2> QED
    BY <2>1, <2>2
<1>7. u = s
  BY <1>5, <1>6, SeqEqual
<1> QED
  BY <1>2, <1>3, <1>4, <1>7 DEF u, t, one

\* The scramble of CVS is undone.
LEMMA Unscrambled ==
  ASSUME NEW s \in Seq(Code)
  PROVE  /\ Cvs!CvsPwd(<<Cvs!MethodA>> \o s) = [known |-> TRUE, text |-> Cvs!Shift(s)]
         /\ Cvs!OfArgument(Cvs!Scramble(s)) = [known |-> TRUE, text |-> s]
<1>1. Cvs!MethodA \in Code
  BY DEF Cvs!MethodA, Code
<1>2. ASSUME NEW t \in Seq(Code)
      PROVE  Cvs!CvsPwd(<<Cvs!MethodA>> \o t) = [known |-> TRUE, text |-> Cvs!Shift(t)]
  <2> DEFINE w == <<Cvs!MethodA>> \o t
  <2>1. w # << >> /\ w[1] = Cvs!MethodA /\ Tail(w) = t
    BY <1>1, TailIs
  <2> HIDE DEF w
  <2>2. Cvs!CvsPwd(w) = [known |-> TRUE, text |-> Cvs!Shift(Tail(w))]
    BY <2>1, Zenon DEF Cvs!CvsPwd
  <2> QED
    BY <2>1, <2>2 DEF w
<1>3. Cvs!Shift(s) \in Seq(Code) /\ Cvs!Shift(Cvs!Shift(s)) = s
  BY ShiftIs
<1>4. Cvs!CvsPwd(<<Cvs!MethodA>> \o Cvs!Shift(s)) = [known |-> TRUE, text |-> Cvs!Shift(Cvs!Shift(s))]
  BY <1>2, <1>3
<1>5. Cvs!OfArgument(Cvs!Scramble(s)) = [known |-> TRUE, text |-> s]
  BY <1>3, <1>4, Zenon DEF Cvs!OfArgument, Cvs!Scramble
<1> QED
  BY <1>2, <1>5

\* The parts of a text, from places that are known.
LEMMA PartIs ==
  ASSUME NEW line \in Seq(Code), NEW m \in Nat, NEW n \in Nat, m >= 1, n <= Len(line),
         NEW s \in Seq(Code), Len(s) = n + 1 - m, \A k \in 1..Len(s) : line[m + k - 1] = s[k]
  PROVE  SubSeq(line, m, n) = s
<1> DEFINE t == SubSeq(line, m, n)
<1>1. \A i \in m..n : line[i] \in Code
  <2>1. Len(line) \in Nat
    OBVIOUS
  <2>2. \A i \in m..n : i \in 1..Len(line)
    BY <2>1
  <2> QED
    BY <2>2
<1>2. t \in Seq(Code) /\ Len(t) = (IF m <= n THEN n - m + 1 ELSE 0)
      /\ \A i \in 1..(n - m + 1) : t[i] = line[m + i - 1]
  <2>1. m \in Int /\ n \in Int
    OBVIOUS
  <2> QED
    BY <1>1, <2>1, SubSeqProperties
<1> HIDE DEF t
<1>3. Len(s) \in Nat
  OBVIOUS
<1>4. Len(t) = Len(s)
  BY <1>2, <1>3
<1>5. \A k \in 1..Len(t) : t[k] = s[k]
  <2> TAKE k \in 1..Len(t)
  <2>1. k \in 1..Len(s) /\ k \in 1..(n - m + 1)
    BY <1>3, <1>4
  <2> QED
    BY <1>2, <2>1
<1>6. t = s
  BY <1>2, <1>4, <1>5, SeqEqual
<1> QED
  BY <1>6 DEF t

\* The colons and the blank that cvspwd finds are those that CVS put there.
LEMMA WrittenFields ==
  ASSUME NEW a, IsAccount(a), \A k \in DOMAIN a.path : a.path[k] # Cvs!Blank
  PROVE  Cvs!Fields(Cvs!CvsLine(a))
           = <<Cvs!UserOf(a), [known |-> TRUE, text |-> a.pass \o <<Cvs!Newline>>]>>
<1> DEFINE line == Cvs!CvsLine(a)
           user == a.user
           path == a.path
           pass == a.pass
           shift == Cvs!Shift(pass)
           U == Len(user)
           P == Len(path)
           W == Len(pass)
           N == U + P + W + 9
           host == <<64, 104>>
           end == <<Cvs!Newline>>
           who == user \o host
           rest == shift \o end
           word == <<Cvs!MethodA>> \o rest
<1>1. IsWritten(line, user, path, pass, U, P, W)
  BY LineIsWritten
<1>2. /\ user \in Seq(Code) /\ path \in Seq(Code) /\ pass \in Seq(Code)
      /\ U \in Nat /\ P \in Nat /\ W \in Nat
      /\ \A k \in 1..U : user[k] # Cvs!Colon
      /\ \A k \in 1..P : path[k] # Cvs!Blank
  BY DEF IsAccount
<1>3. shift \in Seq(Code) /\ Len(shift) = W
  BY <1>2, ShiftIs
<1>4. /\ host \in Seq(Code) /\ Len(host) = 2 /\ host[1] = 64 /\ host[2] = 104
      /\ end \in Seq(Code) /\ Len(end) = 1 /\ end[1] = Cvs!Newline
  BY DEF Code, Cvs!Newline
<1>5. Cvs!UserOf(a) = who
  BY DEF Cvs!UserOf
<1>6. Cvs!Shift(rest) = pass \o end
  BY <1>2, ShiftLine
<1> HIDE DEF line, user, path, pass, shift, U, P, W, host, end
<1>7. line \in Seq(Code) /\ Len(line) = N
  BY <1>1, Zenon DEF IsWritten
<1>8. /\ line[1] = 58 /\ line[2] = 112 /\ line[3] = 58
      /\ line[U + 4] = 64 /\ line[U + 5] = 104 /\ line[U + 6] = 58
      /\ line[U + P + 7] = 32 /\ line[U + P + 8] = Cvs!MethodA /\ line[N] = Cvs!Newline
  BY <1>1 DEF IsWritten, Cvs!Colon, Cvs!Blank
<1>9. \A k \in 1..U : line[3 + k] = user[k]
  BY <1>1, Zenon DEF IsWritten
<1>10. \A k \in 1..P : line[U + 6 + k] = path[k]
  BY <1>1, Zenon DEF IsWritten
<1>11. \A k \in 1..W : line[U + P + 8 + k] = shift[k]
  BY <1>1, Zenon DEF IsWritten, shift
<1>12. N \in Nat /\ N >= 9 /\ U + P + W + 9 = N
  BY <1>2
<1> HIDE DEF N
<1>13. Cvs!StrChr(line, Cvs!Colon, 1) = 1
  <2>1. 1 \in 1..Len(line) /\ line[1] = Cvs!Colon /\ \A j \in 1..Len(line) : line[j] = Cvs!Colon => 1 <= j
    BY <1>7, <1>8, <1>12 DEF Cvs!Colon
  <2> QED
    BY <1>7, <2>1, StrChrIs
<1>14. Cvs!StrChr(line, Cvs!Colon, 2) = 3
  <2>1. 3 \in 2..Len(line) /\ line[3] = Cvs!Colon
    BY <1>7, <1>8, <1>12 DEF Cvs!Colon
  <2>2. ASSUME NEW j \in 2..Len(line), line[j] = Cvs!Colon PROVE 3 <= j
    <3>1. j # 2
      BY <1>8, <2>2 DEF Cvs!Colon
    <3> QED
      BY <1>7, <1>12, <3>1
  <2> QED
    BY <1>7, <2>1, <2>2, StrChrIs
<1>15. Cvs!StrChr(line, Cvs!Colon, 4) = U + 6
  <2>1. U + 6 \in 4..Len(line) /\ line[U + 6] = Cvs!Colon
    BY <1>2, <1>7, <1>8, <1>12 DEF Cvs!Colon
  <2>2. ASSUME NEW j \in 4..Len(line), line[j] = Cvs!Colon PROVE U + 6 <= j
    <3>1. j # U + 4 /\ j # U + 5
      <4>1. line[U + 4] # Cvs!Colon /\ line[U + 5] # Cvs!Colon
        BY <1>8 DEF Cvs!Colon
      <4> QED
        BY <2>2, <4>1
    <3>2. ~(j \in 4..(U + 3))
      <4> SUFFICES ASSUME j \in 4..(U + 3) PROVE FALSE
        OBVIOUS
      <4> DEFINE i == j - 3
      <4>1. i \in 1..U /\ j = 3 + i
        BY <1>2
      <4> HIDE DEF i
      <4> QED
        BY <1>2, <1>9, <2>2, <4>1
    <3> QED
      BY <1>2, <1>7, <1>12, <3>1, <3>2
  <2> QED
    BY <1>7, <2>1, <2>2, StrChrIs
<1>16. Cvs!StrChr(line, Cvs!Blank, U + 7) = U + P + 7
  <2>1. U + P + 7 \in (U + 7)..Len(line) /\ line[U + P + 7] = Cvs!Blank /\ U + 7 \in Nat \ {0}
    BY <1>2, <1>7, <1>8, <1>12 DEF Cvs!Blank
  <2>2. ASSUME NEW j \in (U + 7)..Len(line), line[j] = Cvs!Blank PROVE U + P + 7 <= j
    <3>1. ~(j \in (U + 7)..(U + P + 6))
      <4> SUFFICES ASSUME j \in (U + 7)..(U + P + 6) PROVE FALSE
        OBVIOUS
      <4> DEFINE i == j - (U + 6)
      <4>1. i \in 1..P /\ j = U + 6 + i
        BY <1>2
      <4> HIDE DEF i
      <4> QED
        BY <1>2, <1>10, <2>2, <4>1
    <3> QED
      BY <1>2, <1>7, <1>12, <3>1
  <2> QED
    BY <1>7, <2>1, <2>2, StrChrIs
<1>17. SubSeq(line, 4, U + 5) = who
  <2>1. /\ who \in Seq(Code) /\ Len(who) = U + 2
        /\ \A k \in 1..U : who[k] = user[k]
        /\ \A k \in 1..2 : who[U + k] = host[k]
    <3>1. user \in Seq(Code) /\ host \in Seq(Code)
      BY <1>2, <1>4
    <3>2. /\ who \in Seq(Code) /\ Len(who) = Len(user) + Len(host)
          /\ \A k \in 1..Len(user) : who[k] = user[k]
          /\ \A k \in 1..Len(host) : who[Len(user) + k] = host[k]
      BY <3>1, PlacesOfTwo
    <3> QED
      BY <1>4, <3>2 DEF U
  <2> HIDE DEF who
  <2>2. who[U + 1] = 64 /\ who[U + 2] = 104
    BY <1>4, <2>1
  <2>3. ASSUME NEW k \in 1..Len(who) PROVE line[4 + k - 1] = who[k]
    <3>1. CASE k \in 1..U
      <4>1. 4 + k - 1 = 3 + k
        BY <1>2
      <4> QED
        BY <1>9, <2>1, <3>1, <4>1
    <3>2. CASE k = U + 1
      <4>1. 4 + k - 1 = U + 4
        BY <1>2, <3>2
      <4> QED
        BY <1>8, <2>2, <3>2, <4>1
    <3>3. CASE k = U + 2
      <4>1. 4 + k - 1 = U + 5
        BY <1>2, <3>3
      <4> QED
        BY <1>8, <2>2, <3>3, <4>1
    <3> QED
      BY <1>2, <2>1, <3>1, <3>2, <3>3
  <2>4. U + 5 \in Nat /\ U + 5 <= Len(line) /\ Len(who) = (U + 5) + 1 - 4
    BY <1>2, <1>7, <1>12, <2>1
  <2> QED
    BY <1>7, <2>1, <2>3, <2>4, PartIs
<1>18. /\ rest \in Seq(Code) /\ Len(rest) = W + 1
       /\ (\A k \in 1..W : rest[k] = shift[k]) /\ rest[W + 1] = Cvs!Newline
  <2>1. shift \in Seq(Code) /\ end \in Seq(Code)
    BY <1>3, <1>4
  <2>2. /\ rest \in Seq(Code) /\ Len(rest) = Len(shift) + Len(end)
        /\ \A k \in 1..Len(shift) : rest[k] = shift[k]
        /\ \A k \in 1..Len(end) : rest[Len(shift) + k] = end[k]
    BY <2>1, PlacesOfTwo
  <2> QED
    BY <1>2, <1>3, <1>4, <2>2
<1> HIDE DEF rest
<1>19. SubSeq(line, U + P + 8, N) = word
  <2> DEFINE one == <<Cvs!MethodA>>
  <2>1. one \in Seq(Code) /\ Len(one) = 1 /\ one[1] = Cvs!MethodA
    BY DEF Cvs!MethodA, Code
  <2>2. word = one \o rest
    OBVIOUS
  <2> HIDE DEF one, word
  <2>3. /\ word \in Seq(Code) /\ Len(word) = Len(one) + Len(rest)
        /\ \A k \in 1..Len(one) : word[k] = one[k]
        /\ \A k \in 1..Len(rest) : word[Len(one) + k] = rest[k]
    <3>1. one \in Seq(Code) /\ rest \in Seq(Code)
      BY <1>18, <2>1
    <3>2. /\ one \o rest \in Seq(Code) /\ Len(one \o rest) = Len(one) + Len(rest)
          /\ \A k \in 1..Len(one) : (one \o rest)[k] = one[k]
          /\ \A k \in 1..Len(rest) : (one \o rest)[Len(one) + k] = rest[k]
      BY <3>1, PlacesOfTwo
    <3> QED
      BY <2>2, <3>2
  <2>4. /\ Len(word) = W + 2 /\ word[1] = Cvs!MethodA
        /\ \A k \in 1..(W + 1) : word[1 + k] = rest[k]
    BY <1>2, <1>18, <2>1, <2>3
  <2>5. ASSUME NEW k \in 1..Len(word) PROVE line[(U + P + 8) + k - 1] = word[k]
    <3>1. CASE k = 1
      <4>1. (U + P + 8) + k - 1 = U + P + 8
        BY <1>2, <3>1
      <4> QED
        BY <1>8, <2>4, <3>1, <4>1
    <3>2. CASE k \in 2..(W + 1)
      <4> DEFINE i == k - 1
      <4>1. i \in 1..W /\ k = 1 + i /\ (U + P + 8) + k - 1 = U + P + 8 + i
        BY <1>2, <3>2
      <4> HIDE DEF i
      <4>2. i \in 1..(W + 1)
        BY <1>2, <4>1
      <4> QED
        BY <1>11, <1>18, <2>4, <4>1, <4>2
    <3>3. CASE k = W + 2
      <4>1. (U + P + 8) + k - 1 = N /\ W + 1 \in 1..(W + 1) /\ k = 1 + (W + 1)
        BY <1>2, <1>12, <3>3
      <4> QED
        BY <1>8, <1>18, <2>4, <4>1
    <3> QED
      BY <1>2, <2>4, <3>1, <3>2, <3>3
  <2>6. U + P + 8 \in Nat /\ U + P + 8 >= 1 /\ N <= Len(line) /\ Len(word) = N + 1 - (U + P + 8)
    BY <1>2, <1>7, <1>12, <2>4
  <2> QED
    BY <1>7, <1>12, <2>3, <2>5, <2>6, PartIs
<1>20. Cvs!CvsPwd(word) = [known |-> TRUE, text |-> pass \o end]
  <2>1. Cvs!CvsPwd(word) = [known |-> TRUE, text |-> Cvs!Shift(rest)]
    BY <1>18, Unscrambled
  <2> QED
    BY <1>6, <2>1
<1>21. Cvs!Fields(line) = <<who, [known |-> TRUE, text |-> pass \o end]>>
  <2>1. 1 + 1 = 2 /\ 3 + 1 = 4 /\ (U + 6) + 1 = U + 7 /\ (U + P + 7) + 1 = U + P + 8 /\ (U + 6) - 1 = U + 5
        /\ ~(0 \in {1, 3, U + 6, U + P + 7})
    BY <1>2
  <2> HIDE DEF word, who
  <2> DEFINE found(f, s, t, b) ==
               IF 0 \in {f, s, t, b} THEN << >>
               ELSE <<SubSeq(line, s + 1, t - 1), Cvs!CvsPwd(SubSeq(line, b + 1, Len(line)))>>
             f1 == Cvs!StrChr(line, Cvs!Colon, 1)
             f2 == Cvs!StrChr(line, Cvs!Colon, f1 + 1)
             f3 == Cvs!StrChr(line, Cvs!Colon, f2 + 1)
             f4 == Cvs!StrChr(line, Cvs!Blank, f3 + 1)
  <2>2. Cvs!Fields(line) = found(f1, f2, f3, f4)
    BY Zenon DEF Cvs!Fields
  <2>3. f1 = 1
    BY <1>13
  <2>4. f2 = 3
    BY <1>14, <2>1, <2>3, Zenon
  <2>5. f3 = U + 6
    BY <1>15, <2>1, <2>4, Zenon
  <2>6. f4 = U + P + 7
    BY <1>16, <2>1, <2>5, Zenon
  <2> HIDE DEF f1, f2, f3, f4
  <2>7. Cvs!Fields(line) = found(1, 3, U + 6, U + P + 7)
    BY <2>2, <2>3, <2>4, <2>5, <2>6, Zenon
  <2>8. found(1, 3, U + 6, U + P + 7)
          = <<SubSeq(line, 3 + 1, (U + 6) - 1), Cvs!CvsPwd(SubSeq(line, (U + P + 7) + 1, Len(line)))>>
    BY <2>1, Zenon
  <2> HIDE DEF found
  <2>9. <<SubSeq(line, 3 + 1, (U + 6) - 1), Cvs!CvsPwd(SubSeq(line, (U + P + 7) + 1, Len(line)))>>
          = <<SubSeq(line, 4, U + 5), Cvs!CvsPwd(SubSeq(line, U + P + 8, N))>>
    BY <1>7, <2>1, Zenon
  <2> QED
    BY <1>17, <1>19, <1>20, <2>7, <2>8, <2>9, Zenon
<1> QED
  BY <1>5, <1>21 DEF line, pass, end

\* What CvspwdReports says of an account.
Shown(a) ==
  IF a.pass # << >> /\ a.pass[1] > Cvs!Return
  THEN << <<Cvs!UserOf(a), [known |-> TRUE, text |-> a.pass \o <<Cvs!Newline>>]>> >> ELSE << >>

\* So the line prints the account, if its password is one that is shown.
LEMMA AccountIsShown ==
  ASSUME NEW a, IsAccount(a), Fits(a)
  PROVE  Cvs!OfLine(Cvs!CvsLine(a)) = Shown(a)
<1> DEFINE line == Cvs!CvsLine(a)
           pass == a.pass
           end == <<Cvs!Newline>>
           text == pass \o end
           r == [known |-> TRUE, text |-> text]
           f == <<Cvs!UserOf(a), r>>
           first == pass # << >> /\ pass[1] > Cvs!Return
<1>1. Cvs!Fields(line) = f
  BY WrittenFields DEF Fits
<1>2. pass \in Seq(Code)
  BY DEF IsAccount
<1>3. end \in Seq(Code) /\ Len(end) = 1 /\ end[1] = 10
  BY DEF Code, Cvs!Newline
<1>4. Shown(a) = IF first THEN <<f>> ELSE << >>
  BY Zenon DEF Shown
<1> HIDE DEF line, pass, end
<1>5. /\ text \in Seq(Code) /\ Len(text) = Len(pass) + Len(end) /\ Len(pass) \in Nat
      /\ \A k \in 1..Len(pass) : text[k] = pass[k]
      /\ \A k \in 1..Len(end) : text[Len(pass) + k] = end[k]
  <2>1. pass \in Seq(Code) /\ end \in Seq(Code)
    BY <1>2, <1>3
  <2> QED
    BY <2>1, PlacesOfTwo
<1> HIDE DEF text
<1>6. text # << >>
  <2>1. text = << >> => Len(text) = 0
    OBVIOUS
  <2> QED
    BY <1>3, <1>5, <2>1
<1>7. text[1] > Cvs!Return <=> first
  <2>1. CASE pass = << >>
    <3>1. Len(pass) = 0
      BY <2>1
    <3>2. text[1] = 10
      <4>1. text[Len(pass) + 1] = end[1]
        BY <1>3, <1>5
      <4> QED
        BY <1>3, <3>1, <4>1
    <3> QED
      BY <2>1, <3>2 DEF Cvs!Return
  <2>2. CASE pass # << >>
    <3>1. 1 \in 1..Len(pass)
      BY <1>2, <2>2
    <3>2. text[1] = pass[1]
      BY <1>5, <3>1
    <3> QED
      BY <2>2, <3>2
  <2> QED
    BY <2>1, <2>2
<1>8. f # << >> /\ f[2] = r /\ r.known = TRUE /\ r.text = text
  OBVIOUS
<1> HIDE DEF f, r, first
<1>9. Cvs!IsShown(r) <=> first
  BY <1>6, <1>7, <1>8, Zenon DEF Cvs!IsShown
<1>10. Cvs!OfLine(line) = IF first THEN <<f>> ELSE << >>
  <2>1. Cvs!OfLine(line) = IF f # << >> /\ Cvs!IsShown(f[2]) THEN <<f>> ELSE << >>
    BY <1>1, Zenon DEF Cvs!OfLine
  <2>2. (f # << >> /\ Cvs!IsShown(f[2])) <=> first
    BY <1>8, <1>9, Zenon
  <2> QED
    BY <2>1, <2>2, Zenon
<1> QED
  BY <1>4, <1>10, Zenon DEF line

\* Nothing, put before or behind.
LEMMA EmptyBehind ==
  ASSUME NEW T, NEW s \in Seq(T)
  PROVE  s \o << >> = s /\ << >> \o s = s
BY ConcatEmptySeq

\* One account more in the file, behind what is before it.
LEMMA AccountAppend ==
  ASSUME CvsNumbers, NEW text \in Seq(Code), Whole(Cut(text)), NEW other, IsOther(other),
         NEW a, IsAccount(a), Fits(a)
  PROVE  /\ other \o Cvs!CvsLine(a) \in Seq(Code) /\ Shown(a) \in Seq(Report)
         /\ text \o (other \o Cvs!CvsLine(a)) \in Seq(Code)
         /\ Whole(Cut(text \o (other \o Cvs!CvsLine(a))))
         /\ Cvs!OfFile(text) \in Seq(Report)
              => Cvs!OfFile(text \o (other \o Cvs!CvsLine(a))) = Cvs!OfFile(text) \o Shown(a)
<1> DEFINE line == Cvs!CvsLine(a)
           start == text \o other
<1>1. IsLine(line)
  BY WrittenIsLine DEF Fits
<1>2. Cvs!OfLine(line) = Shown(a)
  BY AccountIsShown
<1> HIDE DEF line
<1>3. line \in Seq(Code) /\ other \in Seq(Code)
  <2>1. line \in Seq(Code) /\ << >> \in Seq(Code)
    BY <1>1 DEF IsLine
  <2>2. IsLine(other) => other \in Seq(Code)
    BY DEF IsLine
  <2> QED
    BY <2>1, <2>2 DEF IsOther
<1>4. Shown(a) \in Seq(Report)
  BY <1>2, <1>3, OfLineTypes
<1>5. /\ start \in Seq(Code) /\ Whole(Cut(start))
      /\ Cvs!OfFile(text) \in Seq(Report) => Cvs!OfFile(start) = Cvs!OfFile(text)
  <2>1. CASE other = << >>
    <3>1. start = text
      BY <2>1, EmptyBehind
    <3> QED
      BY <3>1
  <2>2. CASE other # << >>
    <3>1. IsLine(other) /\ TwoColons(other)
      BY <2>2 DEF IsOther
    <3>2. Cvs!OfLine(other) = << >>
      BY <1>3, <3>1, NoAccount
    <3>3. /\ start \in Seq(Code) /\ Whole(Cut(start))
          /\ Cvs!OfFile(start) = Cvs!OfFile(text) \o Cvs!OfLine(other)
      BY <1>3, <3>1, OfFileIs
    <3> QED
      BY <3>2, <3>3, EmptyBehind
  <2> QED
    BY <2>1, <2>2
<1>6. text \o (other \o line) = start \o line /\ other \o line \in Seq(Code)
  BY <1>3, ConcatAssociative, ConcatProperties
<1> HIDE DEF start
<1>7. /\ start \o line \in Seq(Code) /\ Whole(Cut(start \o line))
      /\ Cvs!OfFile(start \o line) = Cvs!OfFile(start) \o Cvs!OfLine(line)
  BY <1>1, <1>3, <1>5, OfFileIs
<1> QED
  BY <1>2, <1>4, <1>5, <1>6, <1>7 DEF line

\* All of them.
LEMMA AccountsAreShown ==
  ASSUME CvsNumbers, NEW A, NEW accounts \in Seq(A), NEW other, IsOther(other),
         \A a \in A : IsAccount(a) /\ Fits(a)
  PROVE  Cvs!OfFile(Cvs!Joined([k \in DOMAIN accounts |-> other \o Cvs!CvsLine(accounts[k])]))
           = Cvs!Joined([k \in DOMAIN accounts |-> Shown(accounts[k])])
<1> DEFINE written == [a \in A |-> other \o Cvs!CvsLine(a)]
           reports == [a \in A |-> Shown(a)]
           T(s) == Fix!Joined(Mapped(written, s))
           S(s) == Fix!Joined(Mapped(reports, s))
           Good(s) == /\ T(s) \in Seq(Code) /\ Whole(Cut(T(s)))
                      /\ S(s) \in Seq(Report) /\ Cvs!OfFile(T(s)) = S(s)
           P == {s \in Seq(A) : Good(s)}
<1>1. << >> \in Seq(Code) /\ Cut(<< >>) = << >> /\ Whole(Cut(<< >>))
  BY CutIs DEF Whole
<1>2. \A a \in A : other \o Cvs!CvsLine(a) \in Seq(Code) /\ Shown(a) \in Seq(Report)
  BY <1>1, AccountAppend
<1>3. /\ written \in [A -> Seq(Code)] /\ reports \in [A -> Seq(Report)]
      /\ \A a \in A : written[a] = other \o Cvs!CvsLine(a) /\ reports[a] = Shown(a)
  BY <1>2
<1> HIDE DEF written, reports
<1>4. /\ Mapped(written, << >>) = << >>
      /\ \A s \in Seq(A) : Mapped(written, s) \in Seq(Seq(Code))
      /\ \A s \in Seq(A), c \in A : Mapped(written, Append(s, c)) = Append(Mapped(written, s), written[c])
  <2> DEFINE U == Seq(Code)
  <2>1. written \in [A -> U]
    BY <1>3
  <2> HIDE DEF U
  <2>2. /\ Mapped(written, << >>) = << >>
        /\ \A s \in Seq(A) : Mapped(written, s) \in Seq(U)
        /\ \A s \in Seq(A), c \in A :
             Mapped(written, Append(s, c)) = Append(Mapped(written, s), written[c])
    BY <2>1, MappedIs
  <2> QED
    BY <2>2 DEF U
<1>5. /\ Mapped(reports, << >>) = << >>
      /\ \A s \in Seq(A) : Mapped(reports, s) \in Seq(Seq(Report))
      /\ \A s \in Seq(A), c \in A : Mapped(reports, Append(s, c)) = Append(Mapped(reports, s), reports[c])
  <2> DEFINE U == Seq(Report)
  <2>1. reports \in [A -> U]
    BY <1>3
  <2> HIDE DEF U
  <2>2. /\ Mapped(reports, << >>) = << >>
        /\ \A s \in Seq(A) : Mapped(reports, s) \in Seq(U)
        /\ \A s \in Seq(A), c \in A :
             Mapped(reports, Append(s, c)) = Append(Mapped(reports, s), reports[c])
    BY <2>1, MappedIs
  <2> QED
    BY <2>2 DEF U
<1>6. << >> \in P
  <2>1. T(<< >>) = << >> /\ S(<< >>) = << >>
    BY <1>4, <1>5, JoinedAppend
  <2>2. << >> \in Seq(A) /\ << >> \in Seq(Report)
    OBVIOUS
  <2>3. Cvs!OfFile(<< >>) = << >>
    BY OfFileIs
  <2> QED
    BY <1>1, <2>1, <2>2, <2>3
<1>7. ASSUME NEW s \in Seq(A), NEW a \in A, s \in P PROVE Append(s, a) \in P
  <2> DEFINE t == Append(s, a)
  <2>1. t \in Seq(A)
    OBVIOUS
  <2>2. T(t) = T(s) \o (other \o Cvs!CvsLine(a))
    <3>1. Mapped(written, t) = Append(Mapped(written, s), other \o Cvs!CvsLine(a))
      BY <1>3, <1>4
    <3>2. Mapped(written, s) \in Seq(Seq(Code)) /\ other \o Cvs!CvsLine(a) \in Seq(Code)
      BY <1>2, <1>4
    <3> HIDE DEF t
    <3> QED
      BY <3>1, <3>2, JoinedAppend
  <2>3. S(t) = S(s) \o Shown(a)
    <3>1. Mapped(reports, t) = Append(Mapped(reports, s), Shown(a))
      BY <1>3, <1>5
    <3>2. Mapped(reports, s) \in Seq(Seq(Report)) /\ Shown(a) \in Seq(Report)
      BY <1>2, <1>5
    <3> HIDE DEF t
    <3> QED
      BY <3>1, <3>2, JoinedAppend
  <2>4. Good(s)
    BY <1>7
  <2> HIDE DEF t, T, S
  <2>5. S(t) \in Seq(Report)
    BY <1>2, <2>3, <2>4, ConcatProperties
  <2>6. T(t) \in Seq(Code) /\ Whole(Cut(T(t))) /\ Cvs!OfFile(T(t)) = S(t)
    BY <2>2, <2>3, <2>4, AccountAppend
  <2> QED
    BY <2>1, <2>5, <2>6 DEF t
<1>8. Good(accounts)
  <2>1. \A s \in Seq(A) : s \in P
    <3> HIDE DEF P
    <3> QED
      BY <1>6, <1>7, SeqInduction
  <2> HIDE DEF Good
  <2> QED
    BY <2>1
<1>9. \A k \in DOMAIN accounts : accounts[k] \in A
  OBVIOUS
<1>10. Mapped(written, accounts) = [k \in DOMAIN accounts |-> other \o Cvs!CvsLine(accounts[k])]
  BY <1>3, <1>9 DEF Mapped
<1>11. Mapped(reports, accounts) = [k \in DOMAIN accounts |-> Shown(accounts[k])]
  BY <1>3, <1>9 DEF Mapped
<1> QED
  BY <1>8, <1>10, <1>11, CvsJoined

\* CvspwdReports, of the inputs that Tools describes.
LEMMA CvspwdRight ==
  ASSUME CvsNumbers, NEW accounts, IsSeq(accounts), NEW other, IsOther(other),
         \A k \in DOMAIN accounts : IsAccount(accounts[k])
  PROVE  Cvs!CvspwdReports(accounts, other)
<1> DEFINE A == {accounts[k] : k \in DOMAIN accounts}
           fit == \A k \in DOMAIN accounts :
                    /\ Len(Cvs!CvsLine(accounts[k])) < BufSize
                    /\ \A j \in DOMAIN accounts[k].path : accounts[k].path[j] # Cvs!Blank
           lines == Cvs!Joined([k \in DOMAIN accounts |-> other \o Cvs!CvsLine(accounts[k])])
<1>1. accounts \in Seq(A)
  BY DEF IsSeq
<1>2. ASSUME fit PROVE Cvs!OfFile(lines) = Cvs!Joined([k \in DOMAIN accounts |-> Shown(accounts[k])])
  <2>1. \A a \in A : IsAccount(a) /\ Fits(a)
    <3>1. \A k \in DOMAIN accounts : IsAccount(accounts[k]) /\ Fits(accounts[k])
      BY <1>2 DEF Fits
    <3> QED
      BY <3>1
  <2> HIDE DEF A
  <2> QED
    BY <1>1, <2>1, AccountsAreShown
<1>3. ASSUME NEW k \in DOMAIN accounts
      PROVE  Cvs!OfArgument(Cvs!Scramble(accounts[k].pass)) = [known |-> TRUE, text |-> accounts[k].pass]
  <2>1. accounts[k].pass \in Seq(Code)
    BY DEF IsAccount
  <2> QED
    BY <2>1, Unscrambled
<1> QED
  BY <1>2, <1>3, Zenon DEF Cvs!CvspwdReports, Shown

----------------------------------------------------------------------------
(* The tools together.                                                     *)

\* A tool is given one of its inputs.
TextInputInv ==
  /\ input.tool = "hexvert" => input.of \in HexInputs
  /\ input.tool = "pod" => input.of \in PodInputs
  /\ input.tool = "fixlines" => input.of \in FixInputs
  /\ input.tool = "cvspwd" => input.of \in CvspwdInputs

LEMMA RunInput ==
  ASSUME NEW tool, NEW inputs, Run(tool, inputs)
  PROVE  input'.tool = tool /\ input'.of \in inputs
BY DEF Run

LEMMA TextInputIs == ToolsSpec => []TextInputInv
<1>1. ToolsInit => TextInputInv
  BY DEF ToolsInit, TextInputInv
<1>2. TextInputInv /\ [ToolsNext]_input => TextInputInv'
  <2> SUFFICES ASSUME TextInputInv, [ToolsNext]_input PROVE TextInputInv'
    OBVIOUS
  <2>1. CASE ToolsNext
    BY <2>1, RunInput DEF ToolsNext, TextInputInv
  <2>2. CASE UNCHANGED input
    BY <2>2 DEF TextInputInv
  <2> QED
    BY <2>1, <2>2
<1> QED
  BY <1>1, <1>2, PTL DEF ToolsSpec

\* hexvert.c, pod.c and fixlines: for any lines and any width of an int, any
\* bytes and any length of a row, and any text, what they print can be turned
\* back, and hexvert stops at the first line without a number.
THEOREM ConvertersAlwaysInvert == ToolsSpec => []ConvertersInvert
<1>1. TextInputInv => ConvertersInvert
  <2>1. ASSUME TextInputInv, input.tool = "hexvert" PROVE Hex!HexvertInverts(input.of)
    BY <2>1, ConvertersAssumption, HexRight DEF TextInputInv, Text
  <2>2. ASSUME TextInputInv, input.tool = "pod" PROVE Od!PodShowsAll(input.of)
    BY <2>2, ConvertersAssumption, PodRight DEF TextInputInv
  <2>3. ASSUME TextInputInv, input.tool = "fixlines" PROVE Fix!FixlinesInverts(input.of)
    BY <2>3, ConvertersAssumption, FixRight DEF TextInputInv
  <2> QED
    BY <2>1, <2>2, <2>3 DEF ConvertersInvert
<1> QED
  BY <1>1, TextInputIs, PTL

\* cvspwd.c: for any accounts in the file, any passwords and any size of the
\* buffer, every account comes out with its user and its password, in order,
\* and nothing else does.
THEOREM CvspwdAlwaysReports == ToolsSpec => []CvspwdReports
<1>1. TextInputInv => CvspwdReports
  <2> SUFFICES ASSUME TextInputInv, input.tool = "cvspwd"
               PROVE  Cvs!CvspwdReports(input.of.accounts, input.of.other)
    BY DEF CvspwdReports
  <2>1. input.of \in CvspwdInputs
    BY DEF TextInputInv
  <2> QED
    BY <2>1, CvspwdAssumption, CvspwdRight
<1> QED
  BY <1>1, TextInputIs, PTL
============================================================================
