-------------------------- MODULE MmapTestsProofs --------------------------
(***************************************************************************)
(* Theorems about MmapTests, for every kernel, with or without failing     *)
(* forks, and whatever lies in the memory that nobody initialises: parent  *)
(* and child take turns, no signal comes astray, no line comes twice, and  *)
(* every verdict is true and none is missing.                              *)
(***************************************************************************)
EXTENDS MmapTests, SequenceTheorems, TLAPS

\* pc is a function of the two processes.
PcInv == pc \in [Procs -> ParentStates \cup ChildStates]

\* The rounds end with the sixth.
RoundInv ==
  /\ pc["parent"] \in {"exit", "gone"} <=> round = Len(Rounds) + 1
  /\ pc["parent"] \notin {"setup", "exit", "gone"} => kernel[round] # "refused"

\* Exactly one signal is under way to p; none has reached p.
Signalled(p) == (p \in pending) # (caught[p] = 1)
Unsignalled(p) == p \notin pending /\ caught[p] = 0

\* Where the one signal between the two is: it says whose turn it is.  The
\* parent's counter may be left over from its second wait on.
SignalInv ==
  /\ mode["parent"] # "running" => pc["parent"] \in {"wait1", "wait2"}
  /\ mode["child"] # "running" => pc["child"] = "wait"
  /\ pc["parent"] \in {"setup", "enter", "fork", "read", "finish", "exit", "gone"} =>
       pc["child"] = "none" /\ "parent" \notin pending /\ Unsignalled("child")
  /\ pc["parent"] = "fork" => Unsignalled("parent")
  /\ pc["parent"] = "wait1" =>
       /\ pc["child"] \in {"inherit", "notify", "wait"}
       /\ IF pc["child"] = "wait" THEN Signalled("parent") ELSE Unsignalled("parent")
       /\ Unsignalled("child")
  /\ pc["parent"] \in {"write", "kill"} =>
       pc["child"] = "wait" /\ Unsignalled("parent") /\ Unsignalled("child")
  /\ pc["parent"] = "wait2" =>
       /\ pc["child"] \in {"wait", "read", "write", "flush", "kill", "none"}
       /\ IF pc["child"] = "none" THEN Signalled("parent") ELSE Unsignalled("parent")
       /\ IF pc["child"] = "wait" THEN Signalled("child") ELSE Unsignalled("child")

\* What is known of the processes, without what they print.
ControlInv == MmapTypeOK /\ PcInv /\ RoundInv /\ SignalInv

----------------------------------------------------------------------------
(* What is in the pages, in the file and in the buffers.                   *)

Forking == {"wait1", "write", "kill", "wait2", "read"}

ForkedInv ==
  /\ \A r \in forked : r <= round
  /\ pc["parent"] \in {"setup", "enter", "fork"} => round \notin forked
  /\ pc["parent"] \in Forking => round \in forked

\* Who has written last into the page of the parent, and of the child.
PageInv ==
  /\ pc["parent"] = "fork" => page["parent"] = "inherit"
  /\ pc["child"] = "inherit" =>
       page["child"] = IF kernel[round] = "fresh" THEN "nothing" ELSE "inherit"
  /\ pc["child"] \in {"inherit", "notify", "wait", "read"} /\ ~Shared => page["child"] # "parent"
  /\ pc["parent"] \in {"fork"} \cup Forking /\ ~Shared => page["parent"] # "child"
  /\ pc["parent"] \in {"kill", "wait2"} /\ pc["child"] \in {"wait", "read"} /\ Shared =>
       page["child"] = "parent"
  /\ pc["parent"] \in {"wait2", "read"} /\ pc["child"] \in {"flush", "kill", "none"} /\ Shared =>
       page["parent"] = "child"

\* The file has not been given its last content before the end of the round.
FileInv ==
  pc["parent"] \notin {"setup", "exit", "gone"} /\ Medium = "file" => file # "magic2"

\* While there is a child, the parent's buffer is empty; the child's is empty
\* as long as it has said nothing, and when it ends.
BufInv ==
  /\ pc["parent"] \in {"fork"} \cup Forking => buf["parent"] = << >>
  /\ pc["child"] \in {"none", "inherit", "kill"} => buf["child"] = << >>

DataInv == ForkedInv /\ PageInv /\ FileInv /\ BufInv

----------------------------------------------------------------------------
(* What has been said.                                                     *)

AllLines == out \o buf["parent"] \o buf["child"]

SaidOf(r) == {w \in Whats : <<r, w>> \in Printed(AllLines)}

\* What has been said about the mapping of this round.
InheritTold    == round \in forked /\ pc["child"] # "inherit"
ChildReadTold  == round \in forked /\ pc["child"] \in {"write", "flush", "kill", "none"}
ParentReadTold == round \in forked /\ pc["parent"] = "finish"

SoFar ==
  IF pc["parent"] = "setup" THEN {}
  ELSE {"READ"}
    \cup (IF InheritTold /\ kernel[round] # "fresh" THEN {"INHERIT"} ELSE {})
    \cup (IF ChildReadTold /\ Shared THEN {"CHILD_READ"} ELSE {})
    \cup (IF ParentReadTold /\ Shared THEN {"PARENT_READ"} ELSE {})

SaidInv ==
  \A r \in DOMAIN Rounds :
    /\ r < round => SaidOf(r) \cap Decided = Deserved(r) \cap Decided
    /\ r = round => SaidOf(r) = SoFar
    /\ r > round => SaidOf(r) = {}

IInv == ControlInv /\ DataInv /\ SaidInv /\ NoLineTwice

----------------------------------------------------------------------------
(* The helpers of the model.                                               *)

Lines == (DOMAIN Rounds) \X Whats

LEMMA RoundsAre ==
  /\ Len(Rounds) = 6 /\ DOMAIN Rounds = 1..6
  /\ \A r \in 1..6 : Rounds[r][2] \in {"private", "shared"}
<1>1. Len(Rounds) = 6 /\ DOMAIN Rounds = 1..6
  BY DEF Rounds
<1>2. \A r \in 1..6 : r = 1 \/ r = 2 \/ r = 3 \/ r = 4 \/ r = 5 \/ r = 6
  OBVIOUS
<1>3. /\ Rounds[1][2] = "private" /\ Rounds[2][2] = "shared" /\ Rounds[3][2] = "private"
      /\ Rounds[4][2] = "shared" /\ Rounds[5][2] = "private" /\ Rounds[6][2] = "shared"
  BY DEF Rounds
<1> QED
  BY <1>1, <1>2, <1>3

LEMMA SayTypes ==
  ASSUME buf \in [Procs -> Seq(Lines)], round \in DOMAIN Rounds,
         NEW p \in Procs, NEW w \in Whats, NEW cond, SayIf(cond, p, w)
  PROVE  /\ buf' \in [Procs -> Seq(Lines)]
         /\ \A q \in Procs : q # p => buf'[q] = buf[q]
<1>1. CASE buf' = buf
  BY <1>1
<1>2. CASE buf' = [buf EXCEPT ![p] = Append(@, <<round, w>>)]
  <2>1. <<round, w>> \in Lines
    BY DEF Lines
  <2>2. Append(buf[p], <<round, w>>) \in Seq(Lines)
    BY <2>1
  <2> QED
    BY <1>2, <2>2
<1> QED
  BY <1>1, <1>2 DEF SayIf, Say

LEMMA FlushTypes ==
  ASSUME buf \in [Procs -> Seq(Lines)], out \in Seq(Lines), NEW p \in Procs, Flush(p)
  PROVE  buf' \in [Procs -> Seq(Lines)] /\ out' \in Seq(Lines)
<1>1. out \o buf[p] \in Seq(Lines) /\ << >> \in Seq(Lines)
  OBVIOUS
<1> QED
  BY <1>1 DEF Flush

LEMMA WriteTypes ==
  ASSUME page \in [Procs -> PageStrings], file \in PageStrings,
         NEW p \in Procs, NEW s \in PageStrings, Write(p, s)
  PROVE  page' \in [Procs -> PageStrings] /\ file' \in PageStrings
BY DEF Write

----------------------------------------------------------------------------
(* The processes take turns.                                               *)

LEMMA InitControl == MmapInit => ControlInv
<1> SUFFICES ASSUME MmapInit PROVE ControlInv
  OBVIOUS
<1>1. PcInv
  BY DEF MmapInit, PcInv, Procs, ParentStates, ChildStates
<1>2. /\ pc["parent"] = "setup" /\ pc["child"] = "none" /\ round = 1 /\ pending = {}
      /\ mode = [p \in Procs |-> "running"] /\ caught = [p \in Procs |-> 0]
      /\ kernel \in Kernels /\ tail \in Tails /\ file = "nothing" /\ out = << >>
      /\ page = [p \in Procs |-> "nothing"] /\ buf = [p \in Procs |-> << >>] /\ forked = {}
  BY DEF MmapInit
<1>3. MmapTypeOK
  BY <1>2, RoundsAre DEF MmapTypeOK, PageStrings, ParentStates, ChildStates
<1>4. RoundInv /\ SignalInv
  BY <1>2, RoundsAre DEF RoundInv, SignalInv, Unsignalled, Procs
<1> QED
  BY <1>1, <1>3, <1>4 DEF ControlInv

\* Who writes which string, who says which line, and who flushes its buffer.
LEMMA Writers ==
  ASSUME MmapNext
  PROVE  \/ UNCHANGED <<page, file>>
         \/ \E p \in Procs, s \in PageStrings : Write(p, s)
         \/ page' = [page EXCEPT !["parent"] = "magic"] /\ file' \in {"magic", file}
         \/ \E s \in PageStrings \cup {page["parent"]} :
              page' = [page EXCEPT !["child"] = s] /\ file' = file
BY DEF MmapNext, Parent, Child, Refused, Setup, Enter, Fork, ForkFails, ParentWait1,
       ParentWrite, ParentKill, ParentWait2, ParentRead, Finish, ParentExits, ChildInherit,
       ChildNotify, ChildWait, ChildRead, ChildWrite, ChildFlush, ChildKill, Catch, Pause,
       procs, lines, Wait, Procs, PageStrings

LEMMA Sayers ==
  ASSUME MmapNext
  PROVE  \/ UNCHANGED <<buf, out>>
         \/ \E p \in Procs, w \in Whats, cond \in BOOLEAN :
              pc[p] \notin {"none", "exit", "gone"} /\ SayIf(cond, p, w) /\ out' = out
         \/ \E p \in Procs : Flush(p)
         \/ buf' = [buf EXCEPT !["child"] = buf["parent"]] /\ out' = out
BY DEF MmapNext, Parent, Child, Refused, Setup, Enter, Fork, ForkFails, ParentWait1,
       ParentWrite, ParentKill, ParentWait2, ParentRead, Finish, ParentExits, ChildInherit,
       ChildNotify, ChildWait, ChildRead, ChildWrite, ChildFlush, ChildKill, Catch, Pause,
       procs, lines, Wait, Proceed, Procs, Whats, SayIf

LEMMA TypeStep == ControlInv /\ [MmapNext]_mmapVars => MmapTypeOK' /\ PcInv'
<1> SUFFICES ASSUME ControlInv, MmapNext PROVE MmapTypeOK' /\ PcInv'
  BY DEF ControlInv, MmapTypeOK, PcInv, mmapVars, procs, lines
<1>1. PcInv' /\ kernel' = kernel /\ tail' = tail
  BY DEF ControlInv, PcInv, Procs, ParentStates, ChildStates, Proceed, Wait, NextRound, MmapNext,
         Parent, Child, Refused, Setup, Enter, Fork, ForkFails, ParentWait1, ParentWrite,
         ParentKill, ParentWait2, ParentRead, Finish, ParentExits, ChildInherit, ChildNotify,
         ChildWait, ChildRead, ChildWrite, ChildFlush, ChildKill, Catch, Pause
<1>2. round' \in 1..(Len(Rounds) + 1)
  BY RoundsAre DEF ControlInv, MmapTypeOK, RoundInv, Proceed, Wait, NextRound, MmapNext, Parent, Child,
                   Refused, Setup, Enter, Fork, ForkFails, ParentWait1, ParentWrite,
                   ParentKill, ParentWait2, ParentRead, Finish, ParentExits, ChildInherit,
                   ChildNotify, ChildWait, ChildRead, ChildWrite, ChildFlush, ChildKill,
                   Catch, Pause
<1>3. pc'["parent"] \in ParentStates /\ pc'["child"] \in ChildStates
  BY DEF ControlInv, PcInv, MmapTypeOK, Procs, ParentStates, ChildStates, Proceed, Wait, NextRound,
         MmapNext, Parent, Child, Refused, Setup, Enter, Fork, ForkFails, ParentWait1,
         ParentWrite, ParentKill, ParentWait2, ParentRead, Finish, ParentExits, ChildInherit,
         ChildNotify, ChildWait, ChildRead, ChildWrite, ChildFlush, ChildKill, Catch, Pause
<1>4. mode' \in [Procs -> {"running", "pausing", "paused"}]
  BY DEF ControlInv, MmapTypeOK, Procs, Wait, procs, MmapNext, Parent, Child, Refused, Setup, Enter,
         Fork, ForkFails, ParentWait1, ParentWrite, ParentKill, ParentWait2, ParentRead,
         Finish, ParentExits, ChildInherit, ChildNotify, ChildWait, ChildRead, ChildWrite,
         ChildFlush, ChildKill, Catch, Pause
<1>5. pending' \subseteq Procs
  BY DEF ControlInv, MmapTypeOK, Procs, Wait, Kill, procs, MmapNext, Parent, Child, Refused, Setup,
         Enter, Fork, ForkFails, ParentWait1, ParentWrite, ParentKill, ParentWait2,
         ParentRead, Finish, ParentExits, ChildInherit, ChildNotify, ChildWait, ChildRead,
         ChildWrite, ChildFlush, ChildKill, Catch, Pause
<1>6. caught' \in [Procs -> 0..1]
  BY DEF ControlInv, MmapTypeOK, SignalInv, Signalled, Unsignalled, Procs, ParentStates,
         ChildStates, Wait, Kill, procs, MmapNext, Parent, Child, Refused, Setup, Enter, Fork,
         ForkFails, ParentWait1, ParentWrite, ParentKill, ParentWait2, ParentRead, Finish,
         ParentExits, ChildInherit, ChildNotify, ChildWait, ChildRead, ChildWrite, ChildFlush,
         ChildKill, Catch, Pause
<1>7. page' \in [Procs -> PageStrings] /\ file' \in PageStrings
  BY Writers, WriteTypes DEF ControlInv, MmapTypeOK, Procs, PageStrings
<1>8. buf' \in [Procs -> Seq(Lines)] /\ out' \in Seq(Lines)
  <2>1. buf \in [Procs -> Seq(Lines)] /\ out \in Seq(Lines)
    BY DEF ControlInv, MmapTypeOK, Lines
  <2>2. \A p \in Procs : pc[p] \notin {"none", "exit", "gone"} => round \in DOMAIN Rounds
    BY RoundsAre DEF ControlInv, MmapTypeOK, RoundInv, SignalInv, Procs, ChildStates
  <2> QED
    BY <2>1, <2>2, Sayers, SayTypes, FlushTypes DEF Procs
<1>9. forked' \subseteq DOMAIN Rounds
  BY RoundsAre DEF ControlInv, MmapTypeOK, RoundInv, Procs, Wait, lines, procs, MmapNext, Parent,
                   Child, Refused, Setup, Enter, Fork, ForkFails, ParentWait1, ParentWrite,
                   ParentKill, ParentWait2, ParentRead, Finish, ParentExits, ChildInherit,
                   ChildNotify, ChildWait, ChildRead, ChildWrite, ChildFlush, ChildKill,
                   Catch, Pause
<1> QED
  BY <1>1, <1>2, <1>3, <1>4, <1>5, <1>6, <1>7, <1>8, <1>9 DEF ControlInv, MmapTypeOK, Lines

LEMMA RoundStep == ControlInv /\ [MmapNext]_mmapVars => RoundInv'
<1> SUFFICES ASSUME ControlInv, [MmapNext]_mmapVars PROVE RoundInv'
  OBVIOUS
<1> USE RoundsAre DEF ControlInv, MmapTypeOK, PcInv, RoundInv, Procs
<1>1. CASE Refused \/ Finish
  BY <1>1 DEF Refused, Finish, Proceed, NextRound
<1>2. CASE Setup \/ Fork \/ ForkFails \/ ParentExits
  BY <1>2 DEF Setup, Fork, ForkFails, ParentExits, Proceed
<1>3. CASE \/ Enter \/ ParentWait1 \/ ParentWrite \/ ParentKill \/ ParentWait2 \/ ParentRead
  BY <1>3 DEF Enter, ParentWait1, ParentWrite, ParentKill, ParentWait2, ParentRead, Proceed,
              Wait
<1>4. CASE Child
  BY <1>4 DEF Child, ChildInherit, ChildNotify, ChildWait, ChildRead, ChildWrite,
              ChildFlush, ChildKill, Proceed, Wait
<1>5. CASE (\E p \in Procs : Catch(p) \/ Pause(p)) \/ UNCHANGED mmapVars
  BY <1>5 DEF Catch, Pause, mmapVars
<1> QED
  BY <1>1, <1>2, <1>3, <1>4, <1>5 DEF MmapNext, Parent

LEMMA SignalStep == ControlInv /\ [MmapNext]_mmapVars => SignalInv'
<1> SUFFICES ASSUME ControlInv, [MmapNext]_mmapVars PROVE SignalInv'
  OBVIOUS
<1> USE DEF ControlInv, MmapTypeOK, PcInv, RoundInv, SignalInv, Signalled, Unsignalled, Procs,
            ParentStates, ChildStates
<1>1. CASE Refused \/ Finish
  BY <1>1 DEF Refused, Finish, Proceed, NextRound, procs
<1>2. CASE Setup \/ ForkFails \/ ParentExits
  BY <1>2 DEF Setup, ForkFails, ParentExits, Proceed, procs
<1>3. CASE Enter
  BY <1>3 DEF Enter, Proceed
<1>4. CASE Fork
  BY <1>4 DEF Fork
<1>5. CASE ParentWait1
  BY <1>5 DEF ParentWait1, Wait
<1>6. CASE ParentWrite
  BY <1>6 DEF ParentWrite, Proceed, procs
<1>7. CASE ParentKill
  BY <1>7 DEF ParentKill, Proceed, Kill
<1>8. CASE ParentWait2
  BY <1>8 DEF ParentWait2, Wait
<1>9. CASE ParentRead
  BY <1>9 DEF ParentRead, Proceed, procs
<1>10. CASE ChildInherit \/ ChildRead \/ ChildWrite \/ ChildFlush
  BY <1>10 DEF ChildInherit, ChildRead, ChildWrite, ChildFlush, Proceed, procs
<1>11. CASE ChildNotify
  BY <1>11 DEF ChildNotify, Proceed, Kill
<1>12. CASE ChildWait
  BY <1>12 DEF ChildWait, Wait
<1>13. CASE ChildKill
  BY <1>13 DEF ChildKill, Proceed, Kill
<1>14. CASE \E p \in Procs : Catch(p)
  <2>1. CASE Catch("parent")
    BY <2>1 DEF Catch
  <2>2. CASE Catch("child")
    BY <2>2 DEF Catch
  <2> QED
    BY <1>14, <2>1, <2>2
<1>15. CASE \E p \in Procs : Pause(p)
  BY <1>15 DEF Pause
<1>16. CASE UNCHANGED mmapVars
  BY <1>16 DEF mmapVars, procs
<1> QED
  BY <1>1, <1>2, <1>3, <1>4, <1>5, <1>6, <1>7, <1>8, <1>9, <1>10, <1>11, <1>12, <1>13,
     <1>14, <1>15, <1>16 DEF MmapNext, Parent, Child

LEMMA SpecControl == MmapSpec => []ControlInv
<1>1. ControlInv /\ [MmapNext]_mmapVars => ControlInv'
  BY TypeStep, RoundStep, SignalStep DEF ControlInv
<1> QED
  BY <1>1, InitControl, PTL DEF MmapSpec

\* mmap-tests.c: the kernel's answers, the two processes, the pages and the
\* lines keep their types; the counter of signals never passes one.
THEOREM TypeCorrect == MmapSpec => []MmapTypeOK
<1>1. ControlInv => MmapTypeOK
  BY DEF ControlInv
<1> QED
  BY <1>1, SpecControl, PTL

\* test_child: one of the two reads and writes while the other waits for its
\* signal, wherever the signals arrive.
THEOREM TheyTakeTurns == MmapSpec => []TakesTurns
<1>1. ControlInv => TakesTurns
  BY DEF ControlInv, MmapTypeOK, SignalInv, Signalled, Unsignalled, TakesTurns, ParentStates,
         ChildStates, Procs
<1> QED
  BY <1>1, SpecControl, PTL

\* main: no signal is under way to the parent when SIGINT kills it.
THEOREM NoSignalAstray == MmapSpec => []NoStraySignal
<1>1. ControlInv => NoStraySignal
  BY DEF ControlInv, SignalInv, NoStraySignal
<1> QED
  BY <1>1, SpecControl, PTL

----------------------------------------------------------------------------
(* The pages, the file and the buffers.                                    *)

LEMMA InitData == MmapInit => DataInv
<1> SUFFICES ASSUME MmapInit PROVE DataInv
  OBVIOUS
<1>1. pc["parent"] = "setup" /\ pc["child"] = "none" /\ forked = {} /\ buf["child"] = << >>
  BY DEF MmapInit, Procs
<1> QED
  BY <1>1 DEF DataInv, ForkedInv, PageInv, FileInv, BufInv, Forking

LEMMA DataStep == ControlInv /\ DataInv /\ [MmapNext]_mmapVars => DataInv'
<1> SUFFICES ASSUME ControlInv, DataInv, MmapNext PROVE DataInv'
  BY DEF DataInv, ForkedInv, PageInv, FileInv, BufInv, Forking, Medium, Shared, mmapVars,
         procs, lines
<1> USE DEF ControlInv, MmapTypeOK, PcInv, SignalInv, DataInv, Procs, Forking
<1>1. ForkedInv'
  <2> USE DEF ForkedInv
  <2>1. CASE Refused \/ Finish
    <3>1. round' = round + 1 /\ round \in Int /\ forked' = forked /\ \A r \in forked : r \in Int
      BY <2>1, RoundsAre DEF Refused, Finish, lines, procs
    <3>2. pc'["parent"] \in {"setup", "exit"}
      BY <2>1 DEF Refused, Finish, Proceed, NextRound
    <3>3. (\A r \in forked : r <= round + 1) /\ round + 1 \notin forked
      BY <3>1
    <3> QED
      BY <3>1, <3>2, <3>3
  <2>2. CASE Fork
    BY <2>2, RoundsAre DEF Fork
  <2>3. CASE \/ Setup \/ Enter \/ ForkFails \/ ParentWait1 \/ ParentWrite \/ ParentKill
             \/ ParentWait2 \/ ParentRead \/ ParentExits \/ Child
    BY <2>3 DEF Setup, Enter, ForkFails, ParentWait1, ParentWrite, ParentKill, ParentWait2,
                ParentRead, ParentExits, Child, ChildInherit, ChildNotify, ChildWait, ChildRead,
                ChildWrite, ChildFlush, ChildKill, Proceed, Wait, lines, procs
  <2>4. CASE \E p \in Procs : Catch(p) \/ Pause(p)
    BY <2>4 DEF Catch, Pause
  <2> QED
    BY <2>1, <2>2, <2>3, <2>4 DEF MmapNext, Parent
<1>2. PageInv'
  <2> USE DEF PageInv, Shared, Medium, ParentStates, ChildStates

  <2>1. CASE Refused
    BY <2>1 DEF Refused, Proceed, Wait, NextRound, Write, Flush, lines, procs
  <2>2. CASE Setup
    BY <2>2 DEF Setup, Proceed, Wait, NextRound, Write, Flush, lines, procs
  <2>3. CASE Enter
    BY <2>3 DEF Enter, Proceed, Wait, NextRound, Write, Flush, lines, procs
  <2>4. CASE Fork
    BY <2>4 DEF Fork, Proceed, Wait, NextRound, Write, Flush, lines, procs
  <2>5. CASE ForkFails
    BY <2>5 DEF ForkFails, Proceed, Wait, NextRound, Write, Flush, lines, procs
  <2>6. CASE ParentWait1
    BY <2>6 DEF ParentWait1, Proceed, Wait, NextRound, Write, Flush, lines, procs
  <2>7. CASE ParentWrite
    BY <2>7 DEF ParentWrite, Proceed, Wait, NextRound, Write, Flush, lines, procs
  <2>8. CASE ParentKill
    BY <2>8 DEF ParentKill, Proceed, Wait, NextRound, Write, Flush, lines, procs
  <2>9. CASE ParentWait2
    BY <2>9 DEF ParentWait2, Proceed, Wait, NextRound, Write, Flush, lines, procs
  <2>10. CASE ParentRead
    BY <2>10 DEF ParentRead, Proceed, Wait, NextRound, Write, Flush, lines, procs
  <2>11. CASE Finish
    BY <2>11 DEF Finish, Proceed, Wait, NextRound, Write, Flush, lines, procs
  <2>12. CASE ParentExits
    BY <2>12 DEF ParentExits, Proceed, Wait, NextRound, Write, Flush, lines, procs
  <2>13. CASE ChildInherit
    BY <2>13 DEF ChildInherit, Proceed, Wait, NextRound, Write, Flush, lines, procs
  <2>14. CASE ChildNotify
    BY <2>14 DEF ChildNotify, Proceed, Wait, NextRound, Write, Flush, lines, procs
  <2>15. CASE ChildWait
    BY <2>15 DEF ChildWait, Proceed, Wait, NextRound, Write, Flush, lines, procs
  <2>16. CASE ChildRead
    BY <2>16 DEF ChildRead, Proceed, Wait, NextRound, Write, Flush, lines, procs
  <2>17. CASE ChildWrite
    BY <2>17 DEF ChildWrite, Proceed, Wait, NextRound, Write, Flush, lines, procs
  <2>18. CASE ChildFlush
    BY <2>18 DEF ChildFlush, Proceed, Wait, NextRound, Write, Flush, lines, procs
  <2>19. CASE ChildKill
    BY <2>19 DEF ChildKill, Proceed, Wait, NextRound, Write, Flush, lines, procs
  <2>20. CASE \E p \in Procs : Catch(p) \/ Pause(p)
    BY <2>20 DEF Catch, Pause
  <2> QED
    BY <2>1, <2>2, <2>3, <2>4, <2>5, <2>6, <2>7, <2>8, <2>9, <2>10, <2>11, <2>12, <2>13,
     <2>14, <2>15, <2>16, <2>17, <2>18, <2>19, <2>20 DEF MmapNext, Parent, Child
<1>3. FileInv'
  BY DEF FileInv, Medium, Proceed, Wait, NextRound, Write, lines, procs, MmapNext, Parent, Child,
         Refused, Setup, Enter, Fork, ForkFails, ParentWait1, ParentWrite, ParentKill,
         ParentWait2, ParentRead, Finish, ParentExits, ChildInherit, ChildNotify, ChildWait,
         ChildRead, ChildWrite, ChildFlush, ChildKill, Catch, Pause
<1>4. BufInv'
  <2> USE DEF BufInv, Proceed, Wait, NextRound, SayIf, Say, Flush, lines, procs
  <2>1. CASE Refused \/ Setup \/ Enter \/ Fork \/ ForkFails
    BY <2>1 DEF Refused, Setup, Enter, Fork, ForkFails
  <2>2. CASE ParentWait1 \/ ParentWrite \/ ParentKill \/ ParentWait2
    BY <2>2 DEF ParentWait1, ParentWrite, ParentKill, ParentWait2
  <2>3. CASE ParentRead \/ Finish \/ ParentExits
    BY <2>3 DEF ParentRead, Finish, ParentExits
  <2>4. CASE ChildInherit \/ ChildNotify \/ ChildWait \/ ChildRead
    BY <2>4 DEF ChildInherit, ChildNotify, ChildWait, ChildRead
  <2>5. CASE ChildWrite \/ ChildFlush \/ ChildKill
    BY <2>5 DEF ChildWrite, ChildFlush, ChildKill
  <2>6. CASE \E p \in Procs : Catch(p) \/ Pause(p)
    BY <2>6 DEF Catch, Pause
  <2> QED
    BY <2>1, <2>2, <2>3, <2>4, <2>5, <2>6 DEF MmapNext, Parent, Child
<1> QED
  BY <1>1, <1>2, <1>3, <1>4

----------------------------------------------------------------------------
(* Sequences of lines.                                                     *)

Distinct(s) == \A j, k \in DOMAIN s : s[j] = s[k] => j = k

LEMMA NewLine ==
  ASSUME NEW S, NEW s \in Seq(S), NEW e \in S
  PROVE  /\ Printed(Append(s, e)) = Printed(s) \cup {e}
         /\ Distinct(s) /\ e \notin Printed(s) => Distinct(Append(s, e))
<1>1. /\ Len(s) \in Nat /\ DOMAIN s = 1..Len(s) /\ DOMAIN Append(s, e) = 1..(Len(s) + 1)
      /\ \A i \in 1..Len(s) : Append(s, e)[i] = s[i]
      /\ Append(s, e)[Len(s) + 1] = e
  BY AppendProperties, LenProperties
<1>2. 1..(Len(s) + 1) = 1..Len(s) \cup {Len(s) + 1}
  BY <1>1
<1>3. Printed(Append(s, e)) = Printed(s) \cup {e}
  BY <1>1, <1>2 DEF Printed
<1>4. ASSUME Distinct(s), e \notin Printed(s) PROVE Distinct(Append(s, e))
  <2>1. \A i \in 1..Len(s) : s[i] # e
    BY <1>1, <1>4 DEF Printed
  <2>2. \A j, k \in 1..Len(s) : s[j] = s[k] => j = k
    BY <1>1, <1>4 DEF Distinct
  <2> SUFFICES ASSUME NEW j \in 1..(Len(s) + 1), NEW k \in 1..(Len(s) + 1),
                      Append(s, e)[j] = Append(s, e)[k]
               PROVE  j = k
    BY <1>1 DEF Distinct
  <2>3. j \in 1..Len(s) /\ k \in 1..Len(s) => j = k
    BY <1>1, <2>2
  <2>4. j \in 1..Len(s) /\ k = Len(s) + 1 => FALSE
    BY <1>1, <2>1
  <2>5. k \in 1..Len(s) /\ j = Len(s) + 1 => FALSE
    BY <1>1, <2>1
  <2> QED
    BY <1>2, <2>3, <2>4, <2>5
<1> QED
  BY <1>3, <1>4

\* A line that p says while the other's buffer is empty comes last; a flush
\* while the other's buffer is empty moves no line.
LEMMA LastLine ==
  ASSUME NEW S, NEW s \in Seq(S), NEW t \in Seq(S), NEW e \in S
  PROVE  /\ s \o Append(t, e) \o << >> = Append(s \o t \o << >>, e)
         /\ s \o << >> \o Append(t, e) = Append(s \o << >> \o t, e)
<1>1. /\ s \o t \in Seq(S) /\ Append(t, e) \in Seq(S) /\ s \o Append(t, e) \in Seq(S)
      /\ <<e>> \in Seq(S)
  BY AppendProperties, ConcatProperties
<1>2. s \o Append(t, e) = Append(s \o t, e)
  BY <1>1, AppendIsConcat, ConcatAssociative
<1>3. \A u \in Seq(S) : u \o << >> = u
  BY ConcatEmptySeq
<1> QED
  BY <1>1, <1>2, <1>3

LEMMA PrintedConcat ==
  ASSUME NEW S, NEW s \in Seq(S), NEW t \in Seq(S)
  PROVE  Printed(s \o t) = Printed(s) \cup Printed(t)
<1>1. /\ Len(s) \in Nat /\ Len(t) \in Nat /\ DOMAIN s = 1..Len(s) /\ DOMAIN t = 1..Len(t)
      /\ s \o t \in Seq(S) /\ Len(s \o t) = Len(s) + Len(t)
      /\ DOMAIN (s \o t) = 1..(Len(s) + Len(t))
      /\ \A i \in 1..(Len(s) + Len(t)) :
           (s \o t)[i] = IF i <= Len(s) THEN s[i] ELSE t[i - Len(s)]
  BY ConcatProperties, LenProperties
<1>2. ASSUME NEW x \in Printed(s \o t) PROVE x \in Printed(s) \cup Printed(t)
  <2>1. PICK i \in 1..(Len(s) + Len(t)) : x = (s \o t)[i]
    BY <1>1 DEF Printed
  <2>2. i <= Len(s) => i \in 1..Len(s)
    BY <1>1
  <2>3. ~(i <= Len(s)) => i - Len(s) \in 1..Len(t)
    BY <1>1
  <2> QED
    BY <1>1, <2>1, <2>2, <2>3 DEF Printed
<1>3. ASSUME NEW x \in Printed(s) PROVE x \in Printed(s \o t)
  <2>1. PICK i \in 1..Len(s) : x = s[i]
    BY <1>1 DEF Printed
  <2>2. i \in 1..(Len(s) + Len(t)) /\ i <= Len(s)
    BY <1>1
  <2> QED
    BY <1>1, <2>1, <2>2 DEF Printed
<1>4. ASSUME NEW x \in Printed(t) PROVE x \in Printed(s \o t)
  <2>1. PICK i \in 1..Len(t) : x = t[i]
    BY <1>1 DEF Printed
  <2>2. /\ i + Len(s) \in 1..(Len(s) + Len(t)) /\ ~(i + Len(s) <= Len(s))
        /\ (i + Len(s)) - Len(s) = i
    BY <1>1
  <2>3. (s \o t)[i + Len(s)] = t[i]
    BY <1>1, <2>2
  <2> QED
    BY <1>1, <2>1, <2>2, <2>3 DEF Printed
<1> QED
  BY <1>2, <1>3, <1>4

LEMMA NoLines ==
  ASSUME NEW S, NEW s \in Seq(S), NEW t \in Seq(S)
  PROVE  /\ (s \o t) \o << >> \o << >> = s \o t \o << >>
         /\ (s \o t) \o << >> \o << >> = s \o << >> \o t
<1>1. s \o t \in Seq(S)
  BY ConcatProperties
<1>2. \A u \in Seq(S) : u \o << >> = u
  BY ConcatEmptySeq
<1> QED
  BY <1>1, <1>2

LEMMA AllLinesTyped ==
  ASSUME ControlInv
  PROVE  /\ out \in Seq(Lines) /\ buf["parent"] \in Seq(Lines) /\ buf["child"] \in Seq(Lines)
         /\ AllLines \in Seq(Lines)
<1>1. out \in Seq(Lines) /\ buf["parent"] \in Seq(Lines) /\ buf["child"] \in Seq(Lines)
  BY DEF ControlInv, MmapTypeOK, Lines, Procs
<1> QED
  BY <1>1, ConcatProperties DEF AllLines

\* A step of the two writes no line, or it says one about this round.
Says(w) == AllLines' = Append(AllLines, <<round, w>>)
SaysNothing == AllLines' = AllLines

LEMMA SayAddsLine ==
  ASSUME ControlInv, NEW p \in Procs, buf[Other(p)] = << >>, NEW w, NEW cond,
         round \in DOMAIN Rounds, w \in Whats, SayIf(cond, p, w), out' = out
  PROVE  IF cond THEN Says(w) ELSE SaysNothing
<1>1. /\ <<round, w>> \in Lines
      /\ out \in Seq(Lines) /\ buf["parent"] \in Seq(Lines) /\ buf["child"] \in Seq(Lines)
  BY AllLinesTyped DEF Lines
<1>2. CASE ~cond
  BY <1>2 DEF SayIf, SaysNothing, AllLines
<1>3. CASE cond /\ p = "parent"
  <2>1. /\ buf'["parent"] = Append(buf["parent"], <<round, w>>)
        /\ buf["child"] = << >> /\ buf'["child"] = << >>
    BY <1>3 DEF SayIf, Say, Other, ControlInv, MmapTypeOK, Procs
  <2>2. out \o Append(buf["parent"], <<round, w>>) \o << >>
        = Append(out \o buf["parent"] \o << >>, <<round, w>>)
    BY <1>1, LastLine
  <2> QED
    BY <1>3, <2>1, <2>2 DEF Says, AllLines
<1>4. CASE cond /\ p = "child"
  <2>1. /\ buf'["child"] = Append(buf["child"], <<round, w>>)
        /\ buf["parent"] = << >> /\ buf'["parent"] = << >>
    BY <1>4 DEF SayIf, Say, Other, ControlInv, MmapTypeOK, Procs
  <2>2. out \o << >> \o Append(buf["child"], <<round, w>>)
        = Append(out \o << >> \o buf["child"], <<round, w>>)
    BY <1>1, LastLine
  <2> QED
    BY <1>4, <2>1, <2>2 DEF Says, AllLines
<1> QED
  BY <1>2, <1>3, <1>4 DEF Procs

LEMMA FlushMovesNone ==
  ASSUME ControlInv, NEW p \in Procs, buf[Other(p)] = << >>, Flush(p)
  PROVE  SaysNothing
<1>1. out \in Seq(Lines) /\ buf["parent"] \in Seq(Lines) /\ buf["child"] \in Seq(Lines)
  BY AllLinesTyped
<1>2. /\ (out \o buf["parent"]) \o << >> \o << >> = out \o buf["parent"] \o << >>
      /\ (out \o buf["child"]) \o << >> \o << >> = out \o << >> \o buf["child"]
  BY <1>1, NoLines
<1>3. buf'["parent"] = << >> /\ buf'["child"] = << >>
  BY DEF Flush, Other, ControlInv, MmapTypeOK, Procs
<1> QED
  BY <1>2, <1>3 DEF Flush, SaysNothing, AllLines, Other, Procs

----------------------------------------------------------------------------
(* What has been said is what the kernel deserves.                         *)

\* A step that says w about this round if cond holds, and nothing else.
SaysIf(cond, w) == IF cond THEN Says(w) ELSE SaysNothing

LEMMA SaidGrows ==
  ASSUME ControlInv, NEW w \in Whats, NEW cond, round \in DOMAIN Rounds, SaysIf(cond, w)
  PROVE  /\ \A r \in DOMAIN Rounds :
              SaidOf(r)' = IF cond /\ r = round THEN SaidOf(r) \cup {w} ELSE SaidOf(r)
         /\ NoLineTwice /\ (cond => w \notin SaidOf(round)) => NoLineTwice'
<1>1. AllLines \in Seq(Lines) /\ <<round, w>> \in Lines
  BY AllLinesTyped DEF Lines
<1>2. (NoLineTwice <=> Distinct(AllLines)) /\ (NoLineTwice' <=> Distinct(AllLines'))
  BY DEF NoLineTwice, Distinct, AllLines
<1>3. \A r, x : x \in SaidOf(r)' <=> x \in Whats /\ <<r, x>> \in Printed(AllLines')
  BY DEF SaidOf, Printed
<1>4. CASE cond
  <2>1. AllLines' = Append(AllLines, <<round, w>>)
    BY <1>4 DEF SaysIf, Says
  <2>2. /\ Printed(AllLines') = Printed(AllLines) \cup {<<round, w>>}
        /\ Distinct(AllLines) /\ <<round, w>> \notin Printed(AllLines) => Distinct(AllLines')
    BY <1>1, <2>1, NewLine
  <2>3. ASSUME NEW r \in DOMAIN Rounds
        PROVE  SaidOf(r)' = IF r = round THEN SaidOf(r) \cup {w} ELSE SaidOf(r)
    BY <1>3, <2>2 DEF SaidOf
  <2>4. w \notin SaidOf(round) => <<round, w>> \notin Printed(AllLines)
    BY DEF SaidOf
  <2> QED
    BY <1>2, <1>4, <2>2, <2>3, <2>4
<1>5. CASE ~cond
  <2>1. AllLines' = AllLines
    BY <1>5 DEF SaysIf, SaysNothing
  <2>2. \A r : SaidOf(r)' = SaidOf(r)
    BY <1>3, <2>1 DEF SaidOf
  <2> QED
    BY <1>2, <1>5, <2>1, <2>2
<1> QED
  BY <1>4, <1>5

LEMMA SaidStays ==
  ASSUME SaysNothing
  PROVE  (\A r \in DOMAIN Rounds : SaidOf(r)' = SaidOf(r)) /\ (NoLineTwice => NoLineTwice')
BY DEF SaysNothing, SaidOf, Printed, NoLineTwice, AllLines

\* The actions that say nothing.
LEMMA SilentSteps ==
  ASSUME ControlInv, DataInv,
         \/ Refused \/ Enter \/ Fork \/ ForkFails \/ ParentWait1 \/ ParentWrite \/ ParentKill
         \/ ParentWait2 \/ ParentExits \/ ChildNotify \/ ChildWait \/ ChildWrite \/ ChildFlush
         \/ ChildKill \/ \E p \in Procs : Catch(p) \/ Pause(p)
  PROVE  SaysNothing
<1>1. CASE Enter \/ ParentExits
  <2>1. buf[Other("parent")] = << >> /\ Flush("parent")
    BY <1>1 DEF Enter, ParentExits, Proceed, Other, ControlInv, SignalInv, DataInv, BufInv
  <2> QED
    BY <2>1, FlushMovesNone DEF Procs
<1>2. CASE ChildFlush
  <2>1. buf[Other("child")] = << >> /\ Flush("child")
    BY <1>2 DEF ChildFlush, Proceed, Other, ControlInv, MmapTypeOK, SignalInv, DataInv, BufInv,
                Forking, ParentStates
  <2> QED
    BY <2>1, FlushMovesNone DEF Procs
<1>3. CASE Fork
  BY <1>3 DEF Fork, ControlInv, MmapTypeOK, SignalInv, DataInv, BufInv, Procs, SaysNothing,
              AllLines
<1>4. CASE UNCHANGED lines
  BY <1>4 DEF lines, SaysNothing, AllLines
<1> QED
  BY <1>1, <1>2, <1>3, <1>4
     DEF Refused, ForkFails, ParentWait1, ParentWrite, ParentKill, ParentWait2, ChildNotify,
         ChildWait, ChildWrite, ChildKill, Catch, Pause, Wait, lines

\* What main makes of the file's content at the end of a round.
WriteWorks == IF Rounds[round][2] = "private" THEN ~BufIsMagic2 ELSE BufIsMagic2

\* The actions that may speak: what they say, and on which condition.
LEMMA SpeakingSteps ==
  ASSUME ControlInv, DataInv
  PROVE  /\ Setup => SaysIf(TRUE, "READ")
         /\ ChildInherit => SaysIf(kernel[round] # "fresh", "INHERIT")
         /\ ChildRead => SaysIf(Shared, "CHILD_READ")
         /\ ParentRead => SaysIf(Shared, "PARENT_READ")
         /\ Finish /\ Medium # "file" => SaysNothing
         /\ Finish /\ Medium = "file" => SaysIf(WriteWorks, "WRITE")
<1>1. /\ Whats = {"READ", "INHERIT", "CHILD_READ", "PARENT_READ", "WRITE"}
      /\ "parent" \in Procs /\ "child" \in Procs
      /\ pc["parent"] \notin {"exit", "gone"} => round \in DOMAIN Rounds
      /\ pc["child"] # "none" => round \in DOMAIN Rounds
  BY RoundsAre DEF Whats, Procs, ControlInv, MmapTypeOK, RoundInv, SignalInv
<1>2. ASSUME Setup PROVE SaysIf(TRUE, "READ")
  <2>1. buf[Other("parent")] = << >> /\ SayIf(TRUE, "parent", "READ") /\ out' = out
    BY <1>2 DEF Setup, SayIf, Proceed, Other, ControlInv, MmapTypeOK, SignalInv, DataInv, BufInv,
                Procs
  <2> QED
    BY <1>1, <1>2, <2>1, SayAddsLine DEF SaysIf, Setup, Proceed
<1>3. ASSUME ChildInherit PROVE SaysIf(kernel[round] # "fresh", "INHERIT")
  <2>1. /\ buf[Other("child")] = << >> /\ out' = out
        /\ page["child"] = "inherit" <=> kernel[round] # "fresh"
    BY <1>3 DEF ChildInherit, Proceed, Other, ControlInv, MmapTypeOK, SignalInv, DataInv, BufInv,
                PageInv, Forking, ParentStates
  <2> QED
    BY <1>1, <1>3, <2>1, SayAddsLine DEF SaysIf, ChildInherit, Proceed
<1>4. ASSUME ChildRead PROVE SaysIf(Shared, "CHILD_READ")
  <2>1. /\ buf[Other("child")] = << >> /\ out' = out
        /\ page["child"] = "parent" <=> Shared
    BY <1>4 DEF ChildRead, Proceed, Other, ControlInv, MmapTypeOK, SignalInv, DataInv, BufInv,
                PageInv, Forking, ParentStates
  <2> QED
    BY <1>1, <1>4, <2>1, SayAddsLine DEF SaysIf, ChildRead, Proceed
<1>5. ASSUME ParentRead PROVE SaysIf(Shared, "PARENT_READ")
  <2>1. /\ buf[Other("parent")] = << >> /\ out' = out
        /\ page["parent"] = "child" <=> Shared
    BY <1>5 DEF ParentRead, Proceed, Other, ControlInv, MmapTypeOK, SignalInv, DataInv, BufInv,
                PageInv, Forking
  <2> QED
    BY <1>1, <1>5, <2>1, SayAddsLine DEF SaysIf, ParentRead, Proceed
<1>6. ASSUME Finish, Medium # "file" PROVE SaysNothing
  BY <1>6 DEF Finish, SaysNothing, AllLines
<1>7. ASSUME Finish, Medium = "file"
      PROVE  SaysIf(WriteWorks, "WRITE")
  <2>1. buf[Other("parent")] = << >> /\ out' = out
    BY <1>7 DEF Finish, Proceed, Other, ControlInv, SignalInv, DataInv, BufInv
  <2>2. SayIf(WriteWorks, "parent", "WRITE")
    BY <1>7 DEF Finish, WriteWorks
  <2> QED
    BY <1>1, <1>7, <2>1, <2>2, SayAddsLine DEF SaysIf, Finish, Proceed
<1> QED
  BY <1>2, <1>3, <1>4, <1>5, <1>6, <1>7

LEMMA InitSaid == MmapInit => SaidInv /\ NoLineTwice
<1> SUFFICES ASSUME MmapInit PROVE SaidInv /\ NoLineTwice
  OBVIOUS
<1>1. pc["parent"] = "setup" /\ round = 1 /\ forked = {} /\ AllLines = << >>
  BY DEF MmapInit, Procs, AllLines
<1>2. \A r : SaidOf(r) = {}
  BY <1>1 DEF SaidOf, Printed
<1>3. NoLineTwice
  BY <1>1 DEF NoLineTwice, AllLines
<1> QED
  BY <1>1, <1>2, <1>3, RoundsAre DEF SaidInv, SoFar

LEMMA SaidStep == IInv /\ [MmapNext]_mmapVars => SaidInv' /\ NoLineTwice'
<1> SUFFICES ASSUME IInv, [MmapNext]_mmapVars PROVE SaidInv' /\ NoLineTwice'
  OBVIOUS
<1> USE RoundsAre DEF IInv
<1>0. /\ round \in Int /\ \A r \in DOMAIN Rounds : r \in Int
      /\ pc["parent"] \notin {"exit", "gone"} => round \in DOMAIN Rounds
      /\ Whats = {"READ", "INHERIT", "CHILD_READ", "PARENT_READ", "WRITE"}
      /\ pc["child"] # "none" => pc["parent"] \in {"wait1", "write", "kill", "wait2"}
      /\ Decided \subseteq Whats
  BY DEF ControlInv, MmapTypeOK, RoundInv, SignalInv, Whats, ParentStates, ChildStates, Decided
<1>1. CASE Setup
  <2>1. SaysIf(TRUE, "READ")
    BY <1>1, SpeakingSteps
  <2>2. /\ pc["parent"] = "setup" /\ pc'["parent"] = "enter" /\ pc'["child"] = pc["child"]
        /\ pc["child"] = "none" /\ UNCHANGED <<kernel, tail, round, forked>>
        /\ round \notin forked
    BY <1>1 DEF Setup, Proceed, ControlInv, PcInv, SignalInv, DataInv, ForkedInv, Procs
  <2>3. \A r \in DOMAIN Rounds : r # round => SaidOf(r)' = SaidOf(r)
    BY <1>0, <2>1, <2>2, SaidGrows
  <2>4. SaidOf(round) = {}
    BY <1>0, <2>2 DEF SaidInv, SoFar
  <2>5. \A r \in DOMAIN Rounds : r = round => SaidOf(r)' = {"READ"}
    BY <1>0, <2>1, <2>2, <2>4, SaidGrows
  <2>6. SoFar' = {"READ"}
    BY <2>2 DEF SoFar, InheritTold, ChildReadTold, ParentReadTold
  <2>7. SaidInv'
    BY <1>0, <2>2, <2>3, <2>5, <2>6 DEF SaidInv, Deserved, Decided
  <2> QED
    BY <1>0, <2>1, <2>2, <2>4, <2>7, SaidGrows
<1>2. CASE ChildInherit
  <2>1. SaysIf(kernel[round] # "fresh", "INHERIT")
    BY <1>2, SpeakingSteps
  <2>2. /\ pc["child"] = "inherit" /\ pc'["child"] = "notify" /\ pc'["parent"] = pc["parent"]
        /\ pc["parent"] = "wait1" /\ UNCHANGED <<kernel, tail, round, forked>>
        /\ round \in forked /\ round \in DOMAIN Rounds
    BY <1>0, <1>2 DEF ChildInherit, Proceed, ControlInv, PcInv, MmapTypeOK, SignalInv, DataInv,
                      ForkedInv, Forking, Procs, ParentStates
  <2>3. SaidOf(round) = SoFar /\ SoFar = {"READ"}
    BY <2>2 DEF SaidInv, SoFar, InheritTold, ChildReadTold, ParentReadTold
  <2>4. SoFar' = {"READ"} \cup (IF kernel[round] # "fresh" THEN {"INHERIT"} ELSE {})
    BY <2>2 DEF SoFar, InheritTold, ChildReadTold, ParentReadTold
  <2>5. \A r \in DOMAIN Rounds :
          /\ r # round => SaidOf(r)' = SaidOf(r)
          /\ r = round => SaidOf(r)' = SoFar'
    BY <1>0, <2>1, <2>2, <2>3, <2>4, SaidGrows
  <2>6. SaidInv'
    BY <1>0, <2>2, <2>5 DEF SaidInv, Deserved, Decided
  <2> QED
    BY <1>0, <2>1, <2>2, <2>3, <2>6, SaidGrows
<1>3. CASE ChildRead
  <2>1. SaysIf(Shared, "CHILD_READ")
    BY <1>3, SpeakingSteps
  <2>2. /\ pc["child"] = "read" /\ pc'["child"] = "write" /\ pc'["parent"] = pc["parent"]
        /\ pc["parent"] = "wait2" /\ UNCHANGED <<kernel, tail, round, forked>>
        /\ round \in forked /\ round \in DOMAIN Rounds
    BY <1>0, <1>3 DEF ChildRead, Proceed, ControlInv, PcInv, MmapTypeOK, SignalInv, DataInv,
                      ForkedInv, Forking, Procs, ParentStates
  <2>3. SaidOf(round) = SoFar /\ "CHILD_READ" \notin SoFar
    BY <2>2 DEF SaidInv, SoFar, InheritTold, ChildReadTold, ParentReadTold
  <2>4. SoFar' = SoFar \cup (IF Shared THEN {"CHILD_READ"} ELSE {})
    BY <2>2 DEF SoFar, InheritTold, ChildReadTold, ParentReadTold, Shared
  <2>5. \A r \in DOMAIN Rounds :
          /\ r # round => SaidOf(r)' = SaidOf(r)
          /\ r = round => SaidOf(r)' = SoFar'
    BY <1>0, <2>1, <2>2, <2>3, <2>4, SaidGrows
  <2>6. SaidInv'
    BY <1>0, <2>2, <2>5 DEF SaidInv, Deserved, Decided
  <2> QED
    BY <1>0, <2>1, <2>2, <2>3, <2>6, SaidGrows
<1>4. CASE ParentRead
  <2>1. SaysIf(Shared, "PARENT_READ")
    BY <1>4, SpeakingSteps
  <2>2. /\ pc["parent"] = "read" /\ pc'["parent"] = "finish" /\ pc'["child"] = pc["child"]
        /\ pc["child"] = "none" /\ UNCHANGED <<kernel, tail, round, forked>>
        /\ round \in forked /\ round \in DOMAIN Rounds
    BY <1>0, <1>4 DEF ParentRead, Proceed, ControlInv, PcInv, MmapTypeOK, SignalInv, DataInv,
                      ForkedInv, Forking, Procs
  <2>3. SaidOf(round) = SoFar /\ "PARENT_READ" \notin SoFar
    BY <2>2 DEF SaidInv, SoFar, InheritTold, ChildReadTold, ParentReadTold
  <2>4. SoFar' = SoFar \cup (IF Shared THEN {"PARENT_READ"} ELSE {})
    BY <2>2 DEF SoFar, InheritTold, ChildReadTold, ParentReadTold, Shared
  <2>5. \A r \in DOMAIN Rounds :
          /\ r # round => SaidOf(r)' = SaidOf(r)
          /\ r = round => SaidOf(r)' = SoFar'
    BY <1>0, <2>1, <2>2, <2>3, <2>4, SaidGrows
  <2>6. SaidInv'
    BY <1>0, <2>2, <2>5 DEF SaidInv, Deserved, Decided
  <2> QED
    BY <1>0, <2>1, <2>2, <2>3, <2>6, SaidGrows
<1>5. CASE Finish
  <2>1. /\ pc["parent"] = "finish" /\ pc["child"] = "none" /\ round \in DOMAIN Rounds
        /\ pc'["parent"] = NextRound /\ UNCHANGED <<kernel, tail, forked>> /\ round' = round + 1
        /\ kernel[round] # "refused" /\ Rounds[round][2] \in {"private", "shared"}
    BY <1>0, <1>5 DEF Finish, Proceed, ControlInv, PcInv, RoundInv, SignalInv, Procs
  <2>2. SaidOf(round) = SoFar /\ "WRITE" \notin SoFar
    BY <2>1 DEF SaidInv, SoFar
  <2>3. SoFar = {"READ"}
           \cup (IF round \in forked /\ kernel[round] # "fresh" THEN {"INHERIT"} ELSE {})
           \cup (IF round \in forked /\ kernel[round] = "shared"
                 THEN {"CHILD_READ", "PARENT_READ"} ELSE {})
    BY <2>1 DEF SoFar, InheritTold, ChildReadTold, ParentReadTold, Shared
  <2>4. ASSUME Medium = "file", tail = "zero"
        PROVE  WriteWorks <=> (kernel[round] = "shared" <=> Rounds[round][2] = "shared")
    <3>1. BufIsMagic2 <=> Shared
      BY <1>5, <2>1, <2>4 DEF Finish, Write, BufIsMagic2, DataInv, FileInv
    <3> QED
      BY <2>1, <3>1 DEF WriteWorks, Shared
  <2>5. \E says \in BOOLEAN :
          /\ SaysIf(says, "WRITE")
          /\ tail = "zero" =>
               (says <=> /\ Medium = "file"
                         /\ kernel[round] = "shared" <=> Rounds[round][2] = "shared")
    <3>1. CASE Medium = "file"
      BY <1>5, <2>4, <3>1, SpeakingSteps DEF SaysIf
    <3>2. CASE Medium # "file"
      BY <1>5, <3>2, SpeakingSteps DEF SaysIf
    <3> QED
      BY <3>1, <3>2
  <2>6. PICK says \in BOOLEAN :
          /\ SaysIf(says, "WRITE")
          /\ tail = "zero" =>
               (says <=> /\ Medium = "file"
                         /\ kernel[round] = "shared" <=> Rounds[round][2] = "shared")
    BY <2>5
  <2>7. \A r \in DOMAIN Rounds :
          SaidOf(r)' = IF says /\ r = round THEN SaidOf(r) \cup {"WRITE"} ELSE SaidOf(r)
    BY <1>0, <2>1, <2>6, SaidGrows
  <2>8. (SaidOf(round) \cup IF says THEN {"WRITE"} ELSE {}) \cap Decided
          = Deserved(round) \cap Decided
    BY <2>1, <2>2, <2>3, <2>6 DEF Deserved, Decided, Medium
  <2>9. \A r \in DOMAIN Rounds : Deserved(r)' = Deserved(r)
    BY <2>1 DEF Deserved
  <2>10. \A r \in DOMAIN Rounds : r < round + 1 => r < round \/ r = round
    BY <1>0
  <2>11. \A r \in DOMAIN Rounds :
           r < round' => SaidOf(r)' \cap Decided' = Deserved(r)' \cap Decided'
    BY <1>0, <2>1, <2>7, <2>8, <2>9, <2>10 DEF SaidInv, Decided
  <2>12. \A r \in DOMAIN Rounds : r = round' \/ r > round' => SaidOf(r)' = {}
    BY <1>0, <2>1, <2>7 DEF SaidInv
  <2>13. round' \in DOMAIN Rounds => SoFar' = {}
    BY <2>1 DEF SoFar, NextRound
  <2>14. SaidInv'
    BY <2>11, <2>12, <2>13 DEF SaidInv
  <2> QED
    BY <1>0, <2>1, <2>2, <2>6, <2>14, SaidGrows
<1>6. CASE Refused
  <2>1. /\ pc["parent"] = "setup" /\ round \in DOMAIN Rounds /\ kernel[round] = "refused"
        /\ pc'["parent"] = NextRound /\ UNCHANGED <<kernel, tail, forked>> /\ round' = round + 1
    BY <1>0, <1>6 DEF Refused, Proceed, ControlInv, PcInv, Procs
  <2>2. (\A r \in DOMAIN Rounds : SaidOf(r)' = SaidOf(r)) /\ NoLineTwice'
    BY <1>6, SilentSteps, SaidStays
  <2>3. SaidOf(round) = {} /\ Deserved(round) = {}
    BY <2>1 DEF SaidInv, SoFar, Deserved
  <2>4. \A r \in DOMAIN Rounds : Deserved(r)' = Deserved(r)
    BY <2>1 DEF Deserved
  <2>5. \A r \in DOMAIN Rounds : r < round + 1 => r < round \/ r = round
    BY <1>0
  <2>6. \A r \in DOMAIN Rounds :
          r < round' => SaidOf(r)' \cap Decided' = Deserved(r)' \cap Decided'
    BY <1>0, <2>1, <2>2, <2>3, <2>4, <2>5 DEF SaidInv, Decided
  <2>7. \A r \in DOMAIN Rounds : r = round' \/ r > round' => SaidOf(r)' = {}
    BY <1>0, <2>1, <2>2 DEF SaidInv
  <2>8. round' \in DOMAIN Rounds => SoFar' = {}
    BY <2>1 DEF SoFar, NextRound
  <2>9. SaidInv'
    BY <2>6, <2>7, <2>8 DEF SaidInv
  <2> QED
    BY <2>2, <2>9
<1>7. CASE Fork
  <2>1. /\ pc["parent"] = "fork" /\ pc["child"] = "none" /\ pc'["parent"] = "wait1"
        /\ pc'["child"] = "inherit" /\ forked' = forked \cup {round} /\ round \notin forked
        /\ UNCHANGED <<kernel, tail, round>>
    BY <1>7 DEF Fork, ControlInv, SignalInv, DataInv, ForkedInv
  <2>2. (\A r \in DOMAIN Rounds : SaidOf(r)' = SaidOf(r)) /\ NoLineTwice'
    BY <1>7, SilentSteps, SaidStays
  <2>3. \A r \in DOMAIN Rounds : r < round => Deserved(r)' = Deserved(r)
    <3>1. \A r \in DOMAIN Rounds : r < round => (r \in forked' <=> r \in forked)
      BY <1>0, <2>1
    <3> QED
      BY <2>1, <3>1 DEF Deserved
  <2>4. SoFar' = {"READ"} /\ SoFar = {"READ"}
    BY <2>1 DEF SoFar, InheritTold, ChildReadTold, ParentReadTold
  <2> QED
    BY <1>0, <2>1, <2>2, <2>3, <2>4 DEF SaidInv, Decided
<1>8. CASE \/ Enter \/ ForkFails \/ ParentWait1 \/ ParentWrite \/ ParentKill
           \/ ParentWait2 \/ ParentExits \/ ChildNotify \/ ChildWait \/ ChildWrite
           \/ ChildFlush \/ ChildKill
           \/ \E p \in Procs : Catch(p) \/ Pause(p)
  <2>1. (\A r \in DOMAIN Rounds : SaidOf(r)' = SaidOf(r)) /\ NoLineTwice'
    BY <1>8, SilentSteps, SaidStays
  <2>2. UNCHANGED <<kernel, tail, round, forked>>
    BY <1>8 DEF Enter, ForkFails, ParentWait1, ParentWrite, ParentKill, ParentWait2, ParentExits,
                ChildNotify, ChildWait, ChildWrite, ChildFlush, ChildKill, Catch, Pause,
                Wait
  <2>3. round \in DOMAIN Rounds => SoFar' = SoFar
    <3> SUFFICES ASSUME round \in DOMAIN Rounds PROVE SoFar' = SoFar
      OBVIOUS
    <3>1. /\ pc["parent"] = "setup" <=> pc'["parent"] = "setup"
          /\ round \in forked => /\ pc["parent"] = "finish" <=> pc'["parent"] = "finish"
                                 /\ pc["child"] = "inherit" <=> pc'["child"] = "inherit"
                                 /\ pc["child"] \in {"write", "flush", "kill", "none"} <=>
                                      pc'["child"] \in {"write", "flush", "kill", "none"}
      BY <1>8 DEF Enter, ForkFails, ParentWait1, ParentWrite, ParentKill, ParentWait2, ParentExits,
                  ChildNotify, ChildWait, ChildWrite, ChildFlush, ChildKill, Catch, Pause,
                  Wait, Proceed, ControlInv, MmapTypeOK, PcInv, SignalInv, DataInv, ForkedInv,
                  Procs
    <3> QED
      BY <2>2, <3>1 DEF SoFar, InheritTold, ChildReadTold, ParentReadTold, Shared
  <2> QED
    BY <1>0, <2>1, <2>2, <2>3 DEF SaidInv, Decided, Deserved
<1>9. CASE UNCHANGED mmapVars
  <2>1. (\A r \in DOMAIN Rounds : SaidOf(r)' = SaidOf(r)) /\ NoLineTwice'
    BY <1>9, SaidStays DEF mmapVars, lines, SaysNothing, AllLines
  <2> QED
    BY <1>9, <2>1 DEF mmapVars, SaidInv, SoFar, InheritTold, ChildReadTold, ParentReadTold,
                      Shared, Decided, Deserved
<1> QED
  BY <1>1, <1>2, <1>3, <1>4, <1>5, <1>6, <1>7, <1>8, <1>9 DEF MmapNext, Parent, Child

LEMMA SpecIInv == MmapSpec => []IInv
<1>1. MmapInit => IInv
  BY InitControl, InitData, InitSaid DEF IInv
<1>2. IInv /\ [MmapNext]_mmapVars => IInv'
  <2>1. ControlInv /\ [MmapNext]_mmapVars => ControlInv'
    BY TypeStep, RoundStep, SignalStep DEF ControlInv
  <2> QED
    BY <2>1, DataStep, SaidStep DEF IInv
<1> QED
  BY <1>1, <1>2, PTL DEF MmapSpec

\* fflush before fork, and the order of the two processes: the lines that the
\* child inherits are not written by both.
THEOREM EachLineOnce == MmapSpec => []NoLineTwice
<1>1. IInv => NoLineTwice
  BY DEF IInv
<1> QED
  BY <1>1, SpecIInv, PTL

\* main and test_child: every line about a mapping is true, and when its
\* round is over none is missing, whatever the kernel makes of the mappings.
THEOREM VerdictsAreTrue == MmapSpec => []VerdictsTrue
<1>1. ASSUME IInv PROVE VerdictsTrue
  <2> SUFFICES ASSUME NEW r \in DOMAIN Rounds
               PROVE  LET said     == {w \in Decided : <<r, w>> \in Said}
                          deserved == Deserved(r) \cap Decided IN
                      said \subseteq deserved /\ (r < round => said = deserved)
    BY DEF VerdictsTrue
  <2>1. Said = Printed(AllLines)
    <3>1. /\ out \in Seq(Lines) /\ buf["parent"] \in Seq(Lines) /\ buf["child"] \in Seq(Lines)
          /\ out \o buf["parent"] \in Seq(Lines)
      BY <1>1, AllLinesTyped, ConcatProperties DEF IInv
    <3>2. \A s, t \in Seq(Lines) : Printed(s \o t) = Printed(s) \cup Printed(t)
      BY PrintedConcat
    <3> DEFINE front == out \o buf["parent"]
               back  == buf["child"]
    <3>3. AllLines = front \o back /\ front \in Seq(Lines) /\ back \in Seq(Lines)
      BY <3>1 DEF AllLines
    <3>4. Printed(front) = Printed(out) \cup Printed(buf["parent"])
      BY <3>1, <3>2
    <3> HIDE DEF front
    <3>5. Printed(AllLines) = Printed(front) \cup Printed(back)
      BY <3>2, <3>3
    <3> QED
      BY <3>4, <3>5 DEF Said
  <2>2. {w \in Decided : <<r, w>> \in Said} = SaidOf(r) \cap Decided
    BY <2>1 DEF SaidOf, Decided
  <2>3. r < round \/ r = round \/ r > round
    BY <1>1, RoundsAre DEF IInv, ControlInv, MmapTypeOK
  <2>4. CASE r < round
    BY <1>1, <2>2, <2>4 DEF IInv, SaidInv
  <2>5. CASE r = round
    <3>1. r < round => FALSE
      BY <1>1, <2>5, RoundsAre DEF IInv, ControlInv, MmapTypeOK
    <3>2. pc["parent"] # "setup" => kernel[round] # "refused"
      BY <1>1, <2>5, RoundsAre DEF IInv, ControlInv, MmapTypeOK, RoundInv
    <3>3. SoFar \subseteq Deserved(round)
      BY <3>2 DEF SoFar, InheritTold, ChildReadTold, ParentReadTold, Deserved, Shared
    <3> QED
      BY <1>1, <2>2, <2>5, <3>1, <3>3 DEF IInv, SaidInv
  <2>6. CASE r > round
    <3>1. r < round => FALSE
      BY <1>1, <2>6, RoundsAre DEF IInv, ControlInv, MmapTypeOK
    <3> QED
      BY <1>1, <2>2, <2>6, <3>1 DEF IInv, SaidInv
  <2> QED
    BY <2>3, <2>4, <2>5, <2>6
<1> QED
  BY <1>1, SpecIInv, PTL

----------------------------------------------------------------------------
(* No signal is lost.                                                      *)

\* Every call of kill() makes a signal pending.
EveryKillCounts == [][ParentKill \/ ChildNotify \/ ChildKill => pending' # pending]_mmapVars

\* test_child: signals are not queued, one that is sent while another is
\* pending is lost.  That never happens: who calls kill() has had an answer to
\* the signal before.  (What is lost in the gap before pause() has arrived.)
THEOREM NoKillIsLost == MmapSpec => EveryKillCounts
<1>1. ControlInv /\ [MmapNext]_mmapVars =>
        [ParentKill \/ ChildNotify \/ ChildKill => pending' # pending]_mmapVars
  <2> SUFFICES ASSUME ControlInv, ParentKill \/ ChildNotify \/ ChildKill
               PROVE  pending' # pending
    OBVIOUS
  <2>1. CASE ParentKill
    <3>1. "child" \notin pending /\ pending' = pending \cup {"child"}
      BY <2>1 DEF ControlInv, SignalInv, Unsignalled, ParentKill, Proceed, Kill
    <3> QED
      BY <3>1
  <2>2. CASE ChildNotify \/ ChildKill
    <3>1. "parent" \notin pending /\ pending' = pending \cup {"parent"}
      <4>1. pc["child"] \in {"notify", "kill"} /\ pending' = pending \cup {"parent"}
        BY <2>2 DEF ChildNotify, ChildKill, Proceed, Kill
      <4>2. pc["parent"] \in {"wait1", "wait2"}
        BY <4>1 DEF ControlInv, MmapTypeOK, SignalInv, ParentStates, ChildStates, PcInv
      <4> QED
        BY <4>1, <4>2 DEF ControlInv, SignalInv, Unsignalled
    <3> QED
      BY <3>1
  <2> QED
    BY <2>1, <2>2
<1> QED
  BY <1>1, SpecControl, PTL DEF MmapSpec, EveryKillCounts
============================================================================
