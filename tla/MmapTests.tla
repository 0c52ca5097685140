----------------------------- MODULE MmapTests -----------------------------
(***************************************************************************)
(* src/mmap-tests.c: finds out what mmap() can do by mapping memory in six *)
(* ways and letting a parent and a forked child read each other's writes.  *)
(* The two take turns by sending each other SIGINT and waiting in pause(). *)
(*                                                                         *)
(* Every access to the mapped page, every signal and every test of the     *)
(* signal counter is a step; stdout is fully buffered (a file or a pipe).  *)
(***************************************************************************)
EXTENDS Integers, Sequences

CONSTANTS
  Kernels,     \* what the mappings may turn out to be (see IsKernel)
  ForkMayFail, \* may fork() fail?
  Tails        \* what buf[11] may hold: main never initialises it

\* The rounds of main: what is mapped, and how.
Rounds == << <<"file", "private">>, <<"file", "shared">>, <<"zero", "private">>,
             <<"zero", "shared">>, <<"anon", "private">>, <<"anon", "shared">> >>

\* A kernel refuses a mapping, or makes it: private to each process, shared,
\* or such that the child starts with a page of zeros.
IsKernel(k) == k \in [DOMAIN Rounds -> {"refused", "private", "shared", "fresh"}]

ASSUME MmapTestsAssumption ==
  /\ \A k \in Kernels : IsKernel(k)
  /\ ForkMayFail \in BOOLEAN
  /\ Tails \subseteq {"zero", "junk"}

VARIABLES
  kernel,   \* the kernel of this execution
  tail,     \* the content of buf[11]
  round,    \* the round main is in
  pc,       \* what parent and child do next
  mode,     \* "running", about to pause ("pausing"), or blocked in pause()
  caught,   \* per process, caught_sigint
  pending,  \* the processes that have a SIGINT pending
  page,     \* per process, the string at the start of its mapping
  file,     \* the string in mmap.test
  buf,      \* per process, the lines in the buffer of stdout
  out,      \* the lines that have been written
  forked    \* history: the rounds that had a child

procs == <<mode, caught, pending>>
lines == <<buf, out>>
mmapVars  == <<kernel, tail, round, pc, procs, page, file, lines, forked>>

Procs == {"parent", "child"}
Other(p) == IF p = "parent" THEN "child" ELSE "parent"

Medium == Rounds[round][1]
Shared == kernel[round] = "shared"

MmapInit ==
  /\ kernel \in Kernels
  /\ tail \in Tails
  /\ round = 1
  /\ pc = [parent |-> "setup", child |-> "none"]
  /\ mode = [p \in Procs |-> "running"]
  /\ caught = [p \in Procs |-> 0]
  /\ pending = {}
  /\ page = [p \in Procs |-> "nothing"]
  /\ file = "nothing"
  /\ buf = [p \in Procs |-> << >>]
  /\ out = << >>
  /\ forked = {}

Proceed(p, from, to) ==
  /\ mode[p] = "running"
  /\ pc[p] = from /\ pc' = [pc EXCEPT ![p] = to]

\* What p writes into the mapping is seen by the other if it is shared, and
\* goes to the file if that is what is mapped.
Write(p, s) ==
  /\ page' = IF Shared THEN [q \in Procs |-> s] ELSE [page EXCEPT ![p] = s]
  /\ file' = IF Shared /\ Medium = "file" THEN s ELSE file

Say(p, what) == buf' = [buf EXCEPT ![p] = Append(@, <<round, what>>)]
SayIf(cond, p, what) == IF cond THEN Say(p, what) ELSE UNCHANGED buf

Flush(p) == out' = out \o buf[p] /\ buf' = [buf EXCEPT ![p] = << >>]

----------------------------------------------------------------------------
(* main, before and after test_child.                                      *)

NextRound == IF round = Len(Rounds) THEN "exit" ELSE "setup"

Refused ==
  /\ Proceed("parent", "setup", NextRound)
  /\ kernel[round] = "refused"
  /\ round' = round + 1
  /\ UNCHANGED <<kernel, tail, procs, page, file, lines, forked>>

\* A file is truncated, given its magic and mapped; other memory is mapped
\* first.  Either way the magic is compared and reported.
Setup ==
  /\ Proceed("parent", "setup", "enter")
  /\ kernel[round] # "refused"
  /\ page' = [page EXCEPT !["parent"] = "magic"]
  /\ file' = IF Medium = "file" THEN "magic" ELSE file
  /\ SayIf(page'["parent"] = "magic", "parent", "READ")
  /\ UNCHANGED <<kernel, tail, round, procs, out, forked>>

\* strcmp(buf, "mmap magic2") after read(fd, buf, 12): the file has eleven
\* bytes, so that the zero at the end of "mmap magic2" is not in it.
BufIsMagic2 == file' = "magic2" /\ tail = "zero"

\* strcpy "mmap magic2" and munmap; what does the file say now?
Finish ==
  /\ Proceed("parent", "finish", NextRound)
  /\ IF Medium = "file"
     THEN /\ Write("parent", "magic2")
          /\ IF Rounds[round][2] = "private"
             THEN SayIf(~BufIsMagic2, "parent", "WRITE")
             ELSE SayIf(BufIsMagic2, "parent", "WRITE")
     ELSE UNCHANGED <<page, file, buf>>
  /\ round' = round + 1
  /\ UNCHANGED <<kernel, tail, procs, out, forked>>

\* exit(0) flushes stdout.
ParentExits ==
  /\ Proceed("parent", "exit", "gone")
  /\ Flush("parent")
  /\ UNCHANGED <<kernel, tail, round, procs, page, file, forked>>

----------------------------------------------------------------------------
(* test_child: signals.                                                    *)

Kill(p) == pending' = pending \cup {p}

\* The handler sigint() runs; it also ends a pause().
Catch(p) ==
  /\ p \in pending
  /\ pending' = pending \ {p}
  /\ caught' = [caught EXCEPT ![p] = @ + 1]
  /\ mode' = [mode EXCEPT ![p] = IF @ = "paused" THEN "running" ELSE @]
  /\ UNCHANGED <<kernel, tail, round, pc, page, file, lines, forked>>

\* while (!caught_sigint) pause(): between the test and the pause the signal
\* handler may run, and the pause waits for another signal.  After the loop
\* the counter is cleared, except at the end of the parent's second wait.
Wait(p, from, to) ==
  /\ pc[p] = from /\ mode[p] = "running"
  /\ IF caught[p] = 0
     THEN /\ mode' = [mode EXCEPT ![p] = "pausing"]
          /\ UNCHANGED <<pc, caught>>
     ELSE /\ pc' = [pc EXCEPT ![p] = to]
          /\ caught' = [caught EXCEPT ![p] = IF to = "read" /\ p = "parent" THEN @ ELSE 0]
          /\ UNCHANGED mode
  /\ UNCHANGED <<kernel, tail, round, pending, page, file, lines, forked>>

Pause(p) ==
  /\ mode[p] = "pausing"
  /\ mode' = [mode EXCEPT ![p] = "paused"]
  /\ UNCHANGED <<kernel, tail, round, pc, caught, pending, page, file, lines, forked>>

----------------------------------------------------------------------------
(* test_child: the parent.                                                 *)

\* Mutants: no fflush before the fork; the counter of the last round stays.
EnterUnflushed ==
  /\ Proceed("parent", "enter", "fork")
  /\ Write("parent", "inherit")
  /\ caught' = [caught EXCEPT !["parent"] = 0]
  /\ UNCHANGED <<kernel, tail, round, mode, pending, lines, forked>>

EnterUncleared ==
  /\ Proceed("parent", "enter", "fork")
  /\ Write("parent", "inherit")
  /\ Flush("parent")
  /\ UNCHANGED <<kernel, tail, round, procs, forked>>

Enter ==
  /\ Proceed("parent", "enter", "fork")
  /\ Write("parent", "inherit")
  /\ caught' = [caught EXCEPT !["parent"] = 0]
  /\ Flush("parent")
  /\ UNCHANGED <<kernel, tail, round, mode, pending, forked>>

Fork ==
  /\ pc["parent"] = "fork"
  /\ pc' = [parent |-> "wait1", child |-> "inherit"]
  /\ page' = [page EXCEPT !["child"] = IF kernel[round] = "fresh" THEN "nothing" ELSE page["parent"]]
  /\ caught' = [caught EXCEPT !["child"] = caught["parent"]]
  /\ buf' = [buf EXCEPT !["child"] = buf["parent"]]
  /\ forked' = forked \cup {round}
  /\ UNCHANGED <<kernel, tail, round, mode, pending, file, out>>

ForkFails ==
  /\ ForkMayFail
  /\ Proceed("parent", "fork", "finish")
  /\ UNCHANGED <<kernel, tail, round, procs, page, file, lines, forked>>

\* Mutant: the parent does not wait for the child to have read.
ParentHurries1 ==
  /\ Proceed("parent", "wait1", "write")
  /\ UNCHANGED <<kernel, tail, round, procs, page, file, lines, forked>>

ParentWait1 == Wait("parent", "wait1", "write")

ParentWrite ==
  /\ Proceed("parent", "write", "kill")
  /\ Write("parent", "parent")
  /\ UNCHANGED <<kernel, tail, round, procs, lines, forked>>

\* Mutant: the child is not told.
ParentKillForgotten ==
  /\ Proceed("parent", "kill", "wait2")
  /\ UNCHANGED <<kernel, tail, round, procs, page, file, lines, forked>>

ParentKill ==
  /\ Proceed("parent", "kill", "wait2")
  /\ Kill("child")
  /\ UNCHANGED <<kernel, tail, round, mode, caught, page, file, lines, forked>>

\* Mutant: the parent does not wait for the child to have written.
ParentHurries2 ==
  /\ Proceed("parent", "wait2", "read")
  /\ UNCHANGED <<kernel, tail, round, procs, page, file, lines, forked>>

ParentWait2 == Wait("parent", "wait2", "read")

ParentRead ==
  /\ Proceed("parent", "read", "finish")
  /\ SayIf(page["parent"] = "child", "parent", "PARENT_READ")
  /\ UNCHANGED <<kernel, tail, round, procs, page, file, out, forked>>

----------------------------------------------------------------------------
(* test_child: the child.                                                  *)

ChildInherit ==
  /\ Proceed("child", "inherit", "notify")
  /\ SayIf(page["child"] = "inherit", "child", "INHERIT")
  /\ UNCHANGED <<kernel, tail, round, procs, page, file, out, forked>>

ChildNotify ==
  /\ Proceed("child", "notify", "wait")
  /\ Kill("parent")
  /\ UNCHANGED <<kernel, tail, round, mode, caught, page, file, lines, forked>>

ChildWait == Wait("child", "wait", "read")

ChildRead ==
  /\ Proceed("child", "read", "write")
  /\ SayIf(page["child"] = "parent", "child", "CHILD_READ")
  /\ UNCHANGED <<kernel, tail, round, procs, page, file, out, forked>>

ChildWrite ==
  /\ Proceed("child", "write", "flush")
  /\ Write("child", "child")
  /\ UNCHANGED <<kernel, tail, round, procs, lines, forked>>

ChildFlush ==
  /\ Proceed("child", "flush", "kill")
  /\ Flush("child")
  /\ UNCHANGED <<kernel, tail, round, procs, page, file, forked>>

\* The exit(0) that follows finds an empty buffer and touches nothing.
ChildKill ==
  /\ Proceed("child", "kill", "none")
  /\ Kill("parent")
  /\ UNCHANGED <<kernel, tail, round, mode, caught, page, file, lines, forked>>

----------------------------------------------------------------------------

Parent ==
  \/ Refused \/ Setup \/ Enter \/ Fork \/ ForkFails \/ ParentWait1 \/ ParentWrite
  \/ ParentKill \/ ParentWait2 \/ ParentRead \/ Finish \/ ParentExits

Child ==
  \/ ChildInherit \/ ChildNotify \/ ChildWait \/ ChildRead \/ ChildWrite
  \/ ChildFlush \/ ChildKill

MmapNext == Parent \/ Child \/ \E p \in Procs : Catch(p) \/ Pause(p)

MmapSpec == MmapInit /\ [][MmapNext]_mmapVars

\* Both processes are scheduled, and a signal that is pending is delivered.
MmapFairness ==
  /\ WF_mmapVars(Parent) /\ WF_mmapVars(Child)
  /\ \A p \in Procs : WF_mmapVars(Catch(p)) /\ WF_mmapVars(Pause(p))

----------------------------------------------------------------------------
(* Properties.                                                             *)

Whats == {"READ", "INHERIT", "CHILD_READ", "PARENT_READ", "WRITE"}
PageStrings == {"nothing", "magic", "magic2", "inherit", "parent", "child"}
ParentStates == {"setup", "enter", "fork", "wait1", "write", "kill", "wait2", "read",
                 "finish", "exit", "gone"}
ChildStates == {"none", "inherit", "notify", "wait", "read", "write", "flush", "kill"}

\* The types of the mappings, of stdout and of the two processes.
MmapTypeOK ==
  /\ kernel \in Kernels /\ tail \in Tails
  /\ round \in 1..(Len(Rounds) + 1)
  /\ pc["parent"] \in ParentStates /\ pc["child"] \in ChildStates
  /\ mode \in [Procs -> {"running", "pausing", "paused"}]
  /\ caught \in [Procs -> 0..1]
  /\ pending \subseteq Procs
  /\ page \in [Procs -> PageStrings] /\ file \in PageStrings
  /\ buf \in [Procs -> Seq((DOMAIN Rounds) \X Whats)]
  /\ out \in Seq((DOMAIN Rounds) \X Whats)
  /\ forked \subseteq DOMAIN Rounds

Printed(s) == {s[k] : k \in DOMAIN s}
Said == Printed(out) \cup Printed(buf["parent"]) \cup Printed(buf["child"])

\* What the kernel of this execution deserves to have reported of round r.
Deserved(r) ==
  IF kernel[r] = "refused" THEN {}
  ELSE {"READ"}
    \cup (IF r \in forked /\ kernel[r] # "fresh" THEN {"INHERIT"} ELSE {})
    \cup (IF r \in forked /\ kernel[r] = "shared" THEN {"CHILD_READ", "PARENT_READ"} ELSE {})
    \cup (IF Rounds[r][1] = "file" /\ (kernel[r] = "shared" <=> Rounds[r][2] = "shared")
          THEN {"WRITE"} ELSE {})

\* The lines that do not hang on what main never initialised: the WRITE line
\* compares twelve bytes of buf after eleven have been read into it.
Decided == IF tail = "zero" THEN Whats ELSE Whats \ {"WRITE"}

\* Every line about a mapping is true, and when its round is over none is
\* missing: the hand-over orders the writes and the reads.
VerdictsTrue ==
  \A r \in DOMAIN Rounds :
    LET said     == {w \in Decided : <<r, w>> \in Said}
        deserved == Deserved(r) \cap Decided IN
    /\ said \subseteq deserved
    /\ r < round => said = deserved

\* No line is written twice, although the child inherits the parent's buffer.
NoLineTwice ==
  LET all == out \o buf["parent"] \o buf["child"] IN
  \A j, k \in DOMAIN all : all[j] = all[k] => j = k

\* The parent and the child are never both past their waits: one reads and
\* writes the page only while the other waits for its signal.
TakesTurns ==
  pc["child"] \in {"inherit", "notify", "read", "write", "flush", "kill"} =>
    pc["parent"] \in {"wait1", "wait2"} /\ ~(caught["parent"] > 0)

\* SIGINT has its default action again only when no signal is under way: the
\* parent is not killed by its own child.
NoStraySignal ==
  pc["parent"] \in {"setup", "enter", "finish", "exit", "gone"} => "parent" \notin pending

\* A process that pauses although its signal has come: it will wait for ever.
Stranded(p) == mode[p] = "paused" /\ caught[p] > 0

\* The program comes to its end, or a signal has hit the gap between the test
\* of caught_sigint and pause(): nothing else keeps it from ending.
TerminatesOrMissesSignal ==
  <>(pc["parent"] = "gone" \/ \E p \in Procs : Stranded(p))
============================================================================
