------------------------------ MODULE Incmail ------------------------------
(***************************************************************************)
(* bin/incmail: the cron job that pulls new mail out of the spool file and *)
(* hands every message to slocal.  Each run moves the spool into the MH    *)
(* folder +tmp with `inc', then walks the numbered files of that folder    *)
(* and deletes each one that slocal accepted.  A lock file is meant to     *)
(* keep two runs apart.                                                    *)
(*                                                                         *)
(* Every command of the script is one atomic action of one run; anything   *)
(* may happen between two commands, the death of the run included.         *)
(***************************************************************************)
EXTENDS Integers, Sequences, FiniteSets

CONSTANTS
  Procs,      \* the runs of incmail that may be alive at the same time
  Msgs,       \* the messages that may arrive
  NoMsg,      \* "there is no such file in the folder"
  TwoDigits,   \* the lowest two-digit message number (10)
  ThreeDigits, \* the lowest three-digit message number (100)
  MaxNum,     \* bound: the highest message number of the folder +tmp
  MaxFaults,  \* bound: how many faults of a kind in Faults may happen
  Faults,     \* the kinds of fault that may happen: "crash", "touch", "inc", "rm"
  SlowStart,  \* may a run still be in its lock test when the next starts?
  Attended    \* does somebody clear away a lock file that nobody holds?

ASSUME IncmailAssumption ==
  /\ NoMsg \notin Msgs
  /\ {TwoDigits, ThreeDigits} \subseteq Nat /\ MaxNum \in Nat /\ MaxFaults \in Nat
  /\ Faults \subseteq {"crash", "touch", "inc", "rm"}
  /\ SlowStart \in BOOLEAN
  /\ Attended \in BOOLEAN

VARIABLES
  pc,       \* the command each run executes next; "idle" when there is none
  lock,     \* does $MAILROOT/incmail.lock exist?
  spool,    \* the messages in $SPOOLFILE, oldest first
  tmp,      \* the folder +tmp: message number -> message
  work,     \* per run, what is left of the list of the for loop
  cur,      \* per run, the loop variable $i
  arrived,  \* history: the messages that have reached the spool
  copies,   \* history: how often slocal has accepted each message
  tried,    \* history: per run, the numbers given to slocal in this run
  faults    \* history: the number of faults so far

mail == <<spool, tmp, arrived, copies>>
loop == <<work, cur, tried>>
vars == <<pc, lock, mail, loop, faults>>

Nums     == 1..MaxNum
Starting == {"check", "touch"}
Holding  == {"inc", "glob", "next", "slocal", "rm"}
Commands == {"idle"} \cup Starting \cup Holding

Init ==
  /\ pc = [p \in Procs |-> "idle"]
  /\ lock = FALSE
  /\ spool = << >>
  /\ tmp = [n \in Nums |-> NoMsg]
  /\ work = [p \in Procs |-> {}]
  /\ cur = [p \in Procs |-> 0]
  /\ arrived = {}
  /\ copies = [m \in Msgs |-> 0]
  /\ tried = [p \in Procs |-> {}]
  /\ faults = 0

Goto(p, from, to) == pc[p] = from /\ pc' = [pc EXCEPT ![p] = to]

Fault(kind) ==
  /\ kind \in Faults
  /\ faults < MaxFaults
  /\ faults' = faults + 1

----------------------------------------------------------------------------
(* The start of a run.                                                     *)

\* The tests of the spool file and of the staging folder come before the
\* lock; a run that fails either leaves no trace.  cron starts runs a
\* minute apart: without SlowStart that is longer than a lock test takes.
Launch(p) ==
  /\ ~SlowStart => \A q \in Procs : pc[q] \notin Starting
  /\ spool # << >>
  /\ Goto(p, "idle", "check")
  /\ UNCHANGED <<lock, mail, loop, faults>>

\* Mutants: the test is forgotten; the test is the wrong way round.
LockTestForgotten(p) ==
  /\ Goto(p, "check", "touch")
  /\ UNCHANGED <<lock, mail, loop, faults>>

LockTestInverted(p) ==
  /\ Goto(p, "check", IF lock THEN "touch" ELSE "idle")
  /\ UNCHANGED <<lock, mail, loop, faults>>

\* [ -f incmail.lock ]
LockTest(p) ==
  /\ Goto(p, "check", IF lock THEN "idle" ELSE "touch")
  /\ UNCHANGED <<lock, mail, loop, faults>>

\* touch incmail.lock: also succeeds when the file is already there.  Nothing
\* looks at its status: a run whose touch fails goes on without a lock.
Touch(p) ==
  /\ Goto(p, "touch", "inc")
  /\ \/ lock' = TRUE /\ UNCHANGED faults
     \/ UNCHANGED lock /\ Fault("touch")
  /\ UNCHANGED <<mail, loop>>

----------------------------------------------------------------------------
(* inc and the loop over the folder.                                       *)

IsHighest(h) ==
  /\ h = 0 \/ (h \in Nums /\ tmp[h] # NoMsg)
  /\ \A n \in Nums : n > h => tmp[n] = NoMsg

\* inc +tmp: the spool is emptied into the folder; numbering goes on from
\* the highest number in it, so an empty folder starts again at 1.
Inc(p) ==
  /\ Goto(p, "inc", "glob")
  /\ spool # << >>
  /\ \E h \in 0..MaxNum :
       /\ IsHighest(h)
       /\ h + Len(spool) <= MaxNum
       /\ tmp' = [n \in Nums |-> IF n \in (h + 1)..(h + Len(spool))
                                 THEN spool[n - h] ELSE tmp[n]]
  /\ spool' = << >>
  /\ UNCHANGED <<lock, arrived, copies, loop, faults>>

\* inc ... || exit 0: no mail to incorporate, or inc could not do it.
IncFails(p) ==
  /\ Goto(p, "inc", "idle")
  /\ IF spool = << >> THEN UNCHANGED faults ELSE Fault("inc")
  /\ UNCHANGED <<lock, mail, loop>>

\* Mutant: without the third pattern.
TwoPatterns(n) ==
  IF n < TwoDigits THEN {1} ELSE IF n < ThreeDigits THEN {2} ELSE {}

\* Which of the patterns [0-9], [0-9][0-9] and [0-9][0-9]* a file name
\* matches.  The third one repeats what the second one lists.
Patterns(n) ==
  IF n < TwoDigits THEN {1} ELSE IF n < ThreeDigits THEN {2, 3} ELSE {3}

\* for i in ...: the shell expands the patterns once, before the first round.
Glob(p) ==
  /\ Goto(p, "glob", "next")
  /\ work' = [work EXCEPT ![p] =
                {w \in (1..3) \X Nums : tmp[w[2]] # NoMsg /\ w[1] \in Patterns(w[2])}]
  /\ tried' = [tried EXCEPT ![p] = {}]
  /\ UNCHANGED <<lock, mail, cur, faults>>

\* [ -f $i ]: the entries come pattern by pattern, in some order within one.
TestFile(p) ==
  \E w \in work[p] :
    /\ \A v \in work[p] : w[1] <= v[1]
    /\ Goto(p, "next", IF tmp[w[2]] # NoMsg THEN "slocal" ELSE "next")
    /\ cur' = [cur EXCEPT ![p] = w[2]]
    /\ work' = [work EXCEPT ![p] = @ \ {w}]
    /\ UNCHANGED <<lock, mail, tried, faults>>

\* $SLOCAL < $i succeeds: whatever is in the file now is delivered.
Deliver(p) ==
  /\ Goto(p, "slocal", "rm")
  /\ tmp[cur[p]] # NoMsg
  /\ copies' = [copies EXCEPT ![tmp[cur[p]]] = @ + 1]
  /\ tried' = [tried EXCEPT ![p] = @ \cup {cur[p]}]
  /\ UNCHANGED <<lock, spool, tmp, arrived, work, cur, faults>>

\* Mutant: "; rm" for "&& rm".
DeliverFailsRemoves(p) ==
  /\ Goto(p, "slocal", "rm")
  /\ tried' = [tried EXCEPT ![p] = @ \cup {cur[p]}]
  /\ UNCHANGED <<lock, mail, work, cur, faults>>

\* $SLOCAL < $i fails, or the file has gone since the test.
DeliverFails(p) ==
  /\ Goto(p, "slocal", "next")
  /\ tried' = [tried EXCEPT ![p] = @ \cup {cur[p]}]
  /\ UNCHANGED <<lock, mail, work, cur, faults>>

\* Mutant: the file is left where it is.
RemoveNothing(p) ==
  /\ Goto(p, "rm", "next")
  /\ UNCHANGED <<lock, mail, loop, faults>>

\* rm -f $i: removes whatever is in the file now.
Remove(p) ==
  /\ Goto(p, "rm", "next")
  /\ tmp' = [tmp EXCEPT ![cur[p]] = NoMsg]
  /\ UNCHANGED <<lock, spool, arrived, copies, loop, faults>>

\* rm -f $i fails; nothing looks at its status.
RemoveFails(p) ==
  /\ Goto(p, "rm", "next")
  /\ Fault("rm")
  /\ UNCHANGED <<lock, mail, loop>>

\* rm incmail.lock, the last command, or a failure of it.
Unlock(p) ==
  /\ work[p] = {}
  /\ Goto(p, "next", "idle")
  /\ \/ lock' = FALSE /\ UNCHANGED faults
     \/ UNCHANGED lock /\ Fault("rm")
  /\ UNCHANGED <<mail, loop>>

----------------------------------------------------------------------------
(* The surroundings.                                                       *)

Arrive(m) ==
  /\ m \notin arrived
  /\ arrived' = arrived \cup {m}
  /\ spool' = Append(spool, m)
  /\ UNCHANGED <<pc, lock, tmp, copies, loop, faults>>

\* A run is killed, or the machine goes down; the files stay as they are.
Crash(p) ==
  /\ pc[p] # "idle"
  /\ pc' = [pc EXCEPT ![p] = "idle"]
  /\ Fault("crash")
  /\ UNCHANGED <<lock, mail, loop>>

\* Somebody notices a lock file with no run behind it and removes it.
ClearStaleLock ==
  /\ Attended
  /\ lock
  /\ \A p \in Procs : pc[p] \notin Holding
  /\ lock' = FALSE
  /\ UNCHANGED <<pc, mail, loop, faults>>

Step(p) ==
  \/ LockTest(p) \/ Touch(p) \/ Inc(p) \/ IncFails(p) \/ Glob(p) \/ TestFile(p)
  \/ Deliver(p) \/ DeliverFails(p) \/ Remove(p) \/ RemoveFails(p) \/ Unlock(p)

Next ==
  \/ \E p \in Procs : Launch(p) \/ Step(p) \/ Crash(p)
  \/ \E m \in Msgs : Arrive(m)
  \/ ClearStaleLock

Spec == Init /\ [][Next]_vars

\* cron never stops, a started run is never suspended for good, and a lock
\* file that stays behind is noticed in the end.
FairSpec ==
  /\ Spec
  /\ \A p \in Procs : WF_vars(Launch(p)) /\ WF_vars(Step(p))
  /\ WF_vars(ClearStaleLock)

----------------------------------------------------------------------------
(* Properties.                                                             *)

Waiting(m) == \E i \in DOMAIN spool : spool[i] = m
Staged(m)  == \E n \in Nums : tmp[n] = m

\* The types of both sides of the handoff.
TypeOK ==
  /\ pc \in [Procs -> Commands]
  /\ lock \in BOOLEAN
  /\ spool \in Seq(Msgs)
  /\ tmp \in [Nums -> Msgs \cup {NoMsg}]
  /\ work \in [Procs -> SUBSET ((1..3) \X Nums)]
  /\ cur \in [Procs -> 0..MaxNum]
  /\ arrived \subseteq Msgs
  /\ copies \in [Msgs -> Nat]
  /\ tried \in [Procs -> SUBSET Nums]
  /\ faults \in Nat

\* Two runs never work on the folder at the same time: what the lock file
\* is there for (the comment above the test of the lock), as long as it can
\* be made and no two runs test for it at once.
MutualExclusion ==
  \A p, q \in Procs : pc[p] \in Holding /\ pc[q] \in Holding => p = q

\* A message that reached the spool is still in the spool, still in the
\* folder, or was accepted by slocal: rm never deletes an undelivered one.
NoMailLost ==
  \A m \in arrived : Waiting(m) \/ Staged(m) \/ copies[m] > 0

\* slocal accepts a message twice only because of a fault: a run that died,
\* or an rm that failed, between the delivery and the removal of the file.
DuplicatesNeedFaults ==
  \A m \in Msgs : copies[m] <= 1 + faults

\* A run that reaches its last command has offered slocal every message of
\* the folder: no file name slips between the three patterns of the loop.
EveryMessageTried ==
  \A p \in Procs : pc[p] = "next" =>
    \A n \in Nums : tmp[n] # NoMsg =>
      n \in tried[p] \/ \E k \in 1..3 : <<k, n>> \in work[p]

\* Where a message is, as far as a mail drop is concerned.
Place(m) ==
  IF m \notin arrived THEN "nowhere"
  ELSE IF Waiting(m) THEN "spool" ELSE IF Staged(m) THEN "folder" ELSE "gone"

C == INSTANCE Custody WITH place <- [m \in Msgs |-> Place(m)]

\* The script, with all its runs and faults, is the mail drop of Custody: no
\* message goes back to the spool or comes back to the folder, slocal gets
\* only what the folder holds, and rm takes away only what slocal accepted.
KeepsCustody == C!Spec

\* No message waits in the spool for ever.
SpoolDrains ==
  \A m \in Msgs : Waiting(m) ~> ~Waiting(m)
============================================================================
