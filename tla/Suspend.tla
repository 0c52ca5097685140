------------------------------ MODULE Suspend ------------------------------
(***************************************************************************)
(* src/tr7/suspend.c: two background threads keep printing a digit; on     *)
(* each keystroke main suspends or resumes the first one from outside.     *)
(* All three print through stdout, whose FILE lock stdio takes and gives   *)
(* up in every call.                                                       *)
(***************************************************************************)
EXTENDS Integers

CONSTANTS
  MaxKeys,        \* bound: how many keystrokes there are
  ThreadMayFail   \* may pthread_create fail?  main drops its result

ASSUME SuspendAssumption ==
  MaxKeys \in Nat /\ ThreadMayFail \in BOOLEAN

VARIABLES
  doing,      \* per thread, what it does next
  holder,     \* the thread inside a stdio call on stdout, or "nobody"
  suspended,  \* is bg1 suspended?
  typed,      \* how many keys have been typed
  read,       \* how many of them getchar() has returned
  toggles     \* history: how often bg1 was suspended or resumed

suspendVars == <<doing, holder, suspended, typed, read, toggles>>

Bgs     == {"bg1", "bg2"}
Threads == Bgs \cup {"main"}

SuspendInit ==
  /\ doing = [main |-> "create1", bg1 |-> "none", bg2 |-> "none"]
  /\ holder = "nobody"
  /\ suspended = FALSE
  /\ typed = 0 /\ read = 0 /\ toggles = 0

\* Mutant: every background thread is suspended.
RunsUnlessAnySuspended(t) == t # "main" => ~suspended

Runs(t) == t = "bg1" => ~suspended

Does(t, from, to) ==
  /\ Runs(t)
  /\ doing[t] = from /\ doing' = [doing EXCEPT ![t] = to]

Type ==
  /\ typed < MaxKeys
  /\ typed' = typed + 1
  /\ UNCHANGED <<doing, holder, suspended, read, toggles>>

----------------------------------------------------------------------------

\* pthread_create; main sleeps half a second before the second one.
Create(b, from, to) ==
  /\ doing["main"] = from
  /\ \/ doing' = [doing EXCEPT !["main"] = to, ![b] = "sleeping"]
     \/ ThreadMayFail /\ doing' = [doing EXCEPT !["main"] = to]
  /\ UNCHANGED <<holder, suspended, typed, read, toggles>>

\* usleep is over, or the thread is new: on to putchar.
Wake(b) ==
  /\ Does(b, "sleeping", "put")
  /\ UNCHANGED <<holder, suspended, typed, read, toggles>>

LockStdout(t, from, to) ==
  /\ Does(t, from, to)
  /\ holder = "nobody" /\ holder' = t
  /\ UNCHANGED <<suspended, typed, read, toggles>>

\* Mutant: the lock is never given up.
UnlockForgotten(t, from, to) ==
  /\ Does(t, from, to)
  /\ holder = t
  /\ UNCHANGED <<holder, suspended, typed, read, toggles>>

UnlockStdout(t, from, to) ==
  /\ Does(t, from, to)
  /\ holder = t /\ holder' = "nobody"
  /\ UNCHANGED <<suspended, typed, read, toggles>>

GetChar(from, to) ==
  /\ Does("main", from, to)
  /\ read < typed
  /\ read' = read + 1
  /\ UNCHANGED <<holder, suspended, typed, toggles>>

\* pthread_suspend_np fails (and errc ends the program) without a thread; it
\* takes effect wherever bg1 is, inside a call of stdio too.
SuspendBg1 ==
  /\ IF doing["bg1"] = "none"
     THEN Does("main", "suspend", "failed") /\ UNCHANGED <<suspended, toggles>>
     ELSE /\ Does("main", "suspend", "get2")
          /\ suspended' = TRUE
          /\ toggles' = toggles + 1
  /\ UNCHANGED <<holder, typed, read>>

\* Mutant: pthread_suspend_np once more.
ResumeSuspends ==
  /\ Does("main", "resume", "get1")
  /\ suspended' = TRUE
  /\ toggles' = toggles + 1
  /\ UNCHANGED <<holder, typed, read>>

ResumeBg1 ==
  /\ Does("main", "resume", "get1")
  /\ suspended' = FALSE
  /\ toggles' = toggles + 1
  /\ UNCHANGED <<holder, typed, read>>

----------------------------------------------------------------------------

Bg(b) == Wake(b) \/ LockStdout(b, "put", "putting") \/ UnlockStdout(b, "putting", "sleeping")

MainThread ==
  \/ Create("bg1", "create1", "create2") \/ Create("bg2", "create2", "get1")
  \/ GetChar("get1", "sayS") \/ LockStdout("main", "sayS", "sayingS")
  \/ UnlockStdout("main", "sayingS", "suspend") \/ SuspendBg1
  \/ GetChar("get2", "sayR") \/ LockStdout("main", "sayR", "sayingR")
  \/ UnlockStdout("main", "sayingR", "resume") \/ ResumeBg1

Alive == doing["main"] # "failed"

SuspendNext == Alive /\ (Type \/ MainThread \/ \E b \in Bgs : Bg(b))

SuspendSpec == SuspendInit /\ [][SuspendNext]_suspendVars

\* The threads are scheduled; the FILE lock is granted again and again to
\* each thread that asks for it.
SuspendFairness ==
  /\ SF_suspendVars(Alive /\ MainThread)
  /\ \A b \in Bgs : SF_suspendVars(Alive /\ Bg(b))

----------------------------------------------------------------------------
(* Properties.                                                             *)

\* The types of the threads, of the lock of stdout and of the counts of keys.
SuspendTypeOK ==
  /\ doing["main"] \in {"create1", "create2", "get1", "sayS", "sayingS", "suspend", "get2", "sayR",
                     "sayingR", "resume", "failed"}
  /\ \A b \in Bgs : doing[b] \in {"none", "sleeping", "put", "putting"}
  /\ holder \in Threads \cup {"nobody"}
  /\ suspended \in BOOLEAN
  /\ typed \in 0..MaxKeys /\ read \in 0..MaxKeys /\ toggles \in 0..MaxKeys

\* "On each keystroke, toggle background thread 1 between suspended and
\* running": main says -S- or -R- before it acts, and bg1 stands still from
\* the one to the other, as the number of keys that were acted on tells.
TogglesInStep ==
  /\ suspended <=> toggles % 2 = 1
  /\ toggles <= read /\ read <= toggles + 1
  /\ doing["main"] \in {"get1", "get2"} => toggles = read

\* bg1 was suspended with the lock of stdout in its hands: main blocks as it
\* says -R-, and nothing resumes bg1.
Wedged == suspended /\ holder = "bg1"

\* The same comment as a promise: every keystroke toggles bg1 in the end, if
\* there is such a thread; only a suspension inside putchar breaks it.
EveryKeyToggles ==
  \A n \in 1..MaxKeys : typed = n ~> (toggles >= n \/ ~Alive \/ Wedged)

\* Suspending bg1 leaves bg2 alone: it goes on printing, unless that lock has
\* gone with bg1.
OthersKeepPrinting ==
  []<>(doing["bg2"] \in {"none", "putting"} \/ ~Alive \/ Wedged)
============================================================================
