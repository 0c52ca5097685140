------------------------------- MODULE Kbdtst ------------------------------
(***************************************************************************)
(* src/tr7/kbdtst.c: puts the console keyboard into raw mode, reads some   *)
(* scan codes and puts everything back.  Every call that changes or saves  *)
(* the state of the terminal may fail; the program reports the failure and *)
(* goes on with the next call.                                             *)
(***************************************************************************)
EXTENDS Integers

CONSTANTS
  KbModes,          \* the translation modes a keyboard may be in at the start
  MaxRead,          \* bound: how many bytes a read returns
  MayBeInterrupted  \* may the program be killed on its way?

ASSUME KbdtstAssumption ==
  /\ KbModes \subseteq {"xlate", "code", "raw"}
  /\ MaxRead \in Nat \ {0}
  /\ MayBeInterrupted \in BOOLEAN

VARIABLES
  call,       \* the call that comes next
  isconsole,  \* is /dev/tty a console?  Otherwise its ioctls fail
  tty,        \* the keyboard and line settings of the terminal
  before,     \* history: what they were at the start
  oldt,       \* the variable oldt; "garbage" until it is filled
  kbmode,     \* the variable kbmode
  nchar,      \* the variable nchar
  failed,     \* history: the calls that have failed
  shown       \* history: the bytes that have been printed

kbdtstVars == <<call, isconsole, tty, before, oldt, kbmode, nchar, failed, shown>>

Settings == {"cooked", "raw", "garbage"}

KbdtstInit ==
  /\ call = "open"
  /\ isconsole \in BOOLEAN
  /\ tty \in [kb : KbModes, line : {"cooked"}]
  /\ before = tty
  /\ oldt = "garbage"
  /\ kbmode = "garbage"
  /\ nchar = 0
  /\ failed = {}
  /\ shown = 0

AfterCall(from, to) == call = from /\ call' = to

Fails(what) == failed' = failed \cup {what}
Works == UNCHANGED failed

OpenTty ==
  /\ call = "open"
  /\ \/ call' = "info" /\ Works
     \/ call' = "failure" /\ Fails("open")
  /\ UNCHANGED <<isconsole, tty, before, oldt, kbmode, nchar, shown>>

\* CONS_GETVERS, KDGETMODE and KDGKBMODE: only looked at and printed.
Info ==
  /\ AfterCall("info", "save")
  /\ \/ isconsole /\ kbmode' = tty.kb /\ Works
     \/ UNCHANGED kbmode /\ Fails("KDGKBMODE")
  /\ UNCHANGED <<isconsole, tty, before, oldt, nchar, shown>>

\* tcgetattr(fd, &oldt)
Save ==
  /\ AfterCall("save", "raw")
  /\ \/ oldt' = tty.line /\ Works
     \/ UNCHANGED oldt /\ Fails("tcgetattr")
  /\ UNCHANGED <<isconsole, tty, before, kbmode, nchar, shown>>

\* nterm = oldt, cfmakeraw(&nterm), tcsetattr: raw, if oldt meant anything
SetRaw ==
  /\ AfterCall("raw", "kbraw")
  /\ \/ tty' = [tty EXCEPT !.line = IF oldt = "garbage" THEN "garbage" ELSE "raw"] /\ Works
     \/ UNCHANGED tty /\ Fails("tcsetattr raw")
  /\ UNCHANGED <<isconsole, before, oldt, kbmode, nchar, shown>>

\* Mutant: the program gives up when the keyboard cannot be set.
SetKbRawGivesUp ==
  /\ call = "kbraw"
  /\ \/ call' = "read" /\ isconsole /\ tty' = [tty EXCEPT !.kb = "raw"] /\ Works
     \/ call' = "print" /\ UNCHANGED tty /\ Fails("KDSKBMODE raw")
  /\ UNCHANGED <<isconsole, before, oldt, kbmode, nchar, shown>>

SetKbRaw ==
  /\ AfterCall("kbraw", "read")
  /\ \/ isconsole /\ tty' = [tty EXCEPT !.kb = "raw"] /\ Works
     \/ UNCHANGED tty /\ Fails("KDSKBMODE raw")
  /\ UNCHANGED <<isconsole, before, oldt, kbmode, nchar, shown>>

ReadCodes ==
  /\ AfterCall("read", "kbrestore")
  /\ \/ nchar' \in 1..MaxRead /\ Works
     \/ nchar' \in {-1, 0} /\ Fails("read")
  /\ UNCHANGED <<isconsole, tty, before, oldt, kbmode, shown>>

\* kbmode = K_XLATE, whatever it was
KbRestore ==
  /\ AfterCall("kbrestore", "restore")
  /\ kbmode' = "xlate"
  /\ \/ isconsole /\ tty' = [tty EXCEPT !.kb = kbmode'] /\ Works
     \/ UNCHANGED tty /\ Fails("KDSKBMODE")
  /\ UNCHANGED <<isconsole, before, oldt, nchar, shown>>

Restore ==
  /\ AfterCall("restore", "print")
  /\ \/ tty' = [tty EXCEPT !.line = oldt] /\ Works
     \/ UNCHANGED tty /\ Fails("tcsetattr restore")
  /\ UNCHANGED <<isconsole, before, oldt, kbmode, nchar, shown>>

\* for (i = 0; i < nchar; i++)
PrintCodes ==
  /\ call = "print" /\ shown < nchar
  /\ shown' = shown + 1
  /\ UNCHANGED <<call, isconsole, tty, before, oldt, kbmode, nchar, failed>>

Return ==
  /\ AfterCall("print", "end") /\ shown >= nchar
  /\ UNCHANGED <<isconsole, tty, before, oldt, kbmode, nchar, failed, shown>>

Interrupted ==
  /\ MayBeInterrupted /\ call \notin {"end", "failure", "killed"}
  /\ call' = "killed"
  /\ UNCHANGED <<isconsole, tty, before, oldt, kbmode, nchar, failed, shown>>

KbdtstNext ==
  \/ OpenTty \/ Info \/ Save \/ SetRaw \/ SetKbRaw \/ ReadCodes \/ KbRestore \/ Restore
  \/ PrintCodes \/ Return \/ Interrupted

KbdtstSpec == KbdtstInit /\ [][KbdtstNext]_kbdtstVars

----------------------------------------------------------------------------
(* Properties.                                                             *)

\* The types of the terminal, of kbstate and of the loop.
KbdtstTypeOK ==
  /\ call \in {"open", "info", "save", "raw", "kbraw", "read", "kbrestore", "restore", "print",
               "end", "failure", "killed"}
  /\ isconsole \in BOOLEAN
  /\ {tty.kb, before.kb, kbmode} \subseteq {"xlate", "code", "raw", "garbage"}
  /\ {tty.line, before.line, oldt} \subseteq Settings
  /\ nchar \in -1..MaxRead /\ shown \in 0..MaxRead

\* Whichever of the other calls have failed, the line settings come back if
\* they could be saved and the call that restores them works; and a keyboard
\* in translating mode comes back if the call for it works.  Any other mode
\* than that one is lost.
TerminalComesBack ==
  call = "end" =>
    /\ failed \cap {"tcgetattr", "tcsetattr restore"} = {} => tty.line = before.line
    /\ "KDSKBMODE" \notin failed /\ before.kb = "xlate" => tty.kb = "xlate"
    /\ "KDSKBMODE raw" \in failed /\ "KDSKBMODE" \in failed => tty.kb = before.kb
============================================================================
