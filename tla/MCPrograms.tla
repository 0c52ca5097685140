----------------------------- MODULE MCPrograms ----------------------------
(***************************************************************************)
(* The programs that share nothing with another process, each on every     *)
(* input of a bounded size: the tools, psort, kbdtst and perfmon.  They do *)
(* not interact: a behaviour is a run of one of them, while the others     *)
(* stay in one of their initial states.                                    *)
(***************************************************************************)
EXTENDS MCTools, MCPsort, Kbdtst, Perfmon

VARIABLE running   \* the program that is run

ProgramsInit ==
  /\ running \in {"tools", "psort", "kbdtst", "perfmon"}
  /\ ToolsInit
  /\ Init /\ (running # "psort" => argc = 1 /\ source = << >> /\ control = << >>)
  /\ KbdtstInit /\ (running # "kbdtst" => ~isconsole /\ tty.kb = "xlate")
  /\ PerfmonInit /\ (running # "perfmon" => loops = 0 /\ counter.value = 0)

ProgramsNext ==
  /\ \/ running = "tools"   /\ ToolsNext   /\ UNCHANGED <<vars, kbdtstVars, perfmonVars>>
     \/ running = "psort"   /\ Next        /\ UNCHANGED <<input, kbdtstVars, perfmonVars>>
     \/ running = "kbdtst"  /\ KbdtstNext  /\ UNCHANGED <<input, vars, perfmonVars>>
     \/ running = "perfmon" /\ PerfmonNext /\ UNCHANGED <<input, vars, kbdtstVars>>
  /\ UNCHANGED running

ProgramsSpec ==
  ProgramsInit /\ [][ProgramsNext]_<<running, input, vars, kbdtstVars, perfmonVars>>
============================================================================
