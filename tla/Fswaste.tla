------------------------------ MODULE Fswaste ------------------------------
(***************************************************************************)
(* src/fswaste.c: walks the directory tree below each argument and adds up *)
(* what its files ask for (st_size) and what they take (st_blocks and the  *)
(* inode).  The walk is not a snapshot: others create, link and remove     *)
(* files while it is on its way.                                           *)
(*                                                                         *)
(* A name stands for a path below the directory it is in: an entry is a    *)
(* pair <<directory, node>>.  What a node adds to the sums is a function   *)
(* of the node, so that the sums are kept as the entries that went in.     *)
(***************************************************************************)
EXTENDS Integers, Sequences, FiniteSets, Functions

CONSTANTS
  Roots,       \* the directories that may be arguments; they stay
  Dirs,        \* the directories below them
  Files,       \* everything that is no directory
  Top,         \* "the entry" of an argument is <<Top, argument>>
  Absent,      \* an argument that does not exist
  ArgLists,    \* the argument lists to consider
  Trees,       \* the sets of entries at the start
  MaxOpen,     \* how many directories can be open at the same time
  Unstatable,  \* the entries lstat may fail for although they are there: no
               \* permission to search the directory, a long path, a bad disk
  Unreadable,  \* the entries opendir may fail for, for want of permission too
  MaxChanges   \* bound: the changes to the file system

Nodes      == Roots \cup Dirs \cup Files
Folders    == Roots \cup Dirs
AllEntries == ({Top} \X Roots) \cup (Folders \X (Dirs \cup Files))

\* A directory has one name, a file may have several (hard links), and
\* nothing hangs in the air.
IsTree(t) ==
  /\ t \subseteq Folders \X (Dirs \cup Files)
  /\ \A d \in Dirs : Cardinality({e \in t : e[2] = d}) <= 1
  /\ \A e \in t : e[1] \in Roots \/ \E f \in t : f[2] = e[1]
  /\ \A d \in Dirs : <<d, d>> \notin t

ASSUME FswasteAssumption ==
  /\ IsFiniteSet(Nodes)
  /\ Roots \cap (Dirs \cup Files) = {} /\ Dirs \cap Files = {}
  /\ {Top, Absent} \cap Nodes = {} /\ Top # Absent
  /\ \A a \in ArgLists : a \in Seq(Roots \cup {Absent})
  /\ \A t \in Trees : IsTree(t)
  /\ Unstatable \subseteq AllEntries /\ Unreadable \subseteq AllEntries
  /\ MaxOpen \in Nat /\ MaxChanges \in Nat

VARIABLES
  args,     \* argv
  optind,   \* the index of the next argument
  pc,       \* what the program does next
  entry,    \* the entry that calc_usage was called for
  stack,    \* the open directories: entry, names readdir has still to give
  size,     \* the entries whose st_size went into use.size, with counts
  space,    \* the entries that went into use.space, with counts
  unopened, \* the directories that were complained about for this argument
  printed,  \* the lines that were printed: argument, size, space
  tree,     \* the entries of the file system
  stayed,   \* history: the entries that were there all the time
  removed,  \* history: the entries that have been removed at least once
  changes   \* how many changes there have been

sums  == <<size, space, unopened>>
disk  == <<tree, stayed, removed, changes>>
vars  == <<args, optind, pc, entry, stack, sums, printed, disk>>

Nothing == [e \in AllEntries |-> 0]

Init ==
  /\ args \in ArgLists
  /\ optind = 1
  /\ pc = "main"
  /\ entry = <<Top, Absent>>
  /\ stack = << >>
  /\ size = Nothing /\ space = Nothing
  /\ unopened = {}
  /\ printed = << >>
  /\ tree \in Trees
  /\ stayed = tree /\ removed = {}
  /\ changes = 0

Exists(e) == e \in tree \/ e \in {Top} \X Roots

----------------------------------------------------------------------------
(* main                                                                    *)

Usage ==
  /\ pc = "main" /\ args = << >>
  /\ pc' = "usage"
  /\ UNCHANGED <<args, optind, entry, stack, sums, printed, disk>>

\* Mutant: the sums of the last argument are kept.
NextArgumentUncleared ==
  /\ pc = "main" /\ optind <= Len(args)
  /\ pc' = "lstat"
  /\ entry' = <<Top, args[optind]>>
  /\ optind' = optind + 1
  /\ UNCHANGED <<args, stack, sums, printed, disk>>

\* struct fsusage use = {0,0}; calc_usage(filename, &use)
NextArgument ==
  /\ pc = "main" /\ optind <= Len(args)
  /\ pc' = "lstat"
  /\ entry' = <<Top, args[optind]>>
  /\ optind' = optind + 1
  /\ size' = Nothing /\ space' = Nothing
  /\ unopened' = {}
  /\ UNCHANGED <<args, stack, printed, disk>>

\* back in main: the line of this argument
PrintLine ==
  /\ pc = "return" /\ stack = << >>
  /\ pc' = "main"
  /\ printed' = Append(printed, [arg |-> args[optind - 1], size |-> size, space |-> space,
                                 unopened |-> unopened])
  /\ UNCHANGED <<args, optind, entry, stack, sums, disk>>

\* Mutant: "optind < argc - 1".
ExitOneEarly ==
  /\ pc = "main" /\ args # << >> /\ optind >= Len(args)
  /\ pc' = "exit"
  /\ UNCHANGED <<args, optind, entry, stack, sums, printed, disk>>

Exit ==
  /\ pc = "main" /\ args # << >> /\ optind > Len(args)
  /\ pc' = "exit"
  /\ UNCHANGED <<args, optind, entry, stack, sums, printed, disk>>

----------------------------------------------------------------------------
(* calc_usage                                                              *)

Add(sum, e) == [sum EXCEPT ![e] = @ + 1]

\* lstat fails: Error() ends the program, whatever is left to do.
LstatFails ==
  /\ pc = "lstat" /\ (~Exists(entry) \/ entry \in Unstatable)
  /\ pc' = "error"
  /\ UNCHANGED <<args, optind, entry, stack, sums, printed, disk>>

\* A regular file, or a link, device or socket: added under each name it has.
CountFile ==
  /\ pc = "lstat" /\ Exists(entry) /\ entry[2] \in Files
  /\ pc' = "return"
  /\ size' = Add(size, entry) /\ space' = Add(space, entry)
  /\ UNCHANGED <<args, optind, entry, stack, unopened, printed, disk>>

IsDirectory ==
  /\ pc = "lstat" /\ Exists(entry) /\ entry[2] \in Folders
  /\ pc' = "opendir"
  /\ UNCHANGED <<args, optind, entry, stack, sums, printed, disk>>

\* What readdir will give is what is in the directory now.
OpenDir ==
  /\ pc = "opendir" /\ Exists(entry) /\ Len(stack) < MaxOpen
  /\ pc' = "return"
  /\ stack' = Append(stack, [of |-> entry, left |-> {e \in tree : e[1] = entry[2]}])
  /\ UNCHANGED <<args, optind, entry, sums, printed, disk>>

\* Mutant: Error() here too.
CannotOpenDies ==
  /\ pc = "opendir"
  /\ ~Exists(entry) \/ Len(stack) >= MaxOpen \/ entry \in Unreadable
  /\ pc' = "error"
  /\ UNCHANGED <<args, optind, entry, stack, sums, printed, disk>>

\* "can't open": nothing of it is counted, nor is the directory itself.
CannotOpen ==
  /\ pc = "opendir"
  /\ ~Exists(entry) \/ Len(stack) >= MaxOpen \/ entry \in Unreadable
  /\ pc' = "return"
  /\ unopened' = unopened \cup {entry}
  /\ UNCHANGED <<args, optind, entry, stack, size, space, printed, disk>>

Innermost == stack[Len(stack)]

\* readdir, in whatever order, and the recursive call
ReadDir ==
  /\ pc = "return" /\ stack # << >>
  /\ \E e \in Innermost.left :
       /\ entry' = e
       /\ stack' = [stack EXCEPT ![Len(stack)].left = @ \ {e}]
  /\ pc' = "lstat"
  /\ UNCHANGED <<args, optind, sums, printed, disk>>

\* closedir; the directory counts for use.space only, as lstat found it.
CloseDir ==
  /\ pc = "return" /\ stack # << >> /\ Innermost.left = {}
  /\ space' = Add(space, Innermost.of)
  /\ stack' = SubSeq(stack, 1, Len(stack) - 1)
  /\ UNCHANGED <<args, optind, pc, entry, size, unopened, printed, disk>>

----------------------------------------------------------------------------
(* The others.  An open directory may or may not show what has changed.  A *)
(* directory that is made again is the node that it was: an old handle may *)
(* then show what is put into it, which is more than can happen.           *)

Change ==
  /\ pc \notin {"usage", "exit", "error"}
  /\ changes < MaxChanges
  /\ changes' = changes + 1
  /\ UNCHANGED <<args, optind, pc, entry, sums, printed>>

Create(e) ==
  /\ e \notin tree /\ IsTree(tree \cup {e})
  /\ tree' = tree \cup {e}
  /\ \/ UNCHANGED stack
     \/ \E k \in DOMAIN stack :
          /\ stack[k].of[2] = e[1] /\ Exists(stack[k].of)
          /\ stack' = [stack EXCEPT ![k].left = @ \cup {e}]
  /\ UNCHANGED <<stayed, removed>>
  /\ Change

Remove(e) ==
  /\ e \in tree /\ ~\E f \in tree : f[1] = e[2]
  /\ tree' = tree \ {e}
  /\ stayed' = stayed \ {e} /\ removed' = removed \cup {e}
  /\ \/ UNCHANGED stack
     \/ \E k \in DOMAIN stack :
          /\ e \in stack[k].left
          /\ stack' = [stack EXCEPT ![k].left = @ \ {e}]
  /\ Change

----------------------------------------------------------------------------

Program ==
  \/ Usage \/ NextArgument \/ PrintLine \/ Exit \/ LstatFails \/ CountFile \/ IsDirectory
  \/ OpenDir \/ CannotOpen \/ ReadDir \/ CloseDir

Next == Program \/ \E e \in Folders \X (Dirs \cup Files) : Create(e) \/ Remove(e)

Spec == Init /\ [][Next]_vars

\* The program is scheduled.
FairSpec == Spec /\ WF_vars(Program)

----------------------------------------------------------------------------
(* Properties.                                                             *)

\* The types, the argument loop and the directory walk included.
TypeOK ==
  /\ args \in ArgLists /\ optind \in 1..(Len(args) + 1)
  /\ pc \in {"main", "lstat", "opendir", "return", "usage", "exit", "error"}
  /\ entry \in AllEntries \cup {<<Top, Absent>>}
  /\ \A k \in DOMAIN stack : stack[k].of \in AllEntries /\ stack[k].left \subseteq AllEntries
  /\ size \in [AllEntries -> Nat] /\ space \in [AllEntries -> Nat]
  /\ unopened \subseteq AllEntries
  /\ Len(printed) < optind
  /\ IsTree(tree) /\ stayed \subseteq tree \ removed /\ removed \subseteq AllEntries

\* ds has the directories that the entries in t put into its own.
Descends(ds, t) == \A e \in t : e[1] \in ds /\ e[2] \in Dirs => e[2] \in ds

\* The root r and the directories below it.
Below(t, r) ==
  {d \in Folders : \A ds \in SUBSET Folders : r \in ds /\ Descends(ds, t) => d \in ds}

\* The directories that were open for certain while this line was made.
Walked(line) ==
  IF <<Top, line.arg>> \in line.unopened
  THEN {}
  ELSE Below(stayed \ line.unopened, line.arg)

StayedIsIn(line) ==
  \A e \in stayed : e[1] \in Walked(line) =>
    /\ line.size[e] = (IF e[2] \in Files THEN 1 ELSE 0)
    /\ line.space[e] = (IF e \in line.unopened THEN 0 ELSE 1)

NothingElseIsIn(line) ==
  \A e \in AllEntries :
    line.size[e] + line.space[e] > 0 => e \in tree \cup removed \cup {<<Top, line.arg>>}

NothingIsInTwice(line) ==
  \A e \in AllEntries \ removed :
    line.space[e] > 1 => e[1] \notin {Top} \cup Below(tree \ removed, line.arg)

\* What lay below the argument all the time, outside of what could not be
\* opened, is in each sum once; what never was there is in none of them; and
\* only what was removed and came back, itself or with a directory above it,
\* can be in one of them twice.
SumsRight ==
  \A k \in DOMAIN printed :
    StayedIsIn(printed[k]) /\ NothingElseIsIn(printed[k]) /\ NothingIsInTwice(printed[k])

\* Error() comes of lstat alone: the entry it stopped at is an argument that
\* does not exist, one that was removed since readdir gave it, or one that
\* lstat may not look at.  A directory that cannot be opened, for whatever
\* reason and at whatever depth, ends nothing; and every argument before the
\* one where it happens has its line.
DiesOfLstat ==
  pc = "error" =>
    /\ entry \in {<<Top, Absent>>} \cup removed \cup Unstatable
    /\ Len(printed) = optind - 2

\* Every argument gets its line in the end, unless Error() came before.
EveryArgumentPrinted ==
  <>(pc \in {"usage", "error"} \/ (pc = "exit" /\ Len(printed) = Len(args)))
============================================================================
