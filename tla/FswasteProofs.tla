--------------------------- MODULE FswasteProofs ---------------------------
(***************************************************************************)
(* Theorems about Fswaste, for every tree, every list of arguments and any *)
(* number of changes by others: what ends the program early, and that the  *)
(* sums are right.                                                         *)
(***************************************************************************)
EXTENDS Fswaste, FiniteSetTheorems, SequenceTheorems, TLAPS

Frames  == [of : AllEntries, left : SUBSET AllEntries]
Reports == [arg : Roots \cup {Absent}, size : [AllEntries -> Nat],
            space : [AllEntries -> Nat], unopened : SUBSET AllEntries]

\* The argument of this walk, and its entry.
Walking  == pc \in {"lstat", "opendir", "return"}
Arg      == args[optind - 1]
TopEntry == <<Top, Arg>>

TypeInv ==
  /\ TypeOK
  /\ stack \in Seq(Frames) /\ printed \in Seq(Reports)
  /\ removed \subseteq Folders \X (Dirs \cup Files)
  /\ pc \in {"main", "usage", "exit"} => stack = << >>
  /\ Walking \/ pc = "error" => optind > 1
  /\ Walking => Len(printed) + 1 < optind
  /\ pc = "opendir" => entry \in AllEntries /\ entry[2] \in Folders

\* What the walk has come across was there at some time; a directory shows
\* what is in it as long as it is there.
Known(e) == e \in tree \cup removed \cup {TopEntry}

StackKnown ==
  \A k \in DOMAIN stack :
    /\ Known(stack[k].of) /\ stack[k].of[2] \in Folders
    /\ \A e \in stack[k].left :
         /\ e \in tree \cup removed /\ e[1] = stack[k].of[2]
         /\ e \notin removed => Exists(stack[k].of)

EntryKnown ==
  /\ pc \in {"lstat", "opendir"} => Known(entry)
  /\ stack # << >> \/ pc \in {"opendir", "return"} => Arg \in Roots
  /\ pc = "lstat" => entry = TopEntry \/ Arg \in Roots

SumsKnown ==
  Walking => \A e \in AllEntries :
    /\ space[e] > 0 => Known(e)
    /\ e \in unopened => Known(e) /\ e[2] \in Folders
    /\ size[e] = IF e[2] \in Files THEN space[e] ELSE 0

KnownInv == StackKnown /\ EntryKnown /\ SumsKnown

ErrorInv ==
  /\ pc = "main" => Len(printed) = optind - 1
  /\ Walking \/ pc = "error" => Len(printed) = optind - 2
  /\ pc = "error" => entry \in {<<Top, Absent>>} \cup removed \cup Unstatable

----------------------------------------------------------------------------
(* Where an entry is on its way through the walk.                          *)

Waiting(e) == \E k \in DOMAIN stack : e \in stack[k].left
Now(e)     == pc \in {"lstat", "opendir"} /\ entry = e
Open(e)    == \E k \in DOMAIN stack : stack[k].of = e
Counted(e) == space[e] > 0
Failed(e)  == e \in unopened

Touched(e) == Waiting(e) \/ Now(e) \/ Open(e) \/ Counted(e) \/ Failed(e)
Opened(e)  == Open(e) \/ Counted(e)

InOneFrame(e) ==
  /\ \A j, k \in DOMAIN stack : stack[j].of = e /\ stack[k].of = e => j = k
  /\ \A j, k \in DOMAIN stack : e \in stack[j].left /\ e \in stack[k].left => j = k

InOnePlace(e) ==
  /\ Waiting(e) => ~Now(e) /\ ~Open(e) /\ ~Counted(e) /\ ~Failed(e)
  /\ Now(e) => ~Open(e) /\ ~Counted(e) /\ ~Failed(e)
  /\ Open(e) => ~Counted(e) /\ ~Failed(e)
  /\ Counted(e) => ~Failed(e)

AtMostOnce(e) == space[e] <= 1 /\ InOneFrame(e) /\ InOnePlace(e)

\* An entry that was never removed, nor was a directory above it.
Clean(e) ==
  \/ e = TopEntry
  \/ e \in tree \ removed /\ e[1] \in Below(tree \ removed, Arg)

\* Such an entry is in one place at a time, and the walk meets it only after
\* the directory that it is in.
After(e) == Touched(e) => \A p \in AllEntries : Clean(p) /\ p[2] = e[1] => Opened(p)

OnceInv ==
  Walking /\ Arg \in Roots =>
    \A e \in AllEntries : Clean(e) => AtMostOnce(e) /\ After(e)

\* What was there all the time is met when its directory is opened.
MetInv ==
  Walking /\ Arg \in Roots =>
    /\ Touched(TopEntry)
    /\ \A e \in stayed, p \in AllEntries : p[2] = e[1] /\ Opened(p) => Touched(e)

IInv == TypeInv /\ KnownInv /\ ErrorInv /\ OnceInv /\ MetInv /\ SumsRight

----------------------------------------------------------------------------
(* Trees.                                                                  *)

LEMMA Sets ==
  /\ Roots \cap Dirs = {} /\ Roots \cap Files = {} /\ Dirs \cap Files = {}
  /\ Top \notin Nodes /\ Absent \notin Nodes /\ Top # Absent
  /\ Folders = Roots \cup Dirs /\ Nodes = Folders \cup Files
  /\ \A a \in ArgLists : a \in Seq(Roots \cup {Absent})
  /\ MaxOpen \in Nat /\ MaxChanges \in Nat
BY FswasteAssumption DEF Nodes, Folders

LEMMA TreeFinite ==
  ASSUME NEW t \in SUBSET (Folders \X (Dirs \cup Files))
  PROVE  IsFiniteSet(t)
<1>1. IsFiniteSet(Folders) /\ IsFiniteSet(Dirs \cup Files)
  BY FswasteAssumption, FS_Subset DEF Nodes, Folders
<1> QED
  BY <1>1, FS_Product, FS_Subset

\* A directory has one name.
LEMMA OneName ==
  ASSUME NEW t, IsTree(t), NEW e \in t, NEW f \in t, e[2] \in Dirs, e[2] = f[2]
  PROVE  e = f
<1> SUFFICES ASSUME e # f PROVE FALSE
  OBVIOUS
<1> DEFINE named == {g \in t : g[2] = e[2]}
<1>1. IsFiniteSet(named) /\ Cardinality(named) <= 1
  <2>1. named \in SUBSET (Folders \X (Dirs \cup Files))
    BY DEF IsTree
  <2> QED
    BY <2>1, TreeFinite DEF IsTree
<1>2. Cardinality({e}) = 1 /\ IsFiniteSet({e})
  BY FS_Singleton
<1>3. Cardinality({e} \cup {f}) = 2
  <2>1. f \notin {e}
    OBVIOUS
  <2>2. Cardinality({e} \cup {f}) = Cardinality({e}) + 1
    BY <1>2, <2>1, FS_AddElement, Zenon
  <2> QED
    BY <1>2, <2>2
<1>4. {e} \cup {f} \subseteq named
  OBVIOUS
<1>5. Cardinality({e} \cup {f}) <= Cardinality(named) /\ Cardinality(named) \in Nat
  BY <1>1, <1>4, FS_Subset, FS_CardinalityType
<1> HIDE DEF named
<1> QED
  BY <1>1, <1>3, <1>5

LEMMA TreeRemove ==
  ASSUME NEW t, IsTree(t), NEW e \in t, ~\E f \in t : f[1] = e[2]
  PROVE  IsTree(t \ {e})
<1>1. t \subseteq Folders \X (Dirs \cup Files)
  BY DEF IsTree
<1>2. ASSUME NEW d \in Dirs PROVE Cardinality({f \in t \ {e} : f[2] = d}) <= 1
  <2> DEFINE before == {f \in t : f[2] = d}  after == {f \in t \ {e} : f[2] = d}
  <2>1. before \in SUBSET (Folders \X (Dirs \cup Files)) /\ after \in SUBSET before
    BY <1>1
  <2>2. IsFiniteSet(before) /\ Cardinality(before) <= 1
    BY <2>1, TreeFinite DEF IsTree
  <2>3. Cardinality(after) <= Cardinality(before)
    BY <2>1, <2>2, FS_Subset
  <2>4. Cardinality(after) \in Nat /\ Cardinality(before) \in Nat
    BY <2>1, <2>2, FS_Subset, FS_CardinalityType
  <2> QED
    BY <2>2, <2>3, <2>4
<1>3. \A f \in t \ {e} : f[1] \in Roots \/ \E g \in t \ {e} : g[2] = f[1]
  BY DEF IsTree
<1>4. \A d \in Dirs : <<d, d>> \notin t \ {e}
  BY DEF IsTree
<1> QED
  BY <1>1, <1>2, <1>3, <1>4 DEF IsTree

\* Nothing is in a directory that has just got its name.
LEMMA NewIsEmpty ==
  ASSUME NEW t, IsTree(t), NEW e, e \notin t, IsTree(t \cup {e}), NEW f \in t
  PROVE  f[1] # e[2]
<1> SUFFICES ASSUME f[1] = e[2] PROVE FALSE
  OBVIOUS
<1>1. e \in Folders \X (Dirs \cup Files) /\ f \in Folders \X (Dirs \cup Files)
  BY DEF IsTree
<1>2. f[1] \in Dirs
  BY <1>1, Sets
<1>3. PICK g \in t : g[2] = f[1]
  BY <1>2, Sets DEF IsTree
<1>4. g = e
  BY <1>2, <1>3, OneName
<1> QED
  BY <1>4

----------------------------------------------------------------------------
(* The directories below a root.                                           *)

LEMMA BelowRoot ==
  ASSUME NEW r \in Roots, NEW t
  PROVE  /\ r \in Below(t, r) /\ Below(t, r) \subseteq Folders
         /\ Descends(Below(t, r), t)
BY Sets DEF Below, Descends

LEMMA BelowLeast ==
  ASSUME NEW r, NEW t, NEW ds \in SUBSET Folders, r \in ds, Descends(ds, t)
  PROVE  Below(t, r) \subseteq ds
BY DEF Below

LEMMA BelowMonotone ==
  ASSUME NEW r, NEW t, NEW u \in SUBSET t
  PROVE  Below(u, r) \subseteq Below(t, r)
BY DEF Below, Descends

\* What is below the root is in a directory that is below the root.
LEMMA BelowHasParent ==
  ASSUME NEW r \in Roots, NEW t, NEW d \in Below(t, r), d # r
  PROVE  \E e \in t : e[1] \in Below(t, r) /\ e[2] = d
<1> SUFFICES ASSUME \A e \in t : e[1] \in Below(t, r) => e[2] # d PROVE FALSE
  OBVIOUS
<1>1. Descends(Below(t, r) \ {d}, t)
  BY BelowRoot DEF Descends
<1>2. Below(t, r) \subseteq Below(t, r) \ {d}
  BY <1>1, BelowRoot, BelowLeast
<1> QED
  BY <1>2

\* A new entry puts at most its own directory below the root.
LEMMA BelowCreate ==
  ASSUME NEW r \in Roots, NEW t, NEW e, e[2] \in Dirs \cup Files, \A f \in t : f[1] # e[2]
  PROVE  Below(t \cup {e}, r) \subseteq Below(t, r) \cup {e[2]}
<1> DEFINE ds == Below(t, r) \cup ({e[2]} \cap Dirs)
<1>1. ds \subseteq Folders /\ r \in ds
  BY BelowRoot, Sets
<1>2. Descends(ds, t \cup {e})
  BY BelowRoot DEF Descends
<1> QED
  BY <1>1, <1>2, BelowLeast

----------------------------------------------------------------------------
(* The stack of open directories.                                          *)

LEMMA Push ==
  ASSUME stack \in Seq(Frames), NEW f \in Frames, stack' = Append(stack, f)
  PROVE  /\ stack' \in Seq(Frames) /\ Len(stack) \in Nat
         /\ DOMAIN stack = 1..Len(stack) /\ DOMAIN stack' = DOMAIN stack \cup {Len(stack) + 1}
         /\ \A k \in DOMAIN stack : stack'[k] = stack[k]
         /\ stack'[Len(stack) + 1] = f /\ Len(stack) + 1 \notin DOMAIN stack
<1>1. /\ Len(stack) \in Nat /\ DOMAIN stack = 1..Len(stack) /\ stack' \in Seq(Frames)
      /\ DOMAIN stack' = 1..(Len(stack) + 1)
      /\ \A k \in 1..Len(stack) : stack'[k] = stack[k]
      /\ stack'[Len(stack) + 1] = f
  BY AppendProperties, LenProperties
<1>2. 1..(Len(stack) + 1) = 1..Len(stack) \cup {Len(stack) + 1}
  BY <1>1
<1>3. Len(stack) + 1 \notin 1..Len(stack)
  BY <1>1
<1> QED
  BY <1>1, <1>2, <1>3

LEMMA Pop ==
  ASSUME stack \in Seq(Frames), stack # << >>, stack' = SubSeq(stack, 1, Len(stack) - 1)
  PROVE  /\ stack' \in Seq(Frames) /\ Len(stack) \in DOMAIN stack
         /\ DOMAIN stack' = DOMAIN stack \ {Len(stack)}
         /\ \A k \in DOMAIN stack' : stack'[k] = stack[k]
<1>1. Len(stack) \in Nat /\ Len(stack) # 0 /\ DOMAIN stack = 1..Len(stack)
  BY LenProperties, EmptySeq
<1>2. /\ stack' \in Seq(Frames) /\ DOMAIN stack' = 1..(Len(stack) - 1)
      /\ \A k \in 1..(Len(stack) - 1) : stack'[k] = stack[k]
  BY <1>1
<1>3. 1..(Len(stack) - 1) = 1..Len(stack) \ {Len(stack)} /\ Len(stack) \in 1..Len(stack)
  BY <1>1
<1> QED
  BY <1>1, <1>2, <1>3

LEMMA Relist ==
  ASSUME stack \in Seq(Frames), NEW n \in DOMAIN stack, NEW l \in SUBSET AllEntries,
         stack' = [stack EXCEPT ![n].left = l]
  PROVE  /\ stack' \in Seq(Frames) /\ DOMAIN stack' = DOMAIN stack /\ Len(stack') = Len(stack)
         /\ \A k \in DOMAIN stack : /\ stack'[k].of = stack[k].of
                                    /\ k # n => stack'[k].left = stack[k].left
         /\ stack'[n].left = l
<1>1. /\ Len(stack) \in Nat /\ DOMAIN stack = 1..Len(stack)
      /\ stack \in [1..Len(stack) -> Frames]
  BY LenProperties
<1>2. [stack[n] EXCEPT !.left = l] \in Frames
  BY <1>1 DEF Frames
<1>3. stack' \in [1..Len(stack) -> Frames]
  BY <1>1, <1>2
<1>4. stack' \in Seq(Frames) /\ Len(stack') = Len(stack) /\ DOMAIN stack' = 1..Len(stack)
  BY <1>1, <1>3
<1>5. \A k \in 1..Len(stack) : stack[k] \in Frames
  BY <1>1
<1> QED
  BY <1>1, <1>4, <1>5 DEF Frames

LEMMA FrameTypes ==
  ASSUME NEW s \in Seq(Frames), NEW k \in DOMAIN s
  PROVE  s[k].of \in AllEntries /\ s[k].left \subseteq AllEntries
<1>1. s[k] \in Frames
  BY LenProperties, ElementOfSeq
<1> QED
  BY <1>1 DEF Frames

LEMMA InnermostIsLast ==
  ASSUME stack \in Seq(Frames), stack # << >>
  PROVE  Len(stack) \in DOMAIN stack /\ Innermost = stack[Len(stack)]
BY LenProperties, EmptySeq DEF Innermost

----------------------------------------------------------------------------
(* Types.                                                                  *)

LEMMA InitType == Init => TypeInv
<1> SUFFICES ASSUME Init PROVE TypeInv
  OBVIOUS
<1>1. Len(args) \in Nat /\ optind = 1
  BY Sets, LenProperties DEF Init
<1>2. stack = << >> /\ printed = << >>
      /\ stack \in Seq(Frames) /\ printed \in Seq(Reports) /\ Len(printed) = 0
  BY DEF Init
<1>3. size \in [AllEntries -> Nat] /\ space \in [AllEntries -> Nat]
  BY DEF Init, Nothing
<1>4. IsTree(tree)
  BY FswasteAssumption DEF Init
<1>5. TypeOK
  BY <1>1, <1>2, <1>3, <1>4 DEF Init, TypeOK
<1> QED
  BY <1>2, <1>5 DEF Init, TypeInv, Walking

LEMMA Numbers ==
  ASSUME TypeInv
  PROVE  /\ args \in Seq(Roots \cup {Absent}) /\ Len(args) \in Nat
         /\ optind \in Nat /\ 1 <= optind /\ optind <= Len(args) + 1
         /\ \A k \in 1..Len(args) : args[k] \in Roots \cup {Absent}
         /\ optind > 1 => Arg \in Roots \cup {Absent} /\ Arg \in Range(args)
<1>1. args \in Seq(Roots \cup {Absent}) /\ Len(args) \in Nat /\ DOMAIN args = 1..Len(args)
  BY Sets, LenProperties DEF TypeInv, TypeOK
<1>2. optind \in Nat /\ 1 <= optind /\ optind <= Len(args) + 1
  BY <1>1 DEF TypeInv, TypeOK
<1>3. \A k \in 1..Len(args) : args[k] \in Roots \cup {Absent}
  BY <1>1, ElementOfSeq
<1>4. optind > 1 => optind - 1 \in 1..Len(args)
  BY <1>1, <1>2
<1> QED
  BY <1>1, <1>2, <1>3, <1>4 DEF Arg, Range

LEMMA AddTypes ==
  ASSUME NEW sum \in [AllEntries -> Nat], NEW e \in AllEntries
  PROVE  /\ Add(sum, e) \in [AllEntries -> Nat]
         /\ \A f \in AllEntries : Add(sum, e)[f] = IF f = e THEN sum[f] + 1 ELSE sum[f]
BY DEF Add

LEMMA ExistsTypes ==
  ASSUME IsTree(tree), NEW e, Exists(e)
  PROVE  e \in AllEntries
BY DEF Exists, AllEntries, IsTree

LEMMA TypeStep == TypeInv /\ [Next]_vars => TypeInv'
<1> SUFFICES ASSUME TypeInv, [Next]_vars PROVE TypeInv'
  OBVIOUS
<1> USE DEF TypeInv, TypeOK, Walking, sums, disk
<1>0. /\ optind \in Nat /\ Len(args) \in Nat /\ Len(printed) \in Nat /\ Len(stack) \in Nat
      /\ \A k \in DOMAIN stack : stack[k].of \in AllEntries /\ stack[k].left \subseteq AllEntries
  BY Numbers, LenProperties, FrameTypes
<1>1. CASE Usage \/ Exit
  BY <1>1 DEF Usage, Exit
<1>2. CASE NextArgument
  <2>1. optind \in 1..Len(args) /\ optind' = optind + 1 /\ args' = args
    BY <1>2, Numbers DEF NextArgument
  <2>2. entry' \in AllEntries \cup {<<Top, Absent>>}
    BY <1>2, <2>1, Numbers DEF NextArgument, AllEntries
  <2>3. size' \in [AllEntries -> Nat] /\ space' \in [AllEntries -> Nat]
    BY <1>2 DEF NextArgument, Nothing
  <2>4. /\ optind' \in 1..(Len(args') + 1) /\ optind' > 1
        /\ Len(printed) < optind' /\ Len(printed) + 1 < optind'
    BY <1>0, <2>1
  <2> QED
    BY <1>2, <2>2, <2>3, <2>4 DEF NextArgument
<1>3. CASE PrintLine
  <2> DEFINE line == [arg |-> args[optind - 1], size |-> size, space |-> space,
                      unopened |-> unopened]
  <2>1. line \in Reports
    BY <1>3, Numbers DEF PrintLine, Reports, Arg
  <2>2. printed' \in Seq(Reports) /\ Len(printed') = Len(printed) + 1
    BY <1>3, <2>1, AppendProperties DEF PrintLine
  <2> QED
    BY <1>0, <1>3, <2>2 DEF PrintLine
<1>4. CASE LstatFails \/ IsDirectory
  BY <1>4, ExistsTypes DEF LstatFails, IsDirectory
<1>5. CASE CountFile
  <2>1. size' \in [AllEntries -> Nat] /\ space' \in [AllEntries -> Nat]
    BY <1>5, ExistsTypes, AddTypes DEF CountFile
  <2> QED
    BY <1>5, <2>1 DEF CountFile
<1>6. CASE OpenDir
  <2>1. [of |-> entry, left |-> {e \in tree : e[1] = entry[2]}] \in Frames
    BY <1>6 DEF OpenDir, Frames, IsTree, AllEntries
  <2>2. stack' \in Seq(Frames)
    BY <1>6, <2>1, Push DEF OpenDir
  <2> QED
    BY <1>6, <2>2, FrameTypes DEF OpenDir
<1>7. CASE CannotOpen
  BY <1>7 DEF CannotOpen
<1>8. CASE ReadDir
  <2>1. Len(stack) \in DOMAIN stack /\ Innermost = stack[Len(stack)]
    BY <1>8, InnermostIsLast DEF ReadDir
  <2>2. PICK e \in Innermost.left : /\ stack' = [stack EXCEPT ![Len(stack)].left = @ \ {e}]
                                   /\ entry' = e
    BY <1>8 DEF ReadDir
  <2>3. e \in AllEntries /\ Innermost.left \ {e} \subseteq AllEntries
    BY <1>0, <2>1
  <2>4. stack' \in Seq(Frames)
    BY <2>1, <2>2, <2>3, Relist
  <2> QED
    BY <1>8, <2>2, <2>3, <2>4, FrameTypes DEF ReadDir
<1>9. CASE CloseDir
  <2>1. stack' \in Seq(Frames)
    BY <1>9, Pop DEF CloseDir
  <2>2. space' \in [AllEntries -> Nat]
    BY <1>0, <1>9, InnermostIsLast, AddTypes DEF CloseDir
  <2> QED
    BY <1>9, <2>1, <2>2, FrameTypes DEF CloseDir
<1>10. ASSUME NEW e \in Folders \X (Dirs \cup Files), Create(e) PROVE TypeInv'
  <2>1. stack' \in Seq(Frames) /\ (stack' # << >> => stack # << >>)
    <3>1. CASE stack' = stack
      BY <3>1
    <3>2. CASE \E k \in DOMAIN stack : stack' = [stack EXCEPT ![k].left = @ \cup {e}]
      <4>1. PICK k \in DOMAIN stack : stack' = [stack EXCEPT ![k].left = @ \cup {e}]
        BY <3>2
      <4>2. stack[k].left \cup {e} \in SUBSET AllEntries /\ stack # << >>
        BY <1>0, <4>1 DEF AllEntries
      <4> QED
        BY <4>1, <4>2, Relist
    <3> QED
      BY <1>10, <3>1, <3>2 DEF Create
  <2>2. /\ stayed' \subseteq tree' \ removed' /\ IsTree(tree')
        /\ removed' \subseteq AllEntries /\ removed' \subseteq Folders \X (Dirs \cup Files)
    BY <1>10 DEF Create
  <2> QED
    BY <1>10, <2>1, <2>2, FrameTypes DEF Create, Change
<1>11. ASSUME NEW e \in Folders \X (Dirs \cup Files), Remove(e) PROVE TypeInv'
  <2>1. stack' \in Seq(Frames) /\ (stack' # << >> => stack # << >>)
    <3>1. CASE stack' = stack
      BY <3>1
    <3>2. CASE \E k \in DOMAIN stack : stack' = [stack EXCEPT ![k].left = @ \ {e}]
      <4>1. PICK k \in DOMAIN stack : stack' = [stack EXCEPT ![k].left = @ \ {e}]
        BY <3>2
      <4>2. stack[k].left \ {e} \in SUBSET AllEntries /\ stack # << >>
        BY <1>0, <4>1
      <4> QED
        BY <4>1, <4>2, Relist
    <3> QED
      BY <1>11, <3>1, <3>2 DEF Remove
  <2>2. /\ stayed' \subseteq tree' \ removed' /\ IsTree(tree')
        /\ removed' \subseteq AllEntries /\ removed' \subseteq Folders \X (Dirs \cup Files)
    BY <1>11, TreeRemove DEF Remove, AllEntries
  <2> QED
    BY <1>11, <2>1, <2>2, FrameTypes DEF Remove, Change
<1>12. CASE UNCHANGED vars
  BY <1>12 DEF vars
<1> QED
  BY <1>1, <1>2, <1>3, <1>4, <1>5, <1>6, <1>7, <1>8, <1>9, <1>10, <1>11, <1>12
     DEF Next, Program

----------------------------------------------------------------------------
(* What the walk meets was there, and what ends it has a cause.            *)

LEMMA InitKnown == Init => KnownInv /\ ErrorInv
<1> SUFFICES ASSUME Init PROVE KnownInv /\ ErrorInv
  OBVIOUS
<1>1. /\ pc = "main" /\ stack = << >> /\ DOMAIN stack = {}
      /\ Len(printed) = optind - 1
  BY DEF Init
<1> QED
  BY <1>1 DEF KnownInv, StackKnown, EntryKnown, SumsKnown, ErrorInv, Walking

\* What was known stays known, as long as the argument is the same.
LEMMA StaysKnown ==
  ASSUME TypeInv, Next, UNCHANGED <<args, optind>>, NEW e
  PROVE  /\ Known(e) => Known(e)'
         /\ e \in tree \cup removed => e \in tree' \cup removed'
         /\ Arg' = Arg /\ TopEntry' = TopEntry
BY DEF Known, Arg, TopEntry, Next, Program, Usage, NextArgument, PrintLine, Exit, LstatFails,
       CountFile, IsDirectory, OpenDir, CannotOpen, ReadDir, CloseDir, Create, Remove, disk

LEMMA ExistsKnown ==
  ASSUME TypeInv, NEW e, Exists(e), Known(e)
  PROVE  e \in tree \/ (e = TopEntry /\ Arg \in Roots)
<1>1. CASE e \in {Top} \X Roots
  <2>1. e[1] = Top /\ e[1] \notin Folders
    BY <1>1, Sets
  <2>2. e \notin tree /\ e \notin removed
    BY <2>1 DEF TypeInv, TypeOK, IsTree
  <2> QED
    BY <1>1, <2>2 DEF Known, TopEntry
<1> QED
  BY <1>1 DEF Exists

LEMMA StackKnownStep == TypeInv /\ KnownInv /\ [Next]_vars => StackKnown'
<1> SUFFICES ASSUME TypeInv, KnownInv, Next PROVE StackKnown'
  BY DEF KnownInv, StackKnown, Known, Exists, TopEntry, Arg, vars, disk
<1>0. stack \in Seq(Frames) /\ IsTree(tree) /\ StackKnown /\ EntryKnown
  BY DEF TypeInv, TypeOK, KnownInv
<1>1. CASE stack' = << >>
  BY <1>1 DEF StackKnown
<1>2. ASSUME UNCHANGED <<args, optind, disk>>, 
             \A k \in DOMAIN stack' : /\ k \in DOMAIN stack /\ stack'[k].of = stack[k].of
                                      /\ stack'[k].left \subseteq stack[k].left
      PROVE  StackKnown'
  BY <1>0, <1>2 DEF StackKnown, Known, Exists, TopEntry, Arg, disk
<1>3. CASE Usage \/ NextArgument \/ PrintLine \/ Exit
  <2>1. stack' = << >>
    BY <1>3 DEF Usage, NextArgument, PrintLine, Exit, TypeInv
  <2> QED
    BY <1>1, <2>1
<1>4. CASE LstatFails \/ CountFile \/ IsDirectory \/ CannotOpen
  BY <1>2, <1>4 DEF LstatFails, CountFile, IsDirectory, CannotOpen
<1>5. CASE OpenDir
  <2> DEFINE f == [of |-> entry, left |-> {e \in tree : e[1] = entry[2]}]
  <2>1. /\ stack' = Append(stack, f) /\ Exists(entry) /\ Known(entry)
        /\ entry \in AllEntries /\ entry[2] \in Folders /\ UNCHANGED <<args, optind, disk>>
    BY <1>0, <1>5 DEF OpenDir, EntryKnown, TypeInv
  <2>2. f \in Frames
    BY <1>0, <2>1 DEF Frames, IsTree, AllEntries
  <2>3. ASSUME NEW k \in DOMAIN stack PROVE stack'[k] = stack[k]
    BY <1>0, <2>1, <2>2, Push
  <2>4. DOMAIN stack' = DOMAIN stack \cup {Len(stack) + 1} /\ stack'[Len(stack) + 1] = f
    BY <1>0, <2>1, <2>2, Push
  <2>5. /\ Known(f.of) /\ f.of[2] \in Folders
        /\ \A e \in f.left : e \in tree /\ e[1] = f.of[2] /\ Exists(f.of)
    BY <2>1
  <2> HIDE DEF f
  <2> QED
    BY <1>0, <2>1, <2>3, <2>4, <2>5 DEF StackKnown, Known, Exists, TopEntry, Arg, disk
<1>6. CASE ReadDir
  <2>1. Len(stack) \in DOMAIN stack /\ Innermost = stack[Len(stack)]
    BY <1>0, <1>6, InnermostIsLast DEF ReadDir
  <2>2. PICK e \in Innermost.left : stack' = [stack EXCEPT ![Len(stack)].left = @ \ {e}]
    BY <1>6 DEF ReadDir
  <2>3. Innermost.left \ {e} \in SUBSET AllEntries
    BY <1>0, <2>1, FrameTypes
  <2> QED
    BY <1>0, <1>2, <1>6, <2>1, <2>2, <2>3, Relist DEF ReadDir
<1>7. CASE CloseDir
  BY <1>0, <1>2, <1>7, Pop DEF CloseDir
<1>8. ASSUME NEW e \in Folders \X (Dirs \cup Files), Create(e) PROVE StackKnown'
  <2>1. tree' = tree \cup {e} /\ UNCHANGED <<args, optind, removed>>
    BY <1>8 DEF Create, Change
  <2>2. CASE stack' = stack
    BY <1>0, <2>1, <2>2 DEF StackKnown, Known, Exists, TopEntry, Arg
  <2>3. CASE \E k \in DOMAIN stack :
               /\ stack[k].of[2] = e[1] /\ Exists(stack[k].of)
               /\ stack' = [stack EXCEPT ![k].left = @ \cup {e}]
    <3>1. PICK k \in DOMAIN stack :
            /\ stack[k].of[2] = e[1] /\ Exists(stack[k].of)
            /\ stack' = [stack EXCEPT ![k].left = stack[k].left \cup {e}]
      BY <2>3
    <3>2. stack[k].left \cup {e} \in SUBSET AllEntries
      BY <1>0, FrameTypes DEF AllEntries
    <3>3. /\ DOMAIN stack' = DOMAIN stack /\ \A j \in DOMAIN stack : stack'[j].of = stack[j].of
          /\ \A j \in DOMAIN stack : stack'[j].left \subseteq stack[j].left \/ j = k
          /\ stack'[k].left = stack[k].left \cup {e}
      BY <1>0, <3>1, <3>2, Relist
    <3> QED
      BY <1>0, <2>1, <3>1, <3>3 DEF StackKnown, Known, Exists, TopEntry, Arg
  <2> QED
    BY <1>8, <2>2, <2>3 DEF Create
<1>9. ASSUME NEW e \in Folders \X (Dirs \cup Files), Remove(e) PROVE StackKnown'
  <2>1. /\ tree' = tree \ {e} /\ removed' = removed \cup {e} /\ UNCHANGED <<args, optind>>
        /\ e \in tree /\ \A f \in tree : f[1] # e[2]
    BY <1>9 DEF Remove, Change
  <2>2. \A k \in DOMAIN stack' : /\ k \in DOMAIN stack /\ stack'[k].of = stack[k].of
                                 /\ stack'[k].left \subseteq stack[k].left
    <3>1. CASE stack' = stack
      BY <3>1
    <3>2. CASE \E k \in DOMAIN stack : stack' = [stack EXCEPT ![k].left = @ \ {e}]
      <4>1. PICK k \in DOMAIN stack : stack' = [stack EXCEPT ![k].left = stack[k].left \ {e}]
        BY <3>2
      <4>2. stack[k].left \ {e} \in SUBSET AllEntries
        BY <1>0, FrameTypes
      <4> QED
        BY <1>0, <4>1, <4>2, Relist
    <3> QED
      BY <1>9, <3>1, <3>2 DEF Remove
  <2>3. ASSUME NEW k \in DOMAIN stack', NEW f \in stack'[k].left, f \notin removed'
        PROVE  Exists(stack[k].of)'
    <3>1. f \in tree /\ f[1] = stack[k].of[2] /\ Exists(stack[k].of)
      BY <1>0, <2>1, <2>2, <2>3 DEF StackKnown
    <3> QED
      BY <2>1, <2>2, <3>1 DEF Exists
  <2> QED
    BY <1>0, <2>1, <2>2, <2>3 DEF StackKnown, Known, TopEntry, Arg
<1> QED
  BY <1>3, <1>4, <1>5, <1>6, <1>7, <1>8, <1>9 DEF Next, Program

LEMMA EntryKnownStep == TypeInv /\ KnownInv /\ [Next]_vars => EntryKnown'
<1> SUFFICES ASSUME TypeInv, KnownInv, Next PROVE EntryKnown'
  BY DEF KnownInv, EntryKnown, Known, TopEntry, Arg, vars, disk
<1>0. stack \in Seq(Frames) /\ StackKnown /\ EntryKnown
  BY DEF TypeInv, KnownInv
<1>1. CASE Usage \/ NextArgument \/ PrintLine \/ Exit
  <2>1. stack = << >> /\ stack' = << >> /\ pc' \notin {"opendir", "return"}
    BY <1>1 DEF Usage, NextArgument, PrintLine, Exit, TypeInv
  <2>2. pc' = "lstat" => entry' = TopEntry'
    <3> SUFFICES ASSUME NextArgument PROVE entry' = TopEntry'
      BY <1>1 DEF Usage, PrintLine, Exit
    <3>1. optind' - 1 = optind
      BY Numbers DEF NextArgument
    <3> QED
      BY <3>1 DEF NextArgument, TopEntry, Arg
  <2> QED
    BY <2>1, <2>2 DEF EntryKnown, Known
<1>2. CASE LstatFails
  BY <1>0, <1>2 DEF LstatFails, EntryKnown, TopEntry, Arg
<1>3. CASE CountFile \/ IsDirectory
  <2>1. Arg \in Roots
    <3>1. Exists(entry) /\ Known(entry)
      BY <1>0, <1>3 DEF CountFile, IsDirectory, EntryKnown
    <3>2. TopEntry \in tree => FALSE
      BY Sets DEF TypeInv, TypeOK, IsTree, TopEntry
    <3> QED
      BY <1>0, <1>3, <3>1, <3>2, ExistsKnown DEF CountFile, IsDirectory, EntryKnown
  <2> QED
    BY <1>0, <1>3, <2>1, StaysKnown DEF CountFile, IsDirectory, EntryKnown
<1>4. CASE OpenDir \/ CannotOpen
  BY <1>0, <1>4, StaysKnown DEF OpenDir, CannotOpen, EntryKnown
<1>5. CASE ReadDir
  <2>1. Len(stack) \in DOMAIN stack /\ Innermost = stack[Len(stack)]
    BY <1>0, <1>5, InnermostIsLast DEF ReadDir
  <2>2. entry' \in Innermost.left /\ UNCHANGED <<args, optind, disk>> /\ pc = "return"
    BY <1>5 DEF ReadDir
  <2>3. Known(entry') 
    BY <1>0, <2>1, <2>2 DEF StackKnown, Known
  <2> QED
    BY <1>0, <2>2, <2>3 DEF EntryKnown, Known, TopEntry, Arg, disk
<1>6. CASE CloseDir
  BY <1>0, <1>6, StaysKnown DEF CloseDir, EntryKnown
<1>7. ASSUME NEW e \in Folders \X (Dirs \cup Files), Create(e) \/ Remove(e) PROVE EntryKnown'
  <2>1. stack' # << >> => stack # << >>
    <3>1. \A k \in DOMAIN stack : \A l : [stack EXCEPT ![k].left = l] # << >> => stack # << >>
      OBVIOUS
    <3> QED
      BY <1>7, <3>1 DEF Create, Remove
  <2> QED
    BY <1>0, <1>7, <2>1, StaysKnown DEF Create, Remove, Change, EntryKnown
<1> QED
  BY <1>1, <1>2, <1>3, <1>4, <1>5, <1>6, <1>7 DEF Next, Program

LEMMA SumsKnownStep == TypeInv /\ KnownInv /\ [Next]_vars => SumsKnown'
<1> SUFFICES ASSUME TypeInv, KnownInv, Next PROVE SumsKnown'
  BY DEF KnownInv, SumsKnown, Known, TopEntry, Arg, Walking, vars, disk, sums
<1>0. /\ stack \in Seq(Frames) /\ StackKnown /\ EntryKnown /\ SumsKnown
      /\ size \in [AllEntries -> Nat] /\ space \in [AllEntries -> Nat]
  BY DEF TypeInv, TypeOK, KnownInv
<1>1. CASE Usage \/ Exit \/ PrintLine \/ LstatFails
  BY <1>1 DEF Usage, Exit, PrintLine, LstatFails, SumsKnown, Walking
<1>2. CASE NextArgument
  BY <1>2 DEF NextArgument, Nothing, SumsKnown
<1>3. CASE CountFile
  <2>1. entry \in AllEntries /\ Known(entry) /\ entry[2] \in Files
    BY <1>0, <1>3, ExistsTypes DEF CountFile, EntryKnown, TypeInv, TypeOK
  <2>2. \A e \in AllEntries : /\ size'[e] = IF e = entry THEN size[e] + 1 ELSE size[e]
                              /\ space'[e] = IF e = entry THEN space[e] + 1 ELSE space[e]
    BY <1>0, <1>3, <2>1, AddTypes DEF CountFile
  <2>3. UNCHANGED <<args, optind, disk, unopened>> /\ Walking
    BY <1>3 DEF CountFile, Walking
  <2> QED
    BY <1>0, <2>1, <2>2, <2>3 DEF SumsKnown, Known, TopEntry, Arg, disk
<1>4. CASE IsDirectory \/ OpenDir \/ ReadDir
  BY <1>0, <1>4 DEF IsDirectory, OpenDir, ReadDir, SumsKnown, Known, TopEntry, Arg, Walking,
                    sums, disk
<1>5. CASE CannotOpen
  BY <1>0, <1>5 DEF CannotOpen, SumsKnown, EntryKnown, Known, TopEntry, Arg, Walking, disk,
                    TypeInv
<1>6. CASE CloseDir
  <2>1. Len(stack) \in DOMAIN stack /\ Innermost = stack[Len(stack)]
    BY <1>0, <1>6, InnermostIsLast DEF CloseDir
  <2>2. Innermost.of \in AllEntries /\ Known(Innermost.of) /\ Innermost.of[2] \notin Files
    BY <1>0, <2>1, FrameTypes, Sets DEF StackKnown
  <2>3. \A e \in AllEntries : space'[e] = IF e = Innermost.of THEN space[e] + 1 ELSE space[e]
    BY <1>0, <1>6, <2>2, AddTypes DEF CloseDir
  <2>4. UNCHANGED <<args, optind, disk, size, unopened>> /\ Walking
    BY <1>6 DEF CloseDir, Walking
  <2> QED
    BY <1>0, <2>2, <2>3, <2>4 DEF SumsKnown, Known, TopEntry, Arg, disk
<1>7. ASSUME NEW e \in Folders \X (Dirs \cup Files), Create(e) \/ Remove(e) PROVE SumsKnown'
  BY <1>0, <1>7, StaysKnown DEF Create, Remove, Change, SumsKnown, Walking, sums
<1> QED
  BY <1>1, <1>2, <1>3, <1>4, <1>5, <1>6, <1>7 DEF Next, Program

LEMMA ErrorStep == TypeInv /\ KnownInv /\ ErrorInv /\ [Next]_vars => ErrorInv'
<1> SUFFICES ASSUME TypeInv, KnownInv, ErrorInv, Next PROVE ErrorInv'
  BY DEF ErrorInv, Walking, vars, disk
<1>0. optind \in Nat /\ Len(printed) \in Nat
  BY Numbers DEF TypeInv, TypeOK
<1>1. CASE LstatFails
  <2>1. Known(entry) /\ Arg \in Roots \cup {Absent} /\ (~Exists(entry) \/ entry \in Unstatable)
    BY <1>1, Numbers DEF LstatFails, KnownInv, EntryKnown, TypeInv, Walking
  <2>2. TopEntry \in {Top} \X Roots \/ TopEntry = <<Top, Absent>>
    BY <2>1 DEF TopEntry
  <2>3. entry \in {<<Top, Absent>>} \cup removed \cup Unstatable
    BY <2>1, <2>2 DEF Known, Exists
  <2> QED
    BY <1>1, <2>3 DEF LstatFails, ErrorInv, Walking, disk
<1>2. CASE NextArgument
  BY <1>0, <1>2 DEF NextArgument, ErrorInv, Walking
<1>3. CASE PrintLine
  <2>1. Len(printed') = Len(printed) + 1
    BY <1>3, AppendProperties DEF PrintLine, TypeInv, Reports
  <2> QED
    BY <1>0, <1>3, <2>1 DEF PrintLine, ErrorInv, Walking
<1>4. CASE Usage \/ Exit
  BY <1>4 DEF Usage, Exit, ErrorInv, Walking
<1>5. CASE CountFile \/ IsDirectory \/ OpenDir \/ CannotOpen \/ ReadDir \/ CloseDir
  BY <1>5 DEF CountFile, IsDirectory, OpenDir, CannotOpen, ReadDir, CloseDir, ErrorInv, Walking
<1>6. ASSUME NEW e \in Folders \X (Dirs \cup Files), Create(e) \/ Remove(e) PROVE ErrorInv'
  BY <1>6 DEF Create, Remove, Change, ErrorInv, Walking
<1> QED
  BY <1>1, <1>2, <1>3, <1>4, <1>5, <1>6 DEF Next, Program

----------------------------------------------------------------------------
(* The walk meets everything once.                                         *)

\* Nothing about the tree and the argument changes.
SameTree == UNCHANGED <<args, optind, tree, stayed, removed>>

LEMMA SameClean ==
  ASSUME SameTree, NEW e
  PROVE  (Clean(e)' <=> Clean(e)) /\ Arg' = Arg /\ TopEntry' = TopEntry /\ stayed' = stayed
BY DEF SameTree, Clean, TopEntry, Arg

\* The two invariants in a walk below an argument that exists.
LEMMA WalkInvs ==
  ASSUME TypeInv, KnownInv, OnceInv, MetInv, Walking, Arg \in Roots
  PROVE  /\ stack \in Seq(Frames) /\ space \in [AllEntries -> Nat] /\ TopEntry \in AllEntries
         /\ \A e \in AllEntries : Clean(e) => AtMostOnce(e) /\ After(e)
         /\ Touched(TopEntry)
         /\ \A e \in stayed, p \in AllEntries : p[2] = e[1] /\ Opened(p) => Touched(e)
         /\ stayed \subseteq AllEntries
BY DEF TypeInv, TypeOK, OnceInv, MetInv, TopEntry, AllEntries, IsTree

\* What a step of a walk has to keep.
LEMMA WalkStep ==
  ASSUME TypeInv, KnownInv, OnceInv, MetInv, SameTree, Walking, Arg \in Roots,
         \A e \in AllEntries : AtMostOnce(e) /\ Clean(e) => AtMostOnce(e)',
         \A e \in AllEntries : /\ Touched(e) => Touched(e)'
                               /\ Opened(e) => Opened(e)',
         \A e \in AllEntries : Clean(e) /\ ~Touched(e) /\ Touched(e)' =>
           \A p \in AllEntries : Clean(p) /\ p[2] = e[1] => Opened(p)',
         \A e \in stayed, p \in AllEntries :
           p[2] = e[1] /\ ~Opened(p) /\ Opened(p)' => Touched(e)'
  PROVE  OnceInv' /\ MetInv'
<1>1. /\ TopEntry \in AllEntries
      /\ \A e \in AllEntries : Clean(e) => AtMostOnce(e) /\ After(e)
      /\ Touched(TopEntry)
      /\ \A e \in stayed, p \in AllEntries : p[2] = e[1] /\ Opened(p) => Touched(e)
      /\ stayed \subseteq AllEntries
  BY WalkInvs
<1>2. ASSUME NEW e \in AllEntries, Clean(e) PROVE After(e)'
  BY <1>1, <1>2, SameClean DEF After
<1>3. OnceInv'
  BY <1>1, <1>2, SameClean DEF OnceInv
<1>4. MetInv'
  BY <1>1, SameClean DEF MetInv
<1> QED
  BY <1>3, <1>4

LEMMA CountFileStep ==
  ASSUME TypeInv, KnownInv, OnceInv, MetInv, Arg \in Roots, CountFile
  PROVE  OnceInv' /\ MetInv'
<1>1. Walking /\ SameTree /\ entry \in AllEntries /\ space \in [AllEntries -> Nat]
  BY ExistsTypes DEF CountFile, Walking, SameTree, disk, TypeInv, TypeOK
<1>2. \A e \in AllEntries : space'[e] = IF e = entry THEN space[e] + 1 ELSE space[e]
  BY <1>1, AddTypes DEF CountFile
<1>3. ASSUME NEW e \in AllEntries
      PROVE  /\ (Waiting(e)' <=> Waiting(e)) /\ (Open(e)' <=> Open(e))
             /\ (Failed(e)' <=> Failed(e)) /\ (InOneFrame(e)' <=> InOneFrame(e))
             /\ ~Now(e)' /\ (Now(e) <=> e = entry)
             /\ Counted(e)' <=> Counted(e) \/ e = entry
  BY <1>1, <1>2 DEF CountFile, Waiting, Open, Failed, InOneFrame, Now, Counted
<1>4. ASSUME NEW e \in AllEntries, AtMostOnce(e) PROVE AtMostOnce(e)'
  <2>1. InOnePlace(e)' /\ InOneFrame(e)'
    BY <1>3, <1>4 DEF AtMostOnce, InOnePlace
  <2>2. space'[e] <= 1
    BY <1>1, <1>2, <1>3, <1>4 DEF AtMostOnce, InOnePlace, Counted
  <2> QED
    BY <2>1, <2>2 DEF AtMostOnce
<1>5. ASSUME NEW e \in AllEntries
      PROVE  /\ Touched(e)' <=> Touched(e)
             /\ Opened(e) => Opened(e)'
             /\ Opened(e)' => Opened(e) \/ e[2] \in Files
  BY <1>3 DEF Touched, Opened, CountFile
<1>6. \A e \in stayed : e[1] \notin Files
  BY Sets DEF TypeInv, TypeOK, IsTree
<1> QED
  BY <1>1, <1>4, <1>5, <1>6, WalkStep

LEMMA IsDirectoryStep ==
  ASSUME TypeInv, KnownInv, OnceInv, MetInv, Arg \in Roots, IsDirectory
  PROVE  OnceInv' /\ MetInv'
<1>1. Walking /\ SameTree
  BY DEF IsDirectory, Walking, SameTree, disk
<1>2. \A e : Now(e)' <=> Now(e)
  BY DEF IsDirectory, Now
<1>3. ASSUME NEW e \in AllEntries
      PROVE  /\ (AtMostOnce(e)' <=> AtMostOnce(e)) /\ (Touched(e)' <=> Touched(e))
             /\ (Opened(e)' <=> Opened(e))
  BY <1>2 DEF IsDirectory, sums, AtMostOnce, InOneFrame, InOnePlace, Touched, Opened,
              Waiting, Open, Counted, Failed
<1> QED
  BY <1>1, <1>3, WalkStep

LEMMA CannotOpenStep ==
  ASSUME TypeInv, KnownInv, OnceInv, MetInv, Arg \in Roots, CannotOpen
  PROVE  OnceInv' /\ MetInv'
<1>1. Walking /\ SameTree
  BY DEF CannotOpen, Walking, SameTree, disk
<1>2. ASSUME NEW e \in AllEntries
      PROVE  /\ (Waiting(e)' <=> Waiting(e)) /\ (Open(e)' <=> Open(e))
             /\ (Counted(e)' <=> Counted(e)) /\ (InOneFrame(e)' <=> InOneFrame(e))
             /\ ~Now(e)' /\ (Failed(e)' <=> Failed(e) \/ Now(e)) /\ space' = space
  BY DEF CannotOpen, Waiting, Open, Failed, InOneFrame, Now, Counted
<1>3. ASSUME NEW e \in AllEntries
      PROVE  /\ AtMostOnce(e) => AtMostOnce(e)'
             /\ (Touched(e)' <=> Touched(e)) /\ (Opened(e)' <=> Opened(e))
  BY <1>2 DEF AtMostOnce, InOnePlace, Touched, Opened
<1> QED
  BY <1>1, <1>3, WalkStep

LEMMA ReadDirStep ==
  ASSUME TypeInv, KnownInv, OnceInv, MetInv, Arg \in Roots, ReadDir
  PROVE  OnceInv' /\ MetInv'
<1>1. Walking /\ SameTree /\ stack \in Seq(Frames)
  BY DEF ReadDir, Walking, SameTree, disk, TypeInv
<1> DEFINE n == Len(stack)
<1>2. n \in DOMAIN stack /\ Innermost = stack[n]
  BY <1>1, InnermostIsLast DEF ReadDir
<1>3. PICK f \in stack[n].left : /\ stack' = [stack EXCEPT ![n].left = stack[n].left \ {f}]
                                 /\ entry' = f
  BY <1>2 DEF ReadDir
<1>4. stack[n].left \ {f} \in SUBSET AllEntries
  BY <1>1, <1>2, FrameTypes
<1> HIDE DEF n
<1>5. /\ DOMAIN stack' = DOMAIN stack
      /\ \A k \in DOMAIN stack : /\ stack'[k].of = stack[k].of
                                 /\ k # n => stack'[k].left = stack[k].left
      /\ stack'[n].left = stack[n].left \ {f}
  BY <1>1, <1>2, <1>3, <1>4, Relist
<1>6. ASSUME NEW e \in AllEntries
      PROVE  /\ (Open(e)' <=> Open(e)) /\ (Failed(e)' <=> Failed(e)) /\ space' = space
             /\ (Counted(e)' <=> Counted(e)) /\ (InOneFrame(e) => InOneFrame(e)')
             /\ ~Now(e) /\ (Now(e)' <=> e = f)
             /\ (Waiting(e)' => Waiting(e)) /\ (Waiting(e) => Waiting(e)' \/ e = f)
             /\ InOneFrame(e) /\ e = f => ~Waiting(e)'
             /\ e = f => Waiting(e)
  BY <1>2, <1>3, <1>5 DEF ReadDir, sums, Waiting, Open, Failed, InOneFrame, Now, Counted
<1>7. ASSUME NEW e \in AllEntries
      PROVE  /\ AtMostOnce(e) => AtMostOnce(e)'
             /\ (Touched(e)' <=> Touched(e)) /\ (Opened(e)' <=> Opened(e))
  BY <1>6 DEF AtMostOnce, InOnePlace, Touched, Opened
<1> QED
  BY <1>1, <1>7, WalkStep

LEMMA CloseDirStep ==
  ASSUME TypeInv, KnownInv, OnceInv, MetInv, Arg \in Roots, CloseDir
  PROVE  OnceInv' /\ MetInv'
<1>1. /\ Walking /\ SameTree /\ pc = "return" /\ pc' = pc
      /\ stack \in Seq(Frames) /\ space \in [AllEntries -> Nat]
  BY DEF CloseDir, Walking, SameTree, disk, TypeInv, TypeOK
<1> DEFINE n == Len(stack)  d == stack[n].of
<1>2. n \in DOMAIN stack /\ Innermost = stack[n] /\ stack[n].left = {} /\ d \in AllEntries
  BY <1>1, InnermostIsLast, FrameTypes DEF CloseDir
<1>3. DOMAIN stack' = DOMAIN stack \ {n} /\ \A k \in DOMAIN stack' : stack'[k] = stack[k]
  BY <1>1, Pop DEF CloseDir
<1>4. \A e \in AllEntries : space'[e] = IF e = d THEN space[e] + 1 ELSE space[e]
  BY <1>1, <1>2, AddTypes DEF CloseDir
<1> HIDE DEF n, d
<1>5. d = stack[n].of
  BY DEF d
<1>6. ASSUME NEW e \in AllEntries
      PROVE  /\ (Failed(e)' <=> Failed(e)) /\ (InOneFrame(e) => InOneFrame(e)')
             /\ (Waiting(e)' <=> Waiting(e)) /\ ~Now(e) /\ ~Now(e)'
             /\ (Counted(e)' <=> Counted(e) \/ e = d)
             /\ (Open(e)' => Open(e)) /\ (Open(e) => Open(e)' \/ e = d)
             /\ (InOneFrame(e) /\ e = d => ~Open(e)') /\ (e = d => Open(e))
  <2>1. (Failed(e)' <=> Failed(e)) /\ ~Now(e) /\ ~Now(e)'
    BY <1>1 DEF CloseDir, Failed, Now
  <2>2. InOneFrame(e) => InOneFrame(e)'
    BY <1>3 DEF InOneFrame
  <2>3. Waiting(e)' <=> Waiting(e)
    BY <1>2, <1>3 DEF Waiting
  <2>4. Counted(e)' <=> Counted(e) \/ e = d
    <3>1. space[e] \in Nat /\ space'[e] = IF e = d THEN space[e] + 1 ELSE space[e]
      BY <1>1, <1>4
    <3> QED
      BY <3>1 DEF Counted
  <2>5. (Open(e)' => Open(e)) /\ (Open(e) => Open(e)' \/ e = d)
    BY <1>3, <1>5 DEF Open
  <2>6. InOneFrame(e) /\ e = d => ~Open(e)'
    BY <1>2, <1>3, <1>5 DEF Open, InOneFrame
  <2>7. e = d => Open(e)
    BY <1>2, <1>5 DEF Open
  <2> QED
    BY <2>1, <2>2, <2>3, <2>4, <2>5, <2>6, <2>7
<1>7. ASSUME NEW e \in AllEntries, AtMostOnce(e) PROVE AtMostOnce(e)'
  <2>1. InOnePlace(e)' /\ InOneFrame(e)'
    BY <1>6, <1>7 DEF AtMostOnce, InOnePlace
  <2>2. space'[e] <= 1
    BY <1>1, <1>4, <1>6, <1>7 DEF AtMostOnce, InOnePlace, Counted
  <2> QED
    BY <2>1, <2>2 DEF AtMostOnce
<1>8. ASSUME NEW e \in AllEntries
      PROVE  (Touched(e)' <=> Touched(e)) /\ (Opened(e)' <=> Opened(e))
  BY <1>6 DEF Touched, Opened
<1> QED
  BY <1>1, <1>7, <1>8, WalkStep

\* Two names of one directory are one.
LEMMA OneEntry ==
  ASSUME IsTree(tree), NEW p, NEW q, Exists(p), Exists(q), p[2] = q[2], p[2] \in Folders
  PROVE  p = q
<1>1. CASE p \in tree /\ q \in tree
  <2>1. p[2] \in Dirs
    BY <1>1, Sets DEF IsTree
  <2> QED
    BY <1>1, <2>1, OneName
<1>2. CASE p \notin tree \/ q \notin tree
  BY <1>2, Sets DEF Exists, IsTree
<1> QED
  BY <1>1, <1>2

LEMMA CleanExists ==
  ASSUME Arg \in Roots, NEW p, Clean(p)
  PROVE  Exists(p)
BY DEF Clean, Exists, TopEntry

\* The directory of a clean entry that exists is clean.
LEMMA CleanParent ==
  ASSUME IsTree(tree), Arg \in Roots, NEW e \in tree, Clean(e), NEW p, Exists(p), p[2] = e[1]
  PROVE  Clean(p)
<1>1. e # TopEntry /\ e[1] \in Folders
  BY Sets DEF IsTree, TopEntry
<1>2. e[1] \in Below(tree \ removed, Arg)
  BY <1>1 DEF Clean
<1>3. CASE e[1] = Arg
  <2>1. Exists(TopEntry) /\ TopEntry[2] = p[2]
    BY <1>3 DEF Exists, TopEntry
  <2>2. p = TopEntry
    BY <1>1, <2>1, OneEntry
  <2> QED
    BY <2>2 DEF Clean
<1>4. CASE e[1] # Arg
  <2>1. PICK q \in tree \ removed : q[1] \in Below(tree \ removed, Arg) /\ q[2] = e[1]
    BY <1>2, <1>4, BelowHasParent
  <2>2. Exists(q)
    BY <2>1 DEF Exists
  <2>3. q = p
    BY <1>1, <2>1, <2>2, OneEntry
  <2> QED
    BY <2>1, <2>3 DEF Clean
<1> QED
  BY <1>3, <1>4

LEMMA OpenDirStep ==
  ASSUME TypeInv, KnownInv, OnceInv, MetInv, Arg \in Roots, OpenDir
  PROVE  OnceInv' /\ MetInv'
<1>1. /\ Walking /\ SameTree /\ stack \in Seq(Frames) /\ IsTree(tree) /\ Exists(entry)
      /\ entry \in AllEntries /\ entry[2] \in Folders
  BY DEF OpenDir, Walking, SameTree, disk, TypeInv, TypeOK
<1> DEFINE n == Len(stack) + 1  L == {e \in tree : e[1] = entry[2]}
<1>2. /\ DOMAIN stack' = DOMAIN stack \cup {n} /\ n \notin DOMAIN stack
      /\ \A k \in DOMAIN stack : stack'[k] = stack[k]
      /\ stack'[n].of = entry /\ stack'[n].left = L
  <2>1. L \in SUBSET AllEntries
    BY <1>1 DEF IsTree, AllEntries
  <2>2. [of |-> entry, left |-> L] \in Frames
    BY <1>1, <2>1 DEF Frames
  <2>3. stack' = Append(stack, [of |-> entry, left |-> L])
    BY DEF OpenDir
  <2> HIDE DEF L
  <2> QED
    BY <1>1, <2>2, <2>3, Push
<1>3. \A e : e \in L <=> e \in tree /\ e[1] = entry[2]
  OBVIOUS
<1> HIDE DEF n, L
<1>4. ASSUME NEW e \in AllEntries
      PROVE  /\ (Waiting(e)' <=> Waiting(e) \/ e \in L)
             /\ (Open(e)' <=> Open(e) \/ e = entry)
             /\ (Counted(e)' <=> Counted(e)) /\ (Failed(e)' <=> Failed(e)) /\ space' = space
             /\ (Now(e) <=> e = entry) /\ ~Now(e)'
  <2>1. Waiting(e)' <=> Waiting(e) \/ e \in L
    BY <1>2 DEF Waiting
  <2>2. Open(e)' <=> Open(e) \/ e = entry
    BY <1>2 DEF Open
  <2>3. /\ (Counted(e)' <=> Counted(e)) /\ (Failed(e)' <=> Failed(e)) /\ space' = space
        /\ (Now(e) <=> e = entry) /\ ~Now(e)'
    BY DEF OpenDir, sums, Counted, Failed, Now
  <2> QED
    BY <2>1, <2>2, <2>3
<1>5. \A e \in AllEntries : Clean(e) => AtMostOnce(e) /\ After(e)
  BY <1>1, WalkInvs
<1>6. ASSUME NEW e \in L, Clean(e) PROVE ~Touched(e) /\ e # entry
  <2>1. Clean(entry)
    BY <1>1, <1>3, <1>6, CleanParent
  <2>2. ~Opened(entry)
    BY <1>1, <1>4, <1>5, <2>1 DEF AtMostOnce, InOnePlace, Opened
  <2>3. e \in AllEntries
    BY <1>1, <1>3 DEF IsTree, AllEntries
  <2>4. ~Touched(e)
    BY <1>1, <1>3, <1>5, <1>6, <2>1, <2>2, <2>3 DEF After
  <2> QED
    BY <1>1, <1>4, <2>4 DEF Touched
<1>7. ASSUME NEW e \in AllEntries, AtMostOnce(e), Clean(e) PROVE AtMostOnce(e)'
  <2>1. InOneFrame(e)'
    <3>1. ASSUME NEW j \in DOMAIN stack', NEW k \in DOMAIN stack',
                 stack'[j].of = e, stack'[k].of = e
          PROVE  j = k
      BY <1>2, <1>4, <1>7, <3>1 DEF AtMostOnce, InOneFrame, InOnePlace, Open
    <3>2. ASSUME NEW j \in DOMAIN stack', NEW k \in DOMAIN stack',
                 e \in stack'[j].left, e \in stack'[k].left
          PROVE  j = k
      <4>1. e \in L => ~Waiting(e)
        BY <1>6, <1>7 DEF Touched
      <4> QED
        BY <1>2, <1>7, <3>2, <4>1 DEF AtMostOnce, InOneFrame, Waiting
    <3> QED
      BY <3>1, <3>2 DEF InOneFrame
  <2>2. InOnePlace(e)'
    <3>1. e \in L => ~Touched(e) /\ e # entry
      BY <1>6, <1>7
    <3> QED
      BY <1>4, <1>7, <3>1 DEF AtMostOnce, InOnePlace, Touched
  <2> QED
    BY <1>4, <1>7, <2>1, <2>2 DEF AtMostOnce
<1>8. \A e \in AllEntries : (Touched(e) => Touched(e)') /\ (Opened(e) => Opened(e)')
  BY <1>4 DEF Touched, Opened
<1>9. ASSUME NEW e \in AllEntries, Clean(e), ~Touched(e), Touched(e)',
             NEW p \in AllEntries, Clean(p), p[2] = e[1]
      PROVE  Opened(p)'
  <2>1. e \in L
    BY <1>4, <1>9 DEF Touched
  <2>2. p = entry
    BY <1>1, <1>3, <1>9, <2>1, OneEntry, CleanExists
  <2> QED
    BY <1>4, <2>2 DEF Opened
<1>10. ASSUME NEW e \in stayed, NEW p \in AllEntries, p[2] = e[1], ~Opened(p), Opened(p)'
       PROVE  Touched(e)'
  <2>1. p = entry
    BY <1>4, <1>10 DEF Opened
  <2>2. e \in tree /\ e \in AllEntries
    BY <1>1 DEF TypeInv, TypeOK, IsTree, AllEntries
  <2> QED
    BY <1>3, <1>4, <1>10, <2>1, <2>2 DEF Touched
<1> QED
  BY <1>1, <1>7, <1>8, <1>9, <1>10, WalkStep

LEMMA NextArgumentStep ==
  ASSUME TypeInv, NextArgument
  PROVE  OnceInv' /\ MetInv'
<1>1. /\ stack = << >> /\ stack' = << >> /\ pc' = "lstat" /\ entry' = TopEntry'
      /\ unopened' = {} /\ \A e \in AllEntries : space'[e] = 0
  <2>1. optind' - 1 = optind
    BY Numbers DEF NextArgument
  <2> QED
    BY <2>1 DEF NextArgument, TopEntry, Arg, Nothing, TypeInv
<1>2. ASSUME NEW e \in AllEntries
      PROVE  /\ ~Waiting(e)' /\ ~Open(e)' /\ ~Counted(e)' /\ ~Failed(e)' /\ space'[e] <= 1
             /\ (Now(e)' <=> e = TopEntry') /\ InOneFrame(e)'
  BY <1>1 DEF Waiting, Open, Counted, Failed, Now, InOneFrame
<1>3. ASSUME NEW e \in AllEntries
      PROVE  AtMostOnce(e)' /\ ~Opened(e)' /\ (Touched(e)' <=> e = TopEntry')
  BY <1>2 DEF AtMostOnce, InOnePlace, Opened, Touched
<1>4. ASSUME NEW e \in AllEntries PROVE After(e)'
  <2>1. \A p \in AllEntries : p[2] # Top
    BY Sets DEF AllEntries
  <2>2. TopEntry'[1] = Top
    BY DEF TopEntry
  <2> QED
    BY <1>3, <2>1, <2>2 DEF After
<1>5. OnceInv'
  BY <1>3, <1>4 DEF OnceInv
<1>6. Arg' \in Roots => TopEntry' \in AllEntries
  BY DEF TopEntry, AllEntries
<1>7. MetInv'
  BY <1>3, <1>6 DEF MetInv
<1> QED
  BY <1>5, <1>7

\* What a change of e by others leaves alone: all the others, and what has been opened.
LEMMA ChangeKeeps ==
  ASSUME TypeInv, NEW e \in AllEntries, Change,
         \/ UNCHANGED stack
         \/ \E k \in DOMAIN stack : \/ stack' = [stack EXCEPT ![k].left = @ \cup {e}]
                                    \/ stack' = [stack EXCEPT ![k].left = @ \ {e}]
  PROVE  /\ \A f \in AllEntries \ {e} : /\ AtMostOnce(f)' <=> AtMostOnce(f)
                                        /\ Touched(f)' <=> Touched(f)
         /\ \A f \in AllEntries : Opened(f)' <=> Opened(f)
<1>1. /\ DOMAIN stack' = DOMAIN stack
      /\ \A k \in DOMAIN stack : /\ stack'[k].of = stack[k].of
                                 /\ stack'[k].left \ {e} = stack[k].left \ {e}
  <2>1. CASE UNCHANGED stack
    BY <2>1
  <2>2. ASSUME NEW k \in DOMAIN stack, NEW l \in SUBSET AllEntries,
               l \ {e} = stack[k].left \ {e}, stack' = [stack EXCEPT ![k].left = l]
        PROVE  <1>1!1 /\ <1>1!2
    BY <2>2, Relist DEF TypeInv
  <2>3. \A k \in DOMAIN stack : /\ stack[k].left \cup {e} \in SUBSET AllEntries
                                /\ stack[k].left \ {e} \in SUBSET AllEntries
    BY FrameTypes DEF TypeInv
  <2>4. CASE \E k \in DOMAIN stack : stack' = [stack EXCEPT ![k].left = @ \cup {e}]
    BY <2>2, <2>3, <2>4
  <2>5. CASE \E k \in DOMAIN stack : stack' = [stack EXCEPT ![k].left = @ \ {e}]
    BY <2>2, <2>3, <2>5
  <2> QED
    BY <2>1, <2>4, <2>5
<1>2. ASSUME NEW f
      PROVE  /\ Open(f)' <=> Open(f)
             /\ f # e => (Waiting(f)' <=> Waiting(f)) /\ (InOneFrame(f)' <=> InOneFrame(f))
             /\ (Now(f)' <=> Now(f)) /\ (Counted(f)' <=> Counted(f)) /\ space' = space
             /\ (Failed(f)' <=> Failed(f))
  <2>1. f # e => \A k \in DOMAIN stack : f \in stack'[k].left <=> f \in stack[k].left
    BY <1>1
  <2>2. Open(f)' <=> Open(f)
    BY <1>1 DEF Open
  <2>3. f # e => (Waiting(f)' <=> Waiting(f)) /\ (InOneFrame(f)' <=> InOneFrame(f))
    BY <1>1, <2>1 DEF Waiting, InOneFrame
  <2>4. /\ (Now(f)' <=> Now(f)) /\ (Counted(f)' <=> Counted(f)) /\ space' = space
        /\ (Failed(f)' <=> Failed(f))
    BY DEF Change, sums, Now, Counted, Failed
  <2> QED
    BY <2>2, <2>3, <2>4
<1> QED
  BY <1>2 DEF AtMostOnce, InOnePlace, Touched, Opened

LEMMA RemoveStep ==
  ASSUME TypeInv, KnownInv, OnceInv, MetInv, Walking, Arg \in Roots,
         NEW e \in Folders \X (Dirs \cup Files), Remove(e)
  PROVE  OnceInv' /\ MetInv'
<1>1. /\ e \in AllEntries /\ Change /\ Arg' = Arg /\ TopEntry' = TopEntry /\ e # TopEntry
      /\ stayed' = stayed \ {e} /\ tree' = tree \ {e} /\ removed' = removed \cup {e}
  BY Sets DEF Remove, Change, AllEntries, Arg, TopEntry
<1>2. /\ \A f \in AllEntries \ {e} : /\ AtMostOnce(f)' <=> AtMostOnce(f)
                                     /\ Touched(f)' <=> Touched(f)
      /\ \A f \in AllEntries : Opened(f)' <=> Opened(f)
  BY <1>1, ChangeKeeps DEF Remove
<1>3. /\ TopEntry \in AllEntries
      /\ \A f \in AllEntries : Clean(f) => AtMostOnce(f) /\ After(f)
      /\ Touched(TopEntry)
      /\ \A f \in stayed, p \in AllEntries : p[2] = f[1] /\ Opened(p) => Touched(f)
      /\ stayed \subseteq AllEntries
  BY WalkInvs
<1>4. ASSUME NEW f, Clean(f)' PROVE Clean(f) /\ f # e
  <2>1. tree' \ removed' \in SUBSET (tree \ removed)
    BY <1>1
  <2>2. Below(tree' \ removed', Arg) \subseteq Below(tree \ removed, Arg)
    BY <2>1, BelowMonotone
  <2> QED
    BY <1>1, <1>4, <2>1, <2>2 DEF Clean
<1>5. ASSUME NEW f \in AllEntries, Clean(f)' PROVE AtMostOnce(f)' /\ After(f)'
  BY <1>2, <1>3, <1>4, <1>5 DEF After
<1>6. OnceInv'
  BY <1>5 DEF OnceInv
<1>7. MetInv'
  BY <1>1, <1>2, <1>3 DEF MetInv
<1> QED
  BY <1>6, <1>7

\* What the walk has not come across is nowhere in it.
LEMMA UnknownUntouched ==
  ASSUME TypeInv, KnownInv, Walking, NEW e \in AllEntries, ~Known(e)
  PROVE  ~Touched(e) /\ ~Counted(e)
<1>1. ~Waiting(e) /\ ~Open(e)
  BY DEF KnownInv, StackKnown, Known, Waiting, Open
<1>2. ~Now(e)
  BY DEF KnownInv, EntryKnown, Now
<1>3. ~Counted(e) /\ ~Failed(e)
  BY DEF KnownInv, SumsKnown, Counted, Failed
<1> QED
  BY <1>1, <1>2, <1>3 DEF Touched

LEMMA CreateStep ==
  ASSUME TypeInv, KnownInv, OnceInv, MetInv, Walking, Arg \in Roots,
         NEW e \in Folders \X (Dirs \cup Files), Create(e)
  PROVE  OnceInv' /\ MetInv'
<1>1. /\ e \in AllEntries /\ Change /\ Arg' = Arg /\ TopEntry' = TopEntry /\ e # TopEntry
      /\ stayed' = stayed /\ tree' = tree \cup {e} /\ removed' = removed /\ e \notin tree
      /\ IsTree(tree) /\ IsTree(tree \cup {e}) /\ stayed \subseteq tree
  BY Sets DEF Create, Change, AllEntries, Arg, TopEntry, TypeInv, TypeOK
<1>2. /\ \A f \in AllEntries \ {e} : /\ AtMostOnce(f)' <=> AtMostOnce(f)
                                     /\ Touched(f)' <=> Touched(f)
      /\ \A f \in AllEntries : Opened(f)' <=> Opened(f)
  BY <1>1, ChangeKeeps DEF Create
<1>3. /\ TopEntry \in AllEntries
      /\ \A f \in AllEntries : Clean(f) => AtMostOnce(f) /\ After(f)
      /\ Touched(TopEntry)
      /\ \A f \in stayed, p \in AllEntries : p[2] = f[1] /\ Opened(p) => Touched(f)
      /\ stayed \subseteq AllEntries
  BY WalkInvs
<1>4. MetInv'
  BY <1>1, <1>2, <1>3 DEF MetInv
<1>5. ASSUME NEW f \in AllEntries, Clean(f)', f # e PROVE Clean(f)
  <2>1. CASE e \in removed
    <3>1. tree' \ removed' = tree \ removed
      BY <1>1, <2>1
    <3> QED
      BY <1>1, <1>5, <3>1 DEF Clean
  <2>2. CASE e \notin removed
    <3>1. tree' \ removed' = (tree \ removed) \cup {e}
      BY <1>1, <2>2
    <3>2. \A g \in tree \ removed : g[1] # e[2]
      BY <1>1, NewIsEmpty
    <3>3. Below(tree' \ removed', Arg) \subseteq Below(tree \ removed, Arg) \cup {e[2]}
      BY <3>1, <3>2, BelowCreate
    <3> QED
      BY <1>1, <1>5, <3>1, <3>2, <3>3 DEF Clean
  <2> QED
    BY <2>1, <2>2
<1>6. ASSUME NEW f \in AllEntries, f # e, Clean(f)' PROVE AtMostOnce(f)' /\ After(f)'
  <2>1. f[1] # e[2]
    <3>1. f = TopEntry \/ f \in tree
      BY <1>5, <1>6 DEF Clean
    <3> QED
      BY <1>1, <3>1, NewIsEmpty, Sets DEF TopEntry
  <2> QED
    BY <1>2, <1>3, <1>5, <1>6, <2>1 DEF After
<1>7. ASSUME Clean(e)' PROVE AtMostOnce(e)' /\ After(e)'
  <2>1. e \notin removed /\ ~Known(e)
    BY <1>1, <1>7 DEF Clean, Known
  <2>2. ~Touched(e) /\ ~Counted(e)
    BY <1>1, <2>1, UnknownUntouched
  <2>3. ~Now(e)' /\ ~Failed(e)' /\ ~Counted(e)' /\ space'[e] <= 1
    <3>1. space[e] \in Nat /\ space' = space /\ unopened' = unopened /\ pc' = pc /\ entry' = entry
      BY <1>1 DEF TypeInv, TypeOK, Change, sums
    <3> QED
      BY <2>2, <3>1 DEF Touched, Now, Failed, Counted
  <2>4. CASE UNCHANGED stack
    <3>1. ~Touched(e)' /\ InOneFrame(e)'
      BY <2>2, <2>3, <2>4 DEF Touched, Waiting, Open, InOneFrame
    <3> QED
      BY <2>3, <3>1 DEF AtMostOnce, InOnePlace, Touched, After
  <2>5. CASE \E k \in DOMAIN stack : /\ stack[k].of[2] = e[1] /\ Exists(stack[k].of)
                                     /\ stack' = [stack EXCEPT ![k].left = @ \cup {e}]
    <3>1. PICK k \in DOMAIN stack : /\ stack[k].of[2] = e[1] /\ Exists(stack[k].of)
                                    /\ stack' = [stack EXCEPT ![k].left = stack[k].left \cup {e}]
      BY <2>5
    <3>2. stack[k].left \cup {e} \in SUBSET AllEntries /\ stack[k].of \in AllEntries
      BY <1>1, FrameTypes DEF TypeInv
    <3>3. /\ DOMAIN stack' = DOMAIN stack
          /\ \A j \in DOMAIN stack : /\ stack'[j].of = stack[j].of
                                     /\ j # k => stack'[j].left = stack[j].left
      BY <3>1, <3>2, Relist DEF TypeInv
    <3>4. \A j \in DOMAIN stack : e \notin stack[j].left /\ stack[j].of # e
      BY <2>2 DEF Touched, Waiting, Open
    <3>5. ~Open(e)' /\ InOneFrame(e)'
      BY <3>3, <3>4 DEF Open, InOneFrame
    <3>6. AtMostOnce(e)'
      BY <2>3, <3>5 DEF AtMostOnce, InOnePlace
    <3>7. ASSUME NEW p \in AllEntries, Clean(p)', p[2] = e[1] PROVE Opened(p)'
      <4>1. p # e
        BY <1>1, <3>7, Sets DEF IsTree
      <4>2. Exists(p)
        BY <1>5, <3>7, <4>1, CleanExists
      <4>3. p = stack[k].of
        BY <1>1, <3>1, <3>7, <4>2, OneEntry
      <4>4. Opened(p)
        BY <3>1, <4>3 DEF Opened, Open
      <4> QED
        BY <1>2, <4>4
    <3> QED
      BY <3>6, <3>7 DEF After
  <2> QED
    BY <2>4, <2>5 DEF Create
<1>8. OnceInv'
  BY <1>6, <1>7 DEF OnceInv
<1> QED
  BY <1>4, <1>8

LEMMA OnceStep ==
  TypeInv /\ KnownInv /\ OnceInv /\ MetInv /\ [Next]_vars => OnceInv' /\ MetInv'
<1> SUFFICES ASSUME TypeInv, KnownInv, OnceInv, MetInv, [Next]_vars PROVE OnceInv' /\ MetInv'
  OBVIOUS
<1>1. CASE NextArgument
  BY <1>1, NextArgumentStep
<1>2. CASE ~Walking'
  BY <1>2 DEF OnceInv, MetInv
<1>3. CASE Arg' \notin Roots
  BY <1>3 DEF OnceInv, MetInv
<1>4. CASE Walking' /\ Arg' \in Roots /\ UNCHANGED vars
  <2>1. SameTree /\ Walking /\ Arg \in Roots
    BY <1>4 DEF SameTree, vars, disk, Walking, Arg
  <2>2. ASSUME NEW e
        PROVE  /\ (AtMostOnce(e)' <=> AtMostOnce(e)) /\ (Touched(e)' <=> Touched(e))
               /\ (Opened(e)' <=> Opened(e))
    BY <1>4 DEF vars, sums, AtMostOnce, InOneFrame, InOnePlace, Touched, Opened, Waiting,
                Now, Open, Counted, Failed
  <2> QED
    BY <2>1, <2>2, WalkStep
<1>5. CASE Walking' /\ Arg' \in Roots /\ Program /\ ~NextArgument
  <2>1. CASE Usage \/ PrintLine \/ Exit \/ LstatFails
    BY <1>5, <2>1 DEF Usage, PrintLine, Exit, LstatFails, Walking
  <2>2. CASE CountFile \/ IsDirectory \/ OpenDir \/ CannotOpen \/ ReadDir \/ CloseDir
    <3>1. Arg \in Roots
      BY <1>5, <2>2 DEF CountFile, IsDirectory, OpenDir, CannotOpen, ReadDir, CloseDir, Arg
    <3> QED
      BY <2>2, <3>1, CountFileStep, IsDirectoryStep, OpenDirStep, CannotOpenStep,
         ReadDirStep, CloseDirStep
  <2> QED
    BY <1>5, <2>1, <2>2 DEF Program
<1>6. ASSUME Walking', Arg' \in Roots,
             NEW e \in Folders \X (Dirs \cup Files), Create(e) \/ Remove(e)
      PROVE  OnceInv' /\ MetInv'
  <2>1. Walking /\ Arg \in Roots
    BY <1>6 DEF Create, Remove, Change, Walking, Arg
  <2> QED
    BY <1>6, <2>1, CreateStep, RemoveStep
<1> QED
  BY <1>1, <1>2, <1>3, <1>4, <1>5, <1>6 DEF Next

----------------------------------------------------------------------------
(* The lines that are printed.                                             *)

\* The sums at the end of a walk.
LEMMA LineIsRight ==
  ASSUME TypeInv, KnownInv, OnceInv, MetInv, PrintLine,
         NEW line, line = [arg |-> Arg, size |-> size, space |-> space, unopened |-> unopened]
  PROVE  StayedIsIn(line) /\ NothingElseIsIn(line) /\ NothingIsInTwice(line)
<1>1. /\ Walking /\ Arg \in Roots /\ stack = << >> /\ pc = "return"
      /\ line.arg = Arg /\ line.size = size /\ line.space = space /\ line.unopened = unopened
      /\ IsTree(tree) /\ stayed \subseteq tree \ removed
  BY DEF PrintLine, Walking, KnownInv, EntryKnown, TypeInv, TypeOK
<1>2. /\ space \in [AllEntries -> Nat] /\ TopEntry \in AllEntries /\ stayed \subseteq AllEntries
      /\ \A e \in AllEntries : Clean(e) => AtMostOnce(e)
      /\ Touched(TopEntry)
      /\ \A e \in stayed, p \in AllEntries : p[2] = e[1] /\ Opened(p) => Touched(e)
  BY <1>1, WalkInvs
<1>3. \A e : (Touched(e) <=> Counted(e) \/ Failed(e)) /\ (Opened(e) <=> Counted(e))
  BY <1>1 DEF Touched, Opened, Waiting, Now, Open
<1>4. \A e \in AllEntries : /\ size[e] = IF e[2] \in Files THEN space[e] ELSE 0
                            /\ Counted(e) => Known(e)
                            /\ Failed(e) => e[2] \notin Files
                            /\ space[e] \in Nat
  BY <1>1, <1>2, Sets DEF KnownInv, SumsKnown, Counted, Failed
<1>5. StayedIsIn(line)
  <2> SUFFICES ASSUME NEW e \in stayed, e[1] \in Walked(line)
               PROVE  /\ size[e] = (IF e[2] \in Files THEN 1 ELSE 0)
                      /\ space[e] = (IF e \in unopened THEN 0 ELSE 1)
    BY <1>1 DEF StayedIsIn
  <2>1. TopEntry \notin unopened /\ e[1] \in Below(stayed \ unopened, Arg)
    BY <1>1 DEF Walked, TopEntry
  <2>2. Counted(TopEntry)
    BY <1>2, <1>3, <2>1 DEF Failed
  <2> DEFINE counted == {d \in Folders : \E p \in AllEntries : p[2] = d /\ Counted(p)}
  <2>3. Arg \in counted
    BY <1>1, <1>2, <2>2, Sets DEF TopEntry
  <2>4. ASSUME NEW f \in stayed \ unopened, f[1] \in counted, f[2] \in Dirs
        PROVE  f[2] \in counted
    <3>1. PICK p \in AllEntries : p[2] = f[1] /\ Counted(p)
      BY <2>4
    <3>2. Counted(f) /\ f \in AllEntries
      BY <1>2, <1>3, <3>1 DEF Failed
    <3> QED
      BY <2>4, <3>2, Sets
  <2>5. e[1] \in counted
    <3>1. Descends(counted, stayed \ unopened)
      BY <2>4 DEF Descends
    <3> HIDE DEF counted
    <3>2. counted \in SUBSET Folders
      BY DEF counted
    <3> QED
      BY <2>1, <2>3, <3>1, <3>2, BelowLeast
  <2>6. Touched(e) /\ e \in AllEntries
    BY <1>2, <1>3, <2>5
  <2>7. Clean(e)
    <3>1. stayed \ unopened \in SUBSET (tree \ removed)
      BY <1>1
    <3>2. Below(stayed \ unopened, Arg) \subseteq Below(tree \ removed, Arg)
      BY <3>1, BelowMonotone
    <3> QED
      BY <1>1, <2>1, <3>2 DEF Clean
  <2>8. space[e] = IF e \in unopened THEN 0 ELSE 1
    <3>1. space[e] <= 1 /\ space[e] \in Nat /\ (Counted(e) => ~Failed(e))
      BY <1>2, <1>4, <2>6, <2>7 DEF AtMostOnce, InOnePlace
    <3> QED
      BY <1>3, <2>6, <3>1 DEF Counted, Failed
  <2>9. e \in unopened => e[2] \notin Files
    BY <1>4, <2>6 DEF Failed
  <2> QED
    BY <1>4, <2>6, <2>8, <2>9
<1>6. NothingElseIsIn(line)
  <2>1. ASSUME NEW e \in AllEntries, size[e] + space[e] > 0 PROVE Known(e)
    BY <1>4, <2>1 DEF Counted
  <2> QED
    BY <1>1, <2>1 DEF NothingElseIsIn, Known, TopEntry
<1>7. NothingIsInTwice(line)
  <2> SUFFICES ASSUME NEW e \in AllEntries \ removed, space[e] > 1,
                      e[1] \in {Top} \cup Below(tree \ removed, Arg)
               PROVE  FALSE
    BY <1>1 DEF NothingIsInTwice
  <2>1. e \in tree \cup {TopEntry}
    BY <1>4 DEF Counted, Known
  <2>2. Clean(e)
    BY <1>1, <2>1, Sets DEF Clean, IsTree
  <2>3. space[e] <= 1 /\ space[e] \in Nat
    BY <1>2, <2>2 DEF AtMostOnce
  <2> QED
    BY <2>3
<1> QED
  BY <1>5, <1>6, <1>7

\* A line stays right when others change the tree.
LEMMA LineStaysRight ==
  ASSUME TypeInv, NEW e \in Folders \X (Dirs \cup Files), Create(e) \/ Remove(e),
         NEW line \in Reports,
         StayedIsIn(line), NothingElseIsIn(line), NothingIsInTwice(line)
  PROVE  StayedIsIn(line)' /\ NothingElseIsIn(line)' /\ NothingIsInTwice(line)'
<1>1. /\ stayed' \subseteq stayed /\ tree \cup removed \subseteq tree' \cup removed'
      /\ removed \subseteq removed' /\ IsTree(tree)
  BY DEF Create, Remove, TypeInv, TypeOK
<1>2. StayedIsIn(line)'
  <2>1. stayed' \ line.unopened \in SUBSET (stayed \ line.unopened)
    BY <1>1
  <2>2. Walked(line)' \subseteq Walked(line)
    BY <2>1, BelowMonotone DEF Walked
  <2> QED
    BY <1>1, <2>2 DEF StayedIsIn
<1>3. NothingElseIsIn(line)'
  BY <1>1 DEF NothingElseIsIn
<1>4. NothingIsInTwice(line)'
  <2> SUFFICES ASSUME NEW f \in AllEntries \ removed', line.space[f] > 1,
                      f[1] \in {Top} \cup Below(tree' \ removed', line.arg)
               PROVE  FALSE
    BY DEF NothingIsInTwice
  <2>1. f[1] \notin {Top} \cup Below(tree \ removed, line.arg)
    BY <1>1 DEF NothingIsInTwice
  <2>2. CASE tree' \ removed' \subseteq tree \ removed
    BY <2>1, <2>2, BelowMonotone
  <2>3. CASE line.arg \notin Roots
    <3>1. line.arg \notin Folders
      BY <2>3, Sets DEF Reports
    <3>2. Below(tree \ removed, line.arg) = Folders
      BY <3>1 DEF Below
    <3> QED
      BY <2>1, <3>2 DEF Below
  <2>4. CASE Create(e) /\ e \notin removed /\ line.arg \in Roots
    <3>1. /\ tree' \ removed' = (tree \ removed) \cup {e} /\ e \notin tree
          /\ IsTree(tree \cup {e}) /\ removed' = removed
      BY <2>4 DEF Create
    <3>2. \A g \in tree : g[1] # e[2]
      BY <1>1, <3>1, NewIsEmpty
    <3>3. f[1] = e[2]
      <4>1. Below(tree' \ removed', line.arg) \subseteq Below(tree \ removed, line.arg) \cup {e[2]}
        BY <2>4, <3>1, <3>2, BelowCreate
      <4> QED
        BY <2>1, <4>1
    <3>4. f \in tree \cup {<<Top, line.arg>>}
      <4>1. line.size[f] + line.space[f] > 0
        BY DEF Reports
      <4> QED
        BY <3>1, <4>1 DEF NothingElseIsIn
    <3> QED
      BY <3>2, <3>3, <3>4, Sets
  <2>5. ~(Create(e) /\ e \notin removed) => tree' \ removed' \subseteq tree \ removed
    BY DEF Create, Remove
  <2> QED
    BY <2>2, <2>3, <2>4, <2>5
<1> QED
  BY <1>2, <1>3, <1>4

LEMMA SumsRightStep ==
  TypeInv /\ KnownInv /\ OnceInv /\ MetInv /\ SumsRight /\ [Next]_vars => SumsRight'
<1> SUFFICES ASSUME TypeInv, KnownInv, OnceInv, MetInv, SumsRight, [Next]_vars PROVE SumsRight'
  OBVIOUS
<1> DEFINE Right(line) == StayedIsIn(line) /\ NothingElseIsIn(line) /\ NothingIsInTwice(line)
<1>1. printed \in Seq(Reports) /\ \A k \in DOMAIN printed : printed[k] \in Reports
  BY ElementOfSeq, LenProperties DEF TypeInv
<1>2. ASSUME UNCHANGED disk, NEW line PROVE Right(line)' <=> Right(line)
  BY <1>2 DEF disk, StayedIsIn, Walked, NothingElseIsIn, NothingIsInTwice
<1>3. \A k \in DOMAIN printed : Right(printed[k])
  BY DEF SumsRight
<1>4. CASE UNCHANGED <<printed, disk>>
  BY <1>2, <1>3, <1>4 DEF SumsRight
<1>5. CASE PrintLine
  <2> DEFINE line == [arg |-> Arg, size |-> size, space |-> space, unopened |-> unopened]
  <2>1. Right(line)
    BY <1>5, LineIsRight
  <2>2. printed' = Append(printed, line) /\ UNCHANGED disk
    BY <1>5 DEF PrintLine, Arg
  <2>3. ASSUME NEW k \in DOMAIN printed' PROVE Right(printed'[k])
    <3> HIDE DEF line, Right
    <3>1. (k \in DOMAIN printed /\ printed'[k] = printed[k]) \/ printed'[k] = line
      BY <1>1, <2>2, LenProperties
    <3> QED
      BY <1>3, <2>1, <3>1
  <2>4. ASSUME NEW k \in DOMAIN printed' PROVE Right(printed[k])'
    <3> HIDE DEF line
    <3> QED
      BY <2>2, <2>3 DEF disk, StayedIsIn, Walked, NothingElseIsIn, NothingIsInTwice
  <2> QED
    BY <2>4 DEF SumsRight
<1>6. ASSUME NEW e \in Folders \X (Dirs \cup Files), Create(e) \/ Remove(e) PROVE SumsRight'
  <2>1. printed' = printed
    BY <1>6 DEF Create, Remove, Change
  <2>2. \A k \in DOMAIN printed : Right(printed[k])'
    BY <1>1, <1>3, <1>6, <2>1, LineStaysRight
  <2> QED
    BY <2>1, <2>2 DEF SumsRight
<1>7. Next => \/ UNCHANGED <<printed, disk>> \/ PrintLine
              \/ \E e \in Folders \X (Dirs \cup Files) : Create(e) \/ Remove(e)
  BY DEF Next, Program, Usage, NextArgument, Exit, LstatFails, CountFile, IsDirectory,
         OpenDir, CannotOpen, ReadDir, CloseDir
<1>8. UNCHANGED vars => UNCHANGED <<printed, disk>>
  BY DEF vars
<1> QED
  BY <1>4, <1>5, <1>6, <1>7, <1>8

----------------------------------------------------------------------------
(* The theorems.                                                           *)

LEMMA InitInv == Init => IInv
<1> SUFFICES ASSUME Init PROVE IInv
  OBVIOUS
<1>1. TypeInv /\ KnownInv
  BY InitType, InitKnown
<1>2. ErrorInv /\ OnceInv /\ MetInv
  BY DEF Init, ErrorInv, OnceInv, MetInv, Walking
<1>3. SumsRight
  BY DEF Init, SumsRight
<1> QED
  BY <1>1, <1>2, <1>3 DEF IInv

LEMMA NextInv == IInv /\ [Next]_vars => IInv'
BY TypeStep, StackKnownStep, EntryKnownStep, SumsKnownStep, ErrorStep, OnceStep,
   SumsRightStep
   DEF IInv, KnownInv

LEMMA SpecIInv == Spec => []IInv
BY InitInv, NextInv, PTL DEF Spec

\* The argument loop and the walk stay within what they are about, and the
\* file system that the others change stays a tree.
THEOREM TypeCorrect == Spec => []TypeOK
<1>1. IInv => TypeOK
  BY DEF IInv, TypeInv
<1> QED
  BY <1>1, SpecIInv, PTL

\* Whatever others do meanwhile, each line of main has what stayed below its
\* argument once, nothing that never was there, and twice only what went away
\* and came back: calc_usage loses and repeats nothing.
THEOREM EverySumIsRight == Spec => []SumsRight
<1>1. IInv => SumsRight
  BY DEF IInv
<1> QED
  BY <1>1, SpecIInv, PTL

\* However the tree changes and whatever permissions are missing: Error(),
\* which takes the lines of all later arguments with it, is called only for
\* the entry that lstat has just failed for, and never for a directory that
\* cannot be opened; the arguments before have all got their lines.
THEOREM DiesOnlyOfLstat == Spec => []DiesOfLstat
<1>1. IInv => DiesOfLstat
  BY DEF IInv, ErrorInv, DiesOfLstat
<1> QED
  BY <1>1, SpecIInv, PTL
============================================================================
