------------------------------- MODULE Exdump ------------------------------
(***************************************************************************)
(* src/exdump.c: prints what the headers of a.out files say, and for files *)
(* that are linked dynamically the list of their libraries.  A problem     *)
(* with one file ends the program; the files stay open until then.         *)
(*                                                                         *)
(* A file is a record: can it be opened, is the header complete, is it from *)
(* a machine with the other byte order, its magic number ("O", "N", "Z",   *)
(* "Q" or another), one of its sizes as four bytes, is the program dynamic,*)
(* can it be mapped, its linker version; and the linked list of the        *)
(* libraries: the first one and the next one after each, 0 being the null  *)
(* offset that ends the list (it leads to an address not above that of the *)
(* mapping).                                                               *)
(***************************************************************************)
EXTENDS Integers, Sequences, FiniteSets

CONSTANTS
  MaxFiles,        \* how many files the process may have open
  Sun,             \* the build: SunOS, or a BSD
  LdVersionBsd     \* LD_VERSION_BSD, 8

\* print_dynamic: where lobj points in each round of its loop, up to as many
\* rounds as there are libraries; a list with a cycle would go on.
Lobj(f) ==
  LET at[n \in 0..Cardinality(DOMAIN f.next)] ==
        IF n = 0 THEN f.first ELSE IF at[n - 1] = 0 THEN 0 ELSE f.next[at[n - 1]]
  IN at

\* How many rounds there are: while (lobj > fp).
Rounds(f) ==
  CHOOSE n \in 0..Cardinality(DOMAIN f.next) :
    /\ n = Cardinality(DOMAIN f.next) \/ Lobj(f)[n] = 0
    /\ \A k \in 0..(n - 1) : Lobj(f)[k] # 0

\* Mutant: "do ... while".
LibrariesAtLeastOne(f) ==
  [k \in 1..(IF Rounds(f) = 0 THEN 1 ELSE Rounds(f)) |-> Lobj(f)[k - 1]]

Libraries(f) == [k \in 1..Rounds(f) |-> Lobj(f)[k - 1]]

\* What the build takes for a magic number, in its own byte order.
Magics == {"O", "N", "Z"} \cup (IF Sun THEN {} ELSE {"Q"})
Magic(f) == IF f.foreign THEN "other" ELSE f.magic

\* N_BADMAG
Bad(f) == Magic(f) \notin Magics

Byteswap(in) == <<in[4], in[3], in[2], in[1]>>

\* A number of the header as this machine reads it.
Raw(f) == IF f.foreign THEN <<f.size[4], f.size[3], f.size[2], f.size[1]>> ELSE f.size

\* is_dynamic, print_magic: what they say about the file.
PrintMagic(f) == <<IF f.dynamic THEN "YES" ELSE "NO", IF Bad(f) THEN "bad" ELSE Magic(f)>>

\* The lines for the header: with a bad magic number no more than the ID,
\* unless -f was given; with -s the sizes are swapped and nothing else is said.
Header(o, f) ==
  IF Bad(f) /\ ~o.f THEN [magic |-> << >>, sizes |-> << >>]
  ELSE IF o.s THEN [magic |-> << >>, sizes |-> <<Byteswap(Raw(f))>>]
  ELSE [magic |-> PrintMagic(f), sizes |-> <<Raw(f)>>]

\* !force && is_dynamic(&hdr), for a file that has not been given up before
Follows(o, f) == ~(Bad(f) /\ ~o.f) /\ ~o.f /\ f.dynamic

\* print_dynamic: the versions of the linker that it understands.
Understood(f) == IF Sun THEN f.version >= 2 ELSE f.version = LdVersionBsd

\* The lines of a file: its header, and its libraries if they are listed.
Section(o, many, f, dynamic) ==
  [named |-> many, header |-> Header(o, f), dynamic |-> dynamic,
   libs |-> IF dynamic = "libraries" THEN Libraries(f) ELSE << >>]

\* One round of the loop over the files: Error() ends it in between.
Dump(o, many, s, f) ==
  LET Add(dynamic) == Append(s.out, Section(o, many, f, dynamic)) IN
  IF s.dead \/ ~f.opens \/ s.open = MaxFiles \/ f.short THEN [s EXCEPT !.dead = TRUE]
  ELSE IF ~Follows(o, f) THEN [s EXCEPT !.open = @ + 1, !.out = Add("no")]
  ELSE IF ~f.maps THEN [open |-> s.open + 1, out |-> Add("no"), dead |-> TRUE]
  ELSE [s EXCEPT !.open = @ + 1,
                 !.out = Add(IF Understood(f) THEN "libraries" ELSE "old")]

\* main: -d has no effect; another option, or no file: Usage.
Options(args) ==
  LET given == {args[k] : k \in DOMAIN args} IN
  [f |-> "-f" \in given, s |-> "-s" \in given, bad |-> ~(given \subseteq {"-d", "-f", "-s"})]
Usage(args, files) == Options(args).bad \/ files = << >>

\* The lines for each file, for as long as the program lives.
After(args, files) ==
  LET s[n \in 0..Len(files)] ==
        IF n = 0 THEN [open |-> 0, out |-> << >>, dead |-> FALSE]
        ELSE Dump(Options(args), Len(files) > 1, s[n - 1], files[n])
  IN s

Output(args, files) ==
  IF Usage(args, files) THEN [open |-> 0, out |-> << >>, dead |-> TRUE]
  ELSE After(args, files)[Len(files)]

----------------------------------------------------------------------------

\* Does the k-th file end the program?
Fatal(o, files, k) ==
  ~files[k].opens \/ files[k].short \/ k > MaxFiles \/ (Follows(o, files[k]) /\ ~files[k].maps)

\* The list from its head on, without a gap.
Chain(f, libs) ==
  /\ libs = << >> <=> f.first = 0
  /\ libs # << >> => libs[1] = f.first
  /\ \A j \in 1..(Len(libs) - 1) : f.next[libs[j]] = libs[j + 1]

NoneTwice(libs) == \A j, k \in DOMAIN libs : libs[j] = libs[k] => j = k
Ends(f, libs) == libs # << >> => f.next[libs[Len(libs)]] = 0

\* The sizes are true if -s was given for a file from the other kind of
\* machine, or not given for one from this kind, or make no difference;
\* "Not a ... executable" is said of forced files only.
HeaderRight(o, f, header) ==
  /\ header.sizes # << >> <=> o.f \/ ~Bad(f)
  /\ header.sizes # << >> => (header.sizes[1] = f.size <=> o.s = f.foreign \/ Byteswap(f.size) = f.size)
  /\ header.magic # << >> => (header.magic[2] = "bad" <=> Bad(f)) /\ (Bad(f) => o.f)

\* Each file before the first fatal one gets its whole section, and none after
\* it gets anything.  The header is true as far as the byte order is known.
\* The section of a file that is linked dynamically follows the list of
\* libraries, to its end and naming none twice, unless the list runs into a
\* cycle; no list is followed that -f or a bad magic number forbids.
ExdumpReports(args, files) ==
  LET o      == Options(args)
      result == Output(args, files)
      good   == {k \in DOMAIN files : \A j \in 1..k : ~Fatal(o, files, j)}
      shown  == Len(result.out)
  IN /\ result.dead <=> Usage(args, files) \/ good # DOMAIN files
     /\ Usage(args, files) => shown = 0
     /\ ~Usage(args, files) =>
          /\ shown \in Cardinality(good)..(Cardinality(good) + 1)
          /\ shown > Cardinality(good) => result.out[shown].dynamic = "no"
          /\ \A k \in good :
               LET section == result.out[k]
                   libs    == section.libs
                   f       == files[k] IN
               /\ HeaderRight(o, f, section.header)
               /\ section.dynamic = "libraries" <=> f.dynamic /\ Understood(f) /\ ~Bad(f) /\ ~o.f
               /\ section.dynamic = "libraries" =>
                    /\ Chain(f, libs)
                    /\ IF Ends(f, libs) THEN NoneTwice(libs)
                                       ELSE Len(libs) = Cardinality(DOMAIN f.next)
============================================================================
