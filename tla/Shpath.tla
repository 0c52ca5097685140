------------------------------- MODULE Shpath ------------------------------
(***************************************************************************)
(* src/shpath.c: prints the directories of a path, or the places of a file *)
(* in it; and src/shpath.sh, the script for the latter.                    *)
(*                                                                         *)
(* A path is the sequence of its components, "" among them; the empty      *)
(* string is <<"">>.  What lies at a component is "nodir" if there is no   *)
(* such directory, "none" if the file is not in it, or the kind of the     *)
(* file: "file", "empty" or "dir".  At "" that is the file system's root,  *)
(* which only the script looks at.  No component holds a blank.            *)
(***************************************************************************)
EXTENDS Integers, Sequences, FiniteSets

\* The empty component.
NoName == ""

Elements(seq) == {seq[k] : k \in DOMAIN seq}

\* The elements of a sequence that are in a set, in order.
Kept(seq, set) ==
  LET kept[n \in 0..Len(seq)] ==
        IF n = 0 THEN << >>
        ELSE IF seq[n] \in set THEN Append(kept[n - 1], seq[n]) ELSE kept[n - 1]
  IN kept[Len(seq)]

\* Mutant: strsep, which knows empty components, for strtok.
ComponentsAll(path) == Elements(path)

\* strtok skips empty components.
Components(path) == Elements(path) \ {NoName}

\* getopt: -f, and -p with the name of a variable; others get a message.
Option(o, arg) ==
  CASE arg = "-f"        -> [o EXCEPT !.first = TRUE]
    [] arg = "-pMANPATH" -> [o EXCEPT !.path = "MANPATH"]
    [] OTHER             -> o

Options(args) ==
  LET o[n \in 0..Len(args)] ==
        IF n = 0 THEN [first |-> FALSE, path |-> "PATH"] ELSE Option(o[n - 1], args[n])
  IN o[Len(args)]

\* stat(file), or stat(dir) if there is no name
Stat(at, dir, named) == at[dir] # "nodir" /\ (named => at[dir] # "none")

\* main: what it prints and how it ends.  getenv returns NULL for a variable
\* that is not set, and strlen fails.
Main(args, env, named, at) ==
  LET o     == Options(args)
      path  == env[o.path]
      found == Kept(path, {dir \in Components(path) : Stat(at, dir, named)})
  IN IF path = << >> THEN [lines |-> << >>, ends |-> "crash"]
     ELSE IF path = <<NoName>> THEN [lines |-> << >>, ends |-> "failure"]
     ELSE [lines |-> IF o.first /\ found # << >> THEN <<found[1]>> ELSE found,
           ends  |-> "success"]

\* The fields of $mypath under an IFS with a colon: an empty component is one
\* too, unless it is the last.
FieldsOf(path) ==
  IF path # << >> /\ path[Len(path)] = NoName THEN SubSeq(path, 1, Len(path) - 1) ELSE path

\* shpath.sh: test -s $cmddir/$1 && test ! -d $cmddir/$1
Script(path, named, at) ==
  LET fields == FieldsOf(path) IN
  Kept(fields, {dir \in Elements(fields) : named /\ at[dir] = "file"})

----------------------------------------------------------------------------

\* The program prints the directories of the path, in order, in which there
\* is such a file, whatever comes before or after them; with -f the first of
\* them only.  Where no component is empty the script finds no more than the
\* program, and the same files if none of those is empty or a directory.
ShpathReports(args, env, named, at) ==
  LET first  == "-f" \in Elements(args)
      path   == env[IF "-pMANPATH" \in Elements(args) THEN "MANPATH" ELSE "PATH"]
      result == Main(args, env, named, at)
      all    == Main(Kept(args, Elements(args) \ {"-f"}), env, named, at)
      places == {k \in DOMAIN path : path[k] # NoName /\ Stat(at, path[k], named)}
      script == Script(path, named, at)
  IN path # << >> =>
       /\ result.ends = "failure" <=> path = <<NoName>>
       /\ first => Len(result.lines) = (IF places = {} THEN 0 ELSE 1)
       /\ ~first => Len(result.lines) = Cardinality(places)
       /\ \A k \in places :
            LET rank == Cardinality({j \in places : j <= k}) IN
            rank = 1 \/ ~first => result.lines[rank] = path[k]
       /\ NoName \notin Elements(path) /\ named =>
            /\ Elements(script) \subseteq Elements(all.lines)
            /\ (\A k \in places : at[path[k]] = "file") /\ ~first => script = result.lines
============================================================================
