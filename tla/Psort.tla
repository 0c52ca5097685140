------------------------------- MODULE Psort -------------------------------
(***************************************************************************)
(* src/psort.cc: priority sort.  All lines are read into memory; then each *)
(* pattern in turn takes the lines it matches, which are sorted and        *)
(* written; at last the remaining lines are sorted and written.  With a    *)
(* file argument the result goes back to the file that was read.           *)
(*                                                                         *)
(* A line is a number, ordered as the strings are; a pattern is the set of *)
(* the lines it matches.  A stream that cannot be opened, or fails on its  *)
(* way, looks to the program like one that ends there: nothing is tested.  *)
(***************************************************************************)
EXTENDS Integers, Sequences, FiniteSets, SequencesExt

CONSTANTS
  Lines,       \* the lines there are, natural numbers
  MaxLen,      \* bound: the length of the input
  Controls,    \* what can be read of a control file: sequences of patterns
  MayFail,     \* may the file fail to open, to be read or to be written?
  MayBeKilled  \* may the program be killed on its way?

ASSUME PsortAssumption ==
  /\ Lines \subseteq Nat /\ IsFiniteSet(Lines)
  /\ MaxLen \in Nat
  /\ \A c \in Controls : c \in Seq(SUBSET Lines)
  /\ MayFail \in BOOLEAN /\ MayBeKilled \in BOOLEAN

VARIABLES
  argc,        \* 2: from stdin to stdout; 3: in place; otherwise an error
  source,      \* history: the input as it was at the start
  readable,    \* history: the lines of it in front of the first failure
  control,     \* the patterns that the control file gives
  next,        \* the index of the pattern that is read next
  pc,          \* what the program does next
  unread,      \* the part of it that has not been read
  newsgroups,  \* the lines read and not yet matched
  buffer,      \* what *output was given and has not come out
  bad,         \* has *output failed, in its "open" or in a "write"?
  stdout,      \* what has come out on stdout
  file         \* the content of argv[2]

given == <<argc, source, readable, control>>
vars  == <<given, next, pc, unread, newsgroups, buffer, bad, stdout, file>>

inplace == argc = 3

\* The algorithms of the library by what they promise: which positions of s
\* follow each other in the result.  (SelectSeq and SortSeq are opaque to the
\* provers.)
Listed(at, before) ==
  CHOOSE p \in Bijection(1..Cardinality(at), at) :
    \A j, k \in DOMAIN p : j < k => <<p[k], p[j]>> \notin before

\* copy_if: the lines in P, in the order that they have in s.
Taken(s, P) ==
  LET at == {i \in DOMAIN s : s[i] \in P}
      p  == Listed(at, {q \in at \X at : q[1] < q[2]})
  IN [k \in 1..Cardinality(at) |-> s[p[k]]]

\* sort: the lines of s, none after one that it is before.
Sorted(s, before) ==
  LET at == DOMAIN s
      p  == Listed(at, {q \in at \X at : <<s[q[1]], s[q[2]]>> \in before})
  IN [k \in at |-> s[p[k]]]

Alphabetic   == {q \in Lines \X Lines : q[1] < q[2]}
SortLines(s) == Sorted(s, Alphabetic)

Init ==
  /\ argc \in {1, 2, 3}
  /\ source \in SeqOf(Lines, MaxLen)
  /\ readable \in IF MayFail THEN {SubSeq(source, 1, n) : n \in 0..Len(source)} ELSE {source}
  /\ control \in Controls
  /\ next = 1
  /\ pc = "args"
  /\ unread = readable
  /\ newsgroups = << >> /\ buffer = << >> /\ bad = {} /\ stdout = << >>
  /\ file = IF inplace THEN source ELSE << >>

Goto(from, to) == pc = from /\ pc' = to

Usage ==
  /\ Goto("args", "exit")
  /\ argc \notin {2, 3}
  /\ UNCHANGED <<given, next, unread, newsgroups, buffer, bad, stdout, file>>

OpenInput ==
  /\ Goto("args", "read")
  /\ argc \in {2, 3}
  /\ UNCHANGED <<given, next, unread, newsgroups, buffer, bad, stdout, file>>

\* while (getline(...)) newsgroups.push_back(line)
ReadLine ==
  /\ Goto("read", "read")
  /\ unread # << >>
  /\ newsgroups' = Append(newsgroups, Head(unread))
  /\ unread' = Tail(unread)
  /\ UNCHANGED <<given, next, buffer, bad, stdout, file>>

\* Mutant: the file is opened for appending.
OpenAppending ==
  /\ Goto("read", "match")
  /\ unread = << >>
  /\ UNCHANGED <<given, next, unread, newsgroups, buffer, bad, stdout, file>>

\* new ofstream(argv[2]) truncates the file that was just read, or fails and
\* leaves it alone.
OpenOutput ==
  /\ Goto("read", "match")
  /\ unread = << >>
  /\ \/ file' = (IF inplace THEN << >> ELSE file) /\ UNCHANGED bad
     \/ MayFail /\ inplace /\ bad' = {"open"} /\ UNCHANGED file
  /\ UNCHANGED <<given, next, unread, newsgroups, buffer, stdout>>

\* while (control >> pattern): copy_if, erase(remove_if), sort, copy
Match ==
  /\ Goto("match", "match")
  /\ next <= Len(control)
  /\ LET pattern   == control[next]
         matchlist == Taken(newsgroups, pattern) IN
     /\ newsgroups' = Taken(newsgroups, Lines \ pattern)
     /\ buffer' = buffer \o SortLines(matchlist)
  /\ next' = next + 1
  /\ UNCHANGED <<given, unread, bad, stdout, file>>

\* Mutant: the rest is not sorted.
RestUnsorted ==
  /\ Goto("match", "end")
  /\ next > Len(control)
  /\ buffer' = buffer \o newsgroups
  /\ UNCHANGED <<given, next, unread, newsgroups, bad, stdout, file>>

Rest ==
  /\ Goto("match", "end")
  /\ next > Len(control)
  /\ newsgroups' = SortLines(newsgroups)
  /\ buffer' = buffer \o newsgroups'
  /\ UNCHANGED <<given, next, unread, bad, stdout, file>>

\* The buffer of the stream is written out whenever it is full, so that any
\* part of it may be out before the program ends.
Put(lines) ==
  IF inplace THEN file' = file \o lines /\ UNCHANGED stdout
             ELSE stdout' = stdout \o lines /\ UNCHANGED file

Write(n) ==
  /\ Put(SubSeq(buffer, 1, n))
  /\ buffer' = SubSeq(buffer, n + 1, Len(buffer))

Spill ==
  /\ pc \in {"match", "end"} /\ bad = {}
  /\ \E n \in 1..Len(buffer) : Write(n)
  /\ UNCHANGED <<given, next, pc, unread, newsgroups, bad>>

\* A write fails, after a part of it or at once: from then on operator<< does
\* nothing, and the program goes on.
WriteFails ==
  /\ MayFail
  /\ pc \in {"match", "end"} /\ bad = {} /\ buffer # << >>
  /\ bad' = {"write"}
  /\ UNCHANGED <<given, next, pc, unread, newsgroups, buffer, stdout, file>>

\* return 0.  cout is flushed at exit.  The stream of the file is neither
\* closed nor destroyed: some libraries flush it, others drop its buffer.  A
\* stream that has failed may be tried again (it has at most the lines that it
\* was given; which of them came after the failure is not kept apart).
Exit ==
  /\ Goto("end", "exit")
  /\ \E n \in 0..Len(buffer) :
       /\ n < Len(buffer) => inplace \/ bad # {}
       /\ "open" \in bad => n = 0
       /\ Write(n)
  /\ UNCHANGED <<given, next, unread, newsgroups, bad>>

Killed ==
  /\ MayBeKilled
  /\ pc \notin {"exit", "killed"}
  /\ pc' = "killed"
  /\ UNCHANGED <<given, next, unread, newsgroups, buffer, bad, stdout, file>>

Program ==
  \/ Usage \/ OpenInput \/ ReadLine \/ OpenOutput \/ Match \/ Rest
  \/ Spill \/ WriteFails \/ Exit

Next == Program \/ Killed

Spec == Init /\ [][Next]_vars

----------------------------------------------------------------------------
(* Properties.                                                             *)

\* What has come out of the result.
Output == IF "open" \in bad THEN << >> ELSE IF inplace THEN file ELSE stdout

\* The index of the first pattern that matches a line.
Rank(a) ==
  LET matching == {k \in DOMAIN control : a \in control[k]} IN
  IF matching = {} THEN Len(control) + 1 ELSE CHOOSE k \in matching : \A j \in matching : k <= j

\* The result as the manual page describes it: one sort, by rank and then
\* alphabetically.
Priority ==
  {q \in Lines \X Lines :
     Rank(q[1]) < Rank(q[2]) \/ (Rank(q[1]) = Rank(q[2]) /\ q[1] < q[2])}

Reference == Sorted(readable, Priority)

\* The types of the table, of the streams and of the three passes.
TypeOK ==
  /\ pc \in {"args", "read", "match", "end", "exit", "killed"}
  /\ next \in 1..(Len(control) + 1)
  /\ bad \in {{}, {"open"}, {"write"}}
  /\ \A s \in {unread, newsgroups, buffer, stdout, file} : s \in SeqOf(Lines, MaxLen)

\* The passes over the patterns come to the same as one sort by priority of
\* what could be read, and unless a write fails all of it comes out on stdout.
PrioritySorted ==
  pc = "exit" /\ argc = 2 /\ bad = {} => stdout = Reference

\* A program that is killed, or whose writes fail, leaves of its output a part
\* of the result and never anything else; the file is as it was if it could
\* not be opened for writing, or was not yet.
Untouched == file = source /\ (pc \in {"args", "read", "killed"} \/ "open" \in bad)

KilledLeavesPrefix ==
  /\ argc = 2 => IsPrefix(stdout, Reference)
  /\ inplace /\ ~Untouched =>
       pc \notin {"args", "read"} /\ "open" \notin bad /\ IsPrefix(file, Reference)

\* "The result will overwrite filename if it was specified": at the end the
\* file holds the whole result, whatever is left in the buffer of the stream.
ResultOverwrites ==
  pc = "exit" /\ inplace => file = Sorted(source, Priority)
============================================================================
