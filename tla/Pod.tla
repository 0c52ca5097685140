---------------------------------- MODULE Pod ------------------------------
(***************************************************************************)
(* src/pod.c: prints a file as rows of hexadecimal bytes and of characters.*)
(* A byte is a number; the ones in Printable are characters.               *)
(***************************************************************************)
EXTENDS Integers, Sequences

CONSTANTS
  RowLen,       \* how many bytes a row has: 16
  Printable     \* isprint()

\* A round of the loop over what is left of the file.
Row(s) ==
  LET nbytes == IF Len(s.left) < RowLen THEN Len(s.left) ELSE RowLen
      bytes  == SubSeq(s.left, 1, nbytes)
  IN [left |-> SubSeq(s.left, nbytes + 1, Len(s.left)), pos |-> s.pos + nbytes,
      rows |-> Append(s.rows, [pos |-> s.pos, bytes |-> bytes,
        text |-> [i \in 1..nbytes |-> IF bytes[i] \in Printable THEN bytes[i] ELSE "."]])]

\* Dump: where the loop is after its last row.
Dump(file) ==
  LET round[n \in 0..Len(file)] ==
        IF n = 0 THEN [left |-> file, pos |-> 0, rows |-> << >>]
        ELSE IF round[n - 1].left = << >> THEN round[n - 1] ELSE Row(round[n - 1])
  IN round[Len(file)]

\* main: -x has no effect; the first file that is named, or stdin; a file that
\* cannot be opened is read all the same.
Main(options, named, opens, file) ==
  IF \E k \in DOMAIN options : options[k] # "-x" THEN "usage"
  ELSE IF named /\ ~opens THEN "crash"
  ELSE Dump(file)

----------------------------------------------------------------------------

Joined(seqs) ==
  LET all[k \in 0..Len(seqs)] == IF k = 0 THEN << >> ELSE all[k - 1] \o seqs[k]
  IN all[Len(seqs)]

\* The rows are the file, cut into pieces: put together they give it back,
\* each one begins at the place it names, and so does what would follow.
PodShowsAll(file) ==
  LET dump == Main(<<"-x">>, TRUE, TRUE, file)
      all  == Joined([k \in DOMAIN dump.rows |-> dump.rows[k].bytes])
  IN /\ all = file /\ dump.left = << >> /\ dump.pos = Len(file)
     /\ \A k \in DOMAIN dump.rows :
          LET row == dump.rows[k] IN
          /\ row.bytes = SubSeq(file, row.pos + 1, row.pos + Len(row.bytes))
          /\ k < Len(dump.rows) => Len(row.bytes) = RowLen
============================================================================
