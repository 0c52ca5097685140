---------------------------- MODULE QuoteInsert ----------------------------
(***************************************************************************)
(* home/.emacs.d/elisp/quote-insert.el: inserts "> " before the lines of   *)
(* the region, from the last one upwards.  beg and end are numbers, not    *)
(* markers: they do not move when text is inserted.                        *)
(*                                                                         *)
(* A text is the sequence of the lengths of its lines; quotes says how     *)
(* often "> " was put before each of them.  Positions count characters and *)
(* line ends from 1.                                                       *)
(***************************************************************************)
EXTENDS Integers, Sequences

\* The position behind the first n lines.
Past(text, quotes) ==
  LET past[n \in 0..Len(text)] ==
        IF n = 0 THEN 1 ELSE past[n - 1] + text[n] + 2 * quotes[n] + 1
  IN past

\* The first position of line l; behind the last line, one position past
\* the end of the buffer.
Begin(text, quotes, l) == Past(text, quotes)[l - 1]

LineOf(text, quotes, p) ==
  CHOOSE l \in DOMAIN text : Begin(text, quotes, l) <= p /\ p < Begin(text, quotes, l + 1)

Unquoted(text) == [l \in DOMAIN text |-> 0]

\* Mutant: a region that ends with a line end reaches into the next line.
StartAtEnd(text, end) == end

\* (goto-char end), (and (bolp) (goto-char (1- end))); the position before
\* the first one is the first one.
Start(text, end) ==
  LET none == Unquoted(text) IN
  IF end = Begin(text, none, LineOf(text, none, end)) /\ end > 1 THEN end - 1 ELSE end

\* One round of the loop: move-beginning-of-line, insert, forward-line -1,
\* which on the first line goes to the beginning of that line.
Quote(text, s) ==
  LET l == LineOf(text, s.quotes, s.point)
      q == [s.quotes EXCEPT ![l] = @ + 1]
  IN [quotes |-> q, point |-> Begin(text, q, IF l = 1 THEN 1 ELSE l - 1)]

\* (while (<= beg (point)) ...): the states after so many tests of beg.
Rounds(text, beg, end, limit) ==
  LET s[n \in 0..limit] ==
        IF n = 0 THEN [quotes |-> Unquoted(text), point |-> Start(text, end)]
        ELSE IF beg <= s[n - 1].point THEN Quote(text, s[n - 1]) ELSE s[n - 1]
  IN s

----------------------------------------------------------------------------

\* The region, as it is before anything is inserted, begins with a line.
AtLineStart(text, beg) == \E l \in DOMAIN text : beg = Begin(text, Unquoted(text), l)

\* The lines that begin in the region, and those that lie in it altogether.
Cited(text, beg, end) ==
  LET at(l) == Begin(text, Unquoted(text), l) IN
  {l \in DOMAIN text : beg <= at(l) /\ at(l) < end}

Whole(text, beg, end) ==
  {l \in Cited(text, beg, end) : Begin(text, Unquoted(text), l + 1) <= end}

\* A region that begins with a line other than the first: the loop ends with
\* one citation string before every line that begins in the region and before
\* no other, although beg and end are numbers and inserting moves the text.
QuotesRegion(text, beg, end) ==
  LET limit == Len(text) + 1
      last  == Rounds(text, beg, end, limit)[limit]
  IN beg > 1 /\ AtLineStart(text, beg) =>
       /\ last.point < beg
       /\ \A l \in DOMAIN text :
            last.quotes[l] = (IF l \in Cited(text, beg, end) THEN 1 ELSE 0)

\* "Insert a "> " citation string at every line in the current region": one
\* before each line that lies in the region altogether, wherever it begins.
QuotesEveryLine(text, beg, end) ==
  LET limit == Len(text) + 1 IN
  \A l \in Whole(text, beg, end) : Rounds(text, beg, end, limit)[limit].quotes[l] = 1
============================================================================
