------------------------------- MODULE Hexvert -----------------------------
(***************************************************************************)
(* src/hexvert.c: prints hexadecimal numbers as decimal ones and the other *)
(* way round.  A line is a sequence of characters: the digits up to 15 are *)
(* themselves; there are the letter x, the minus sign, blanks (the newline *)
(* is one) and any other character.                                        *)
(***************************************************************************)
EXTENDS Integers, Sequences

CONSTANT Word    \* 2^w, for an int of w bits

X     == 16
Minus == 17
Space == 18
Other == 19

\* sscanf's progress: blanks, a sign, digits of the base, and all that follows.
ReadChar(st, c, base) ==
  CASE st.at = "blanks" /\ c = Space -> st
    [] st.at = "blanks" /\ c = Minus -> [st EXCEPT !.at = "digits", !.sign = -1]
    [] st.at # "end" /\ c < base     -> [st EXCEPT !.at = "digits", !.any = TRUE, !.value = @ * base + c]
    [] OTHER                         -> [st EXCEPT !.at = "end"]

\* sscanf with %d or %x: the number at the beginning of a text, as far as its
\* digits go, in a sequence; an empty one if there is none.  Numbers that are
\* too large lose their upper bits; a second "0x" is left out.
Scan(s, base) ==
  LET read[n \in 0..Len(s)] ==
        IF n = 0 THEN [at |-> "blanks", sign |-> 1, any |-> FALSE, value |-> 0]
        ELSE ReadChar(read[n - 1], s[n], base)
      st == read[Len(s)]
  IN IF st.any THEN <<(st.sign * st.value) % Word>> ELSE << >>

\* printf with %x, and with %d.
Digits(n, base) ==
  LET digits[m \in 0..n] ==
        IF m < base THEN <<m>> ELSE Append(digits[m \div base], m % base)
  IN digits[n]

\* Mutant: "%u".
Unsigned(n) == Digits(n, 10)

Decimal(n) ==
  IF n < Word \div 2 THEN Digits(n, 10) ELSE <<Minus>> \o Digits(Word - n, 10)

\* convert: "0x" must be at the very beginning; if no number follows it, the
\* zero is read as a decimal one.  An empty text stands for Error().
Convert(s) ==
  LET hex == IF Len(s) >= 2 /\ s[1] = 0 /\ s[2] = X THEN Scan(SubSeq(s, 3, Len(s)), 16) ELSE << >>
      dec == Scan(s, 10)
  IN IF hex # << >> THEN Decimal(hex[1])
     ELSE IF dec # << >> THEN <<0, X>> \o Digits(dec[1], 16)
     ELSE << >>

\* A line in the loop of main: one that holds no number ends the program.
Line(s, line) ==
  IF s.dead \/ Convert(line) = << >> THEN [s EXCEPT !.dead = TRUE]
  ELSE [s EXCEPT !.out = Append(@, Convert(line))]

\* main: the lines of stdin, or the one argument; a second one ends it (Usage).
Main(args, lines) ==
  LET given == IF args = << >> THEN lines ELSE args
      after[n \in 0..Len(given)] ==
        IF n = 0 THEN [out |-> << >>, dead |-> Len(args) > 1] ELSE Line(after[n - 1], given[n])
  IN after[Len(given)]

----------------------------------------------------------------------------

IsNumber(s) ==
  \E i \in DOMAIN s :
    /\ \A j \in 1..(i - 1) : s[j] = Space \/ (s[j] = Minus /\ j = i - 1)
    /\ s[i] < 10

\* The decimal forms that printf would give.
Canonical ==
  {Digits(n, 10) : n \in 0..(Word \div 2 - 1)} \cup {<<Minus>> \o Digits(n, 10) : n \in 1..(Word \div 2)}

\* Whatever line is taken for a number, converting the result and that again
\* ends where it began: hexadecimal and decimal form stand for the same bits.
\* A decimal number that fits into an int, a negative one included, is itself
\* again after two conversions.  Up to the first line without a number, every
\* line has its result.
HexvertInverts(lines) ==
  LET result == Main(<< >>, lines)
      there  == Main(<< >>, result.out)
      back   == Main(<< >>, there.out)
      good   == {k \in DOMAIN lines : \A j \in 1..k : IsNumber(lines[j])}
  IN /\ DOMAIN result.out = good
     /\ result.dead <=> good # DOMAIN lines
     /\ ~there.dead /\ ~back.dead /\ back.out = result.out
     /\ \A k \in good : lines[k] \in Canonical => there.out[k] = lines[k]
============================================================================
