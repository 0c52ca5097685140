------------------------------ MODULE Fhist1d ------------------------------
(***************************************************************************)
(* bin/fhist1d: the histogram of a column of numbers, with an optional     *)
(* weight in another column.  Bins include their right edge, or with -L    *)
(* their left one.                                                         *)
(*                                                                         *)
(* Data and options are integers and the quotients of the program are      *)
(* fractions, kept as numerator and denominator: rounding is left out, and *)
(* so are -g, which takes logarithms first, and -a and -s.                 *)
(***************************************************************************)
EXTENDS Integers, Sequences, FiniteSets

\* The options: l, u, b as the program has them, d = -1 unless -d was given,
\* and which of -L, -w and -p are there.
IsOptions(o) ==
  /\ o \in [l : Int, u : Int, b : Nat \ {0}, d : Int, L : BOOLEAN, w : BOOLEAN, p : BOOLEAN]
  /\ o.l < o.u /\ (o.d = -1 \/ o.d > 0)

NBins(o) ==
  IF o.d = -1 THEN o.b
  ELSE (o.u - o.l) \div o.d + (IF (o.u - o.l) % o.d > 0 THEN 1 ELSE 0)

\* $opt_d as a fraction
BinSize(o) == IF o.d = -1 THEN [num |-> o.u - o.l, den |-> o.b] ELSE [num |-> o.d, den |-> 1]

\* int() cuts off towards zero
Trunc(r) == IF r.num >= 0 THEN r.num \div r.den ELSE -((-r.num) \div r.den)

\* Mutant: without the correction for values on an edge.
IbinFloor(o, v) ==
  LET size == BinSize(o)
      rbin == [num |-> (v - o.l) * size.den, den |-> size.num]
  IN Trunc(rbin) - (IF rbin.num < 0 THEN 1 ELSE 0)

\* $ibin = int($rbin) - ($rbin < 0), and ($rbin > $ibin) - 1 without -L
Ibin(o, v) ==
  LET size  == BinSize(o)
      rbin  == [num |-> (v - o.l) * size.den, den |-> size.num]
      floor == Trunc(rbin) - (IF rbin.num < 0 THEN 1 ELSE 0)
  IN floor + (IF o.L \/ rbin.num > floor * rbin.den THEN 0 ELSE -1)

Empty(o) ==
  LET none == [k \in 0..(NBins(o) - 1) |-> 0] IN
  [freq |-> none, wfreq |-> none, uflow |-> 0, oflow |-> 0, sumw |-> 0, sumc |-> 0, qum |-> 0]

\* One row of the file: its value and its weight.
Fill(o, h, row) ==
  LET k == Ibin(o, row.v)
      w == IF o.w THEN row.w ELSE 0
      g == [h EXCEPT !.sumw = @ + w, !.sumc = @ + 1] IN
  IF k < 0 THEN [g EXCEPT !.uflow = @ + 1, !.qum = @ + (IF o.w THEN w ELSE 1)]
  ELSE IF k < NBins(o) THEN [g EXCEPT !.freq[k] = @ + 1, !.wfreq[k] = @ + w]
  ELSE [g EXCEPT !.oflow = @ + 1]

\* The loop over the file: the histogram after each row.
After(o, rows) ==
  LET h[n \in 0..Len(rows)] == IF n = 0 THEN Empty(o) ELSE Fill(o, h[n - 1], rows[n])
  IN h

Histogram(o, rows) == After(o, rows)[Len(rows)]

Norm(o, h) == IF o.w THEN h.sumw ELSE h.sumc

\* Division by zero: no data, weights that cancel out, or a single bin.
Dies(o, h) == Norm(o, h) = 0 \/ NBins(o) = 1

\* The number before bin k: from label_l to label_u in equal steps.
Label(o, k) ==
  LET size  == BinSize(o)
      first == o.l * size.den + (IF o.L THEN 0 ELSE size.num)
      last  == o.u * size.den - (IF o.L THEN size.num ELSE 0)
      steps == NBins(o) - 1
  IN [num |-> k * (last - first) + first * steps, den |-> size.den * steps]

\* What -c prints at each bin, as a multiple of 1/norm^2: qum starts with the
\* underflow and grows by fout, which -p has divided by norm once before.
Cumulated(o, h) ==
  LET out == IF o.w THEN h.wfreq ELSE h.freq
      one == IF o.p THEN 1 ELSE Norm(o, h)
      qum[k \in 0..(NBins(o) - 1)] ==
        (IF k = 0 THEN h.qum * Norm(o, h) ELSE qum[k - 1]) + out[k] * one
  IN qum

----------------------------------------------------------------------------

\* v lies below or on the edge l + k * d, as the choice of -L has it.
UpTo(o, v, k) ==
  LET size == BinSize(o)
      edge == o.l * size.den + k * size.num
  IN IF o.L THEN v * size.den < edge ELSE v * size.den <= edge

\* The rows with such values, and those between two edges.
Below(o, rows, k) == {n \in DOMAIN rows : UpTo(o, rows[n].v, k)}
Inside(o, rows, k) == Below(o, rows, k + 1) \ Below(o, rows, k)

\* The weight of some of the rows.
WeightOf(o, rows, ns) ==
  LET sum[n \in 0..Len(rows)] ==
        IF n = 0 THEN 0
        ELSE sum[n - 1] + (IF n \notin ns THEN 0 ELSE IF o.w THEN rows[n].w ELSE 1)
  IN sum[Len(rows)]

\* The bins end where the range ends: with -d they may reach beyond it.
Fills(o) == (o.u - o.l) * BinSize(o).den = NBins(o) * BinSize(o).num

\* Every row is in the one bin whose edges enclose it, or in the underflow or
\* the overflow; a bin's label is its own edge; and the cumulative column is
\* the part of the data up to that edge, as long as -p does not divide it a
\* second time.  If the bins do not fill the range, nothing is claimed of the
\* last one and of what lies beyond it.
HistogramRight(o, rows) ==
  LET h == Histogram(o, rows)
      n == NBins(o)
      claimed == {k \in 0..(n - 1) : Fills(o) \/ k < n - 1}
  IN /\ \A k \in claimed :
          /\ h.freq[k] = Cardinality(Inside(o, rows, k))
          /\ o.w => h.wfreq[k] = WeightOf(o, rows, Inside(o, rows, k))
     /\ h.uflow = Cardinality(Below(o, rows, 0))
     /\ Fills(o) => h.oflow = Cardinality(DOMAIN rows \ Below(o, rows, n))
     /\ ~Dies(o, h) => \A k \in claimed :
          LET label == Label(o, k)
              size  == BinSize(o)
              edge  == o.l * size.den + (IF o.L THEN k ELSE k + 1) * size.num
          IN /\ Fills(o) => label.num * size.den = edge * label.den
             /\ ~o.p => Cumulated(o, h)[k] = WeightOf(o, rows, Below(o, rows, k + 1)) * Norm(o, h)

\* "Number of values outside lower and upper limits": whatever lies above the
\* upper limit is counted as overflow, and nothing that lies below it.
OverflowCounted(o, rows) ==
  LET oflow == Histogram(o, rows).oflow IN
  /\ oflow >= Cardinality({n \in DOMAIN rows : rows[n].v > o.u})
  /\ oflow <= Cardinality({n \in DOMAIN rows : rows[n].v >= o.u})
============================================================================
