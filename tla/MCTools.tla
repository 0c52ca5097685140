------------------------------ MODULE MCTools ------------------------------
(***************************************************************************)
(* The tools on every input of a bounded size.                             *)
(***************************************************************************)
EXTENDS Tools, SequencesExt

CONSTANTS
  MaxLines,   \* bound: the lines of a text, and the length of a line
  MaxRows,    \* bound: the rows of data for a histogram
  MaxArgs     \* bound: the files or hosts on a command line

\* A byte of buffer less than the longest line has.
ShortBuffer == MaxLines - 2

\* A text that is not empty and a region in it.
TestQuoteInputs ==
  UNION {LET size == Quote!Begin(text, Quote!Unquoted(text), Len(text) + 1) - 1
         IN {i \in [text : {text}, beg : 1..size, end : 1..size] : i.beg <= i.end} :
           text \in SeqOf(0..2, MaxLines) \ {<< >>}}

\* The range of the histograms is from 0 to 4.  -b with one bin and with two;
\* -d with a size that fills the range and with one that does not.
Rows == SeqOf([v : {-4, -1, 0, 2, 3, 4, 5, 7}, w : {1, 2}], MaxRows)

TestHistogramInputs ==
  {i \in [rows : Rows, o : [l : {0}, u : {4}, b : {1, 2, 100}, d : {-1, 2, 3},
                            L : BOOLEAN, w : BOOLEAN, p : BOOLEAN]] :
     i.o.b = 100 <=> i.o.d # -1}

\* Three files, each of which needs some of the others or itself.
Libs == {"prog", "liba", "libb"}

TestLddInputs ==
  [needed : [Libs -> {<< >>} \cup [1..1 -> Libs] \cup {<<"liba", "libb">>}],
   here : SUBSET Libs, found : SUBSET Libs]

\* What three samples may show of one pid.
Histories == {h \in [1..3 -> [process : {1, 2}, io : 0..1] \cup {Gone}] : Ps!IsHistory(h)}

TestPsioInputs ==
  {[samples |-> [n \in 1..3 |-> <<i.first[n], i.second[n]>>], top |-> i.top] :
     i \in [first : Histories, second : Histories, top : {1, 2}]}

\* Files with every fault, and dynamic ones with every list of two libraries
\* that begins with the first, or with none.
Static   == [opens |-> TRUE, short |-> FALSE, magic |-> "Z", foreign |-> FALSE, size |-> <<1, 2, 3, 4>>,
             dynamic |-> FALSE, maps |-> TRUE, version |-> 8, first |-> 0, next |-> <<0, 0>>]
Dynamics == {[Static EXCEPT !.dynamic = TRUE, !.first = first, !.next = next] :
               first \in {0, 1}, next \in [1..2 -> 0..2]}
Faulty   == {[Static EXCEPT !.opens = FALSE], [Static EXCEPT !.short = TRUE]}
  \cup {[Static EXCEPT !.dynamic = TRUE, !.maps = FALSE],
        [Static EXCEPT !.dynamic = TRUE, !.magic = "other", !.first = 1],
        [Static EXCEPT !.dynamic = TRUE, !.foreign = TRUE, !.first = 1],
        [Static EXCEPT !.dynamic = TRUE, !.magic = "Q", !.version = 2, !.first = 1],
        [Static EXCEPT !.dynamic = TRUE, !.version = 1, !.first = 1]}

TestExdumpInputs ==
  [sun : BOOLEAN, files : SeqOf({Static} \cup Faulty, MaxArgs), args : SeqOf({"-f", "-s", "-x"}, 2)]
    \cup [sun : BOOLEAN, files : SeqOf({Static} \cup Dynamics, 2), args : {<< >>}]

TestRtimeInputs ==
  [args : SeqOf([option : {"t", "x"}, value : {0, 5}], 1), service : BOOLEAN,
   hosts : SeqOf({h \in [name : {"address", "known", "unknown"}, accepts : BOOLEAN,
                         answers : BOOLEAN, now : {9, 20}] :
                   /\ h.name = "unknown" => ~h.accepts
                   /\ ~h.accepts => ~h.answers
                   /\ ~h.answers => h.now = 9}, MaxArgs)]

\* Any text, cut off anywhere, behind headers with and without options; and
\* files of several packets, under every command line.
Packets(texts) ==
  {p \in [isIp : {TRUE}, ipLen : 2..3, tcpLen : 2..3, text : texts, cap : 3..(7 + MaxLines),
          behind : {<< >>, <<"Host:", "x", "\n">>}] :
     p.cap <= 1 + p.ipLen + p.tcpLen + Len(p.text)}

Samples ==
  {p \in Packets({<<"Host:", "x", "\r", "\n">>}) : p.behind = << >> /\ p.ipLen = 2 /\ p.tcpLen = 2}
    \cup {[isIp |-> FALSE, ipLen |-> 2, tcpLen |-> 2, text |-> << >>, cap |-> 5, behind |-> << >>]}

Usable == [options |-> "none", files |-> 1, opens |-> TRUE, compiles |-> TRUE]

TestUrlInputs ==
  [bounded : BOOLEAN, packets : {<<p>> : p \in Packets(SeqOf({"Host:", "\r", "\n", "0", "x"}, MaxLines))},
   c : {Usable}]
  \cup [bounded : BOOLEAN, packets : SeqOf(Samples, 3), c : {Usable}]
  \cup [bounded : BOOLEAN, packets : SeqOf(Samples, 2),
        c : [options : {"none", "-d", "-o file", "-x"}, files : 0..2, opens : BOOLEAN, compiles : BOOLEAN]]

\* Every character as a password, and short accounts between other lines.
TestCvspwdInputs ==
  [accounts : {<<[user |-> <<117>>, path |-> << >>, pass |-> <<ch>>]>> : ch \in (1..255) \ {Cvs!Newline}},
   other : {<< >>}]
  \cup [accounts : SeqOf([user : {<<117>>, <<117, 32>>}, path : {<< >>, <<58>>, <<32, 65>>},
                          pass : {<< >>, <<32>>, <<114, 58>>, <<65, 32, 97>>}], 2),
        other : {<< >>, <<10>>, <<58, 58, 32, 65, 97, 10>>, <<35, 58, 10>>}]

\* Two directories and the root; a path of up to three components, or none.
TestShpathInputs ==
  [args : SeqOf({"-f", "-pMANPATH", "-x"}, 2),
   env : [PATH : SeqOf({"a", "b", ""}, 3), MANPATH : {<<"b">>}], named : BOOLEAN,
   at : {f \in [{"a", "b", ""} -> {"nodir", "none", "file", "empty", "dir"}] : f[""] \in {"none", "file"}}]

\* A server that stops at any point, or not, and an alarm at any place.
Answers == {<<"refused">>, <<"accepted">>, <<"accepted", "end", "ignore">>}
  \cup {<<"accepted", "piece", "piece", "end", "ignore">>, <<"accepted", "piece">>, << >>}

Commands ==
  SeqOf({"-level 0.9", "-nocache", "http url", "ftp url", "-x"}, 2)
    \cup {<<"http url">> \o o : o \in SeqOf({"-level 0.9", "-level 1.0", "-nocache"}, 3)}

TestHttpqInputs ==
  UNION {[dies : BOOLEAN, args : Commands,
          known : BOOLEAN, answer : {answer}, alarm : 1..(Len(answer) + 1)] : answer \in Answers}

TestLinkchkInputs == SeqOf([inode : 1..2, dev : 1..2], 4)

\* Lines of any characters, all numbers of 8 bits, and several lines.
HexLines ==
  {s \in SeqOf({0, 1, 10, Hex!X, Hex!Minus, Hex!Space, Hex!Other}, MaxLines) :
     Len(SelectSeq(s, LAMBDA c : c = Hex!X)) <= 1}
  \cup {Hex!Decimal(n) : n \in 0..255}

TestHexInputs ==
  {<<line>> : line \in HexLines}
    \cup SeqOf({<<1>>, <<Hex!Minus, 1>>, <<0, Hex!X, 10>>, <<Hex!Other>>}, 3)

TestPodInputs == SeqOf(0..3, MaxLines + 1)
TestFixInputs == SeqOf({"\r", "\n", "x"}, MaxLines + 2)
Printables    == {1, 2}
============================================================================
