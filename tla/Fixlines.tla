------------------------------- MODULE Fixlines ----------------------------
(***************************************************************************)
(* bin/fixlines: converts the ends of lines of a file from those of a Mac  *)
(* or of DOS, or (-r) to them.  A character is "\r", "\n" or any other.    *)
(***************************************************************************)
EXTENDS Integers, Sequences

Elements(seq) == {seq[k] : k \in DOMAIN seq}

Joined(seqs) ==
  LET all[k \in 0..Len(seqs)] == IF k = 0 THEN << >> ELSE all[k - 1] \o seqs[k]
  IN all[Len(seqs)]

Translate(text, from, to) == [k \in DOMAIN text |-> IF text[k] = from THEN to ELSE text[k]]

\* A text with another one in the place of each character of a kind.
Replaced(text, from, to) == Joined([k \in DOMAIN text |-> IF text[k] = from THEN to ELSE <<text[k]>>])

Ended(text) == text # << >> => text[Len(text)] = "\n"

\* awk: a line that is not ended gets an end too.
EachLine(text, end) == Replaced(IF Ended(text) THEN text ELSE Append(text, "\n"), "\n", end)

\* The options: of several modes the last one counts; another option, no mode,
\* or not one file: Usage.
Command(args, files) ==
  LET modes == {k \in DOMAIN args : args[k] # "-r"}
      last  == CHOOSE k \in modes : \A j \in modes : j <= k
  IN IF files # 1 \/ modes = {} \/ ~(Elements(args) \subseteq {"-r", "-mac", "-dos"}) THEN <<"usage">>
     ELSE <<args[last], "-r" \in Elements(args)>>

\* $cmd < $1
Convert(cmd, text) ==
  CASE cmd = <<"-mac", FALSE>> -> Translate(text, "\r", "\n")
    [] cmd = <<"-mac", TRUE>>  -> Translate(text, "\n", "\r")
    [] cmd = <<"-dos", FALSE>> -> Replaced(text, "\r", << >>)
    [] cmd = <<"-dos", TRUE>>  -> EachLine(text, <<"\r", "\n">>)
    [] OTHER -> << >>

----------------------------------------------------------------------------

\* Every "\r" is at the end of a line, and every line ends in it.
IsDos(text) ==
  /\ Ended(text)
  /\ \A k \in DOMAIN text :
       /\ text[k] = "\r" => k < Len(text) /\ text[k + 1] = "\n"
       /\ text[k] = "\n" => k > 1 /\ text[k - 1] = "\r"

IsUnix(text) == "\r" \notin Elements(text) /\ Ended(text)
IsMac(text)  == "\n" \notin Elements(text)

\* Text that follows a convention all through comes back from the conversion
\* into another one, and the result follows that other one.
FixlinesInverts(text) ==
  LET To(mode)   == Convert(Command(<<"-r", mode>>, 1), text)
      From(mode) == Convert(Command(<<mode>>, 1), text)
      Again(args, t) == Convert(Command(args, 1), t)
  IN /\ IsUnix(text) => /\ IsDos(To("-dos")) /\ Again(<<"-dos">>, To("-dos")) = text
                        /\ IsMac(To("-mac")) /\ Again(<<"-mac">>, To("-mac")) = text
     /\ IsDos(text) => IsUnix(From("-dos")) /\ Again(<<"-r", "-dos">>, From("-dos")) = text
     /\ IsMac(text) => Again(<<"-mac", "-r">>, From("-mac")) = text
============================================================================
