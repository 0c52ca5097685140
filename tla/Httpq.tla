-------------------------------- MODULE Httpq ------------------------------
(***************************************************************************)
(* bin/httpq: asks a web server for one page, under an alarm of a minute,  *)
(* and prints the answer.                                                  *)
(*                                                                         *)
(* What happens to a request is a sequence of events: the server takes the *)
(* connection ("accepted") or not ("refused", which stands for a socket    *)
(* that cannot be made, too), sends a piece of the answer and closes or    *)
(* breaks the connection ("end"); the alarm goes off; and "ignore" is the  *)
(* program's own step behind the read that switches the alarm off.  The    *)
(* name of the server is looked up before all that, without an alarm.      *)
(***************************************************************************)
EXTENDS Integers, Sequences, FiniteSets

CONSTANT
  HandlerDies    \* is there an http'timeout that dies?  The one of this file
                 \* is main'timeout; html.pl is not in the repository.

\* The command line: a single URL, of type http, with known options.
Option(o, arg) ==
  CASE arg = "-level 0.9" -> [o EXCEPT !.headers = FALSE]
    [] arg = "-level 1.0" -> [o EXCEPT !.headers = TRUE]
    [] arg = "-nocache"   -> [o EXCEPT !.nocache = TRUE]
    [] arg = "http url"   -> [o EXCEPT !.urls = @ + 1]
    [] arg = "ftp url"    -> [o EXCEPT !.urls = @ + 1, !.http = FALSE]
    [] OTHER              -> [o EXCEPT !.bad = TRUE]

Options(args) ==
  LET o[n \in 0..Len(args)] ==
        IF n = 0 THEN [headers |-> TRUE, nocache |-> FALSE, urls |-> 0, http |-> TRUE, bad |-> FALSE]
        ELSE Option(o[n - 1], args[n])
  IN o[Len(args)]

Dies(o) == o.bad \/ o.urls # 1 \/ ~o.http

\* An old style request has no place for the pragma.
Request(o) == [headers |-> o.headers, pragma |-> o.headers /\ o.nocache]

\* Without an address the request goes to this host.
Asked(known) == IF known THEN "host" ELSE "this host"

\* The alarm while the program waits in connect or in the read: connect is
\* not taken up again, the read is.
Alarmed(s) ==
  IF HandlerDies \/ s.at = "connect" THEN [s EXCEPT !.at = "undef"] ELSE s

\* Mutant: the alarm is ignored from the moment of the connection on.
GetIgnoringEarly(s, event) ==
  CASE s.at = "connect" /\ event = "accepted" -> [s EXCEPT !.at = "read", !.sent = TRUE]
    [] s.at = "connect" /\ event = "refused"  -> [s EXCEPT !.at = "undef"]
    [] s.at = "read" /\ event = "piece"       -> [s EXCEPT !.got = @ + 1]
    [] s.at = "read" /\ event = "end"         -> [s EXCEPT !.at = "close"]
    [] s.at = "connect" /\ event = "alarm"    -> Alarmed(s)
    [] OTHER                                  -> s

\* get: where the program is, and what it has got, after an event.
Get(s, event) ==
  CASE s.at = "connect" /\ event = "accepted" -> [s EXCEPT !.at = "read", !.sent = TRUE]
    [] s.at = "connect" /\ event = "refused"  -> [s EXCEPT !.at = "undef"]
    [] s.at = "read" /\ event = "piece"       -> [s EXCEPT !.got = @ + 1]
    [] s.at = "read" /\ event = "end"         -> [s EXCEPT !.at = "ignore"]
    [] s.at = "ignore" /\ event = "ignore"    -> [s EXCEPT !.at = "close"]
    [] s.at \in {"connect", "read", "ignore"} /\ event = "alarm" -> Alarmed(s)
    [] OTHER                                  -> s

\* get: where the program is after each event.
After(events) ==
  LET s[n \in 0..Len(events)] ==
        IF n = 0 THEN [at |-> "connect", got |-> 0, sent |-> FALSE] ELSE Get(s[n - 1], events[n])
  IN s

\* What is asked of whom, and what is printed: the pieces of a page, or
\* nothing; "waits" if the program does not come back.
Output(args, known, events) ==
  LET o == Options(args)
      s == After(events)[Len(events)]
  IN IF Dies(o) THEN [ends |-> "usage", got |-> 0, sent |-> << >>]
     ELSE [ends |-> CASE s.at = "close" -> "page" [] s.at = "undef" -> "nothing" [] OTHER -> "waits",
           got  |-> s.got,
           sent |-> IF s.sent THEN <<Asked(known), Request(o)>> ELSE << >>]

----------------------------------------------------------------------------

Places(events, event) == {k \in DOMAIN events : events[k] = event}
Place(events, event) ==
  LET places == Places(events, event) IN
  IF places = {} THEN 0 ELSE CHOOSE k \in places : \A j \in places : k <= j

\* The level that was given last, 1.0 if there was none; and the pragma.
WithHeaders(args) ==
  \A k \in DOMAIN args :
    args[k] = "-level 0.9" => \E j \in DOMAIN args : j > k /\ args[j] = "-level 1.0"

WithPragma(args) == WithHeaders(args) /\ \E k \in DOMAIN args : args[k] = "-nocache"

\* An answer is printed as a whole or not at all: it is printed if it was
\* complete, and the alarm off, before the alarm.  An alarm that dies never
\* leaves the program waiting; one that does not cannot keep a complete answer
\* from being printed, unless it interrupts the connection.  In that case, and
\* in that case only, no request goes out to a server that takes connections.
\* A request is of the level that was given last, and "-nocache" is in it only
\* where that level has headers.
HttpqAnswers(args, known, events) ==
  LET result  == Output(args, known, events)
      pieces  == Cardinality(Places(events, "piece"))
      alarm   == Place(events, "alarm")
      whole   == Place(events, "ignore")
      connect == Place(events, "accepted")
  IN IF Dies(Options(args)) THEN result.sent = << >>
     ELSE /\ result.ends = "page" <=>
               whole # 0 /\ (alarm > whole \/ (~HandlerDies /\ alarm > connect))
          /\ result.ends = "page" => result.got = pieces
          /\ HandlerDies \/ connect = 0 => result.ends # "waits"
          /\ connect # 0 => (result.sent = << >> <=> alarm < connect)
          /\ result.sent # << >> =>
               /\ result.sent[2].headers <=> WithHeaders(args)
               /\ result.sent[2].pragma <=> WithPragma(args)
============================================================================
