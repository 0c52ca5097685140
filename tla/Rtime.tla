------------------------------- MODULE Rtime -------------------------------
(***************************************************************************)
(* src/tr7/rtime.c: asks one host after the other for the time of day.     *)
(* With NEED_RTIME the program brings its own rtime(), which takes no      *)
(* notice of the timeout and never closes the socket it opens.             *)
(*                                                                         *)
(* A host is a record: is it given by its address or by a name, and is the *)
(* name known; does it take the connection, does it send four bytes before *)
(* it closes, and what is the time there, in seconds since 1900?  A host   *)
(* that never answers at all is not among them: connect or read would not  *)
(* return.                                                                 *)
(*                                                                         *)
(* To look up a name or a service takes a file or a socket of its own for  *)
(* a moment; an address in figures takes none.                             *)
(***************************************************************************)
EXTENDS Integers, Sequences, FiniteSets

CONSTANTS
  MaxSockets,    \* how many sockets the process may have open, or files
  Word,          \* 2^32: the protocol sends the time in four bytes
  Epoch          \* 1970 in seconds since 1900: 2208988800

\* The program before the first host: sockets open, lines so far.
None == [open |-> 0, lines |-> << >>]

Say(s, line) == [s EXCEPT !.lines = Append(@, line)]

\* ntohl(time) - 2208988800UL: seconds since 1970, for what has been sent, in
\* numbers that are wider than the four bytes.
Received(host) == (host.now % Word) - Epoch

\* Mutant: nobody looks at what connect returns.
ResultUnchecked(host) ==
  IF host.accepts /\ host.answers THEN <<"time", Received(host)>> ELSE <<"garbage">>

\* rtime(): what comes back in result->tv_sec; a read that brings too little
\* leaves `time' as it was, which is nothing in particular.
Result(host) ==
  IF ~host.accepts THEN <<"unreached">>
  ELSE IF host.answers THEN <<"time", Received(host)>> ELSE <<"garbage">>

\* One round of the loop over the hosts: gethostbyname, getservbyname and
\* socket().  With all descriptors in use a name is not found any more, and
\* neither is the service of a host that needs no name.
Ask(s, service, host) ==
  LET left == s.open < MaxSockets IN
  IF host.name = "unknown" \/ (host.name = "known" /\ ~left) THEN Say(s, <<"unknown">>)
  ELSE IF ~service \/ ~left THEN Say(s, <<"unreached">>)
  ELSE Say([s EXCEPT !.open = @ + 1], Result(host))

\* main: -t wants a number other than 0; another option, or no host: Usage.
Usage(args, hosts) == hosts = << >> \/ \E k \in DOMAIN args : args[k].option # "t" \/ args[k].value = 0

\* The program after each of its rounds.
After(service, hosts) ==
  LET s[n \in 0..Len(hosts)] == IF n = 0 THEN None ELSE Ask(s[n - 1], service, hosts[n])
  IN s

LinesFor(args, service, hosts) ==
  IF Usage(args, hosts) THEN << >> ELSE After(service, hosts)[Len(hosts)].lines

----------------------------------------------------------------------------

\* How many of the first n hosts have cost a socket, were there enough.
Spent(hosts, n) == Cardinality({k \in 1..n : hosts[k].name # "unknown"})

\* Are the sockets used up when host k is asked?  None is ever closed, and a
\* connection that fails has cost one too.
UsedUp(service, hosts, k) == (IF service THEN Spent(hosts, k - 1) ELSE 0) >= MaxSockets

\* No address is found for host k.
NoAddress(service, hosts, k) ==
  \/ hosts[k].name = "unknown"
  \/ hosts[k].name = "known" /\ UsedUp(service, hosts, k)

\* The line of host k is the right one.
IsLineOf(line, service, hosts, k) ==
  /\ line[1] = "unknown" <=> NoAddress(service, hosts, k)
  /\ line[1] = "unreached" <=>
       /\ ~NoAddress(service, hosts, k)
       /\ ~service \/ ~hosts[k].accepts \/ UsedUp(service, hosts, k)
  /\ line[1] = "time" =>
       /\ hosts[k].answers
       /\ line[2] = hosts[k].now - Epoch <=> hosts[k].now < Word

\* The lines are those of the hosts, in order: the sockets that the hosts
\* before have left open decide what can still be said, and the times are
\* right until the four bytes wrap around.  A host that has no address holds
\* up none of the others.  Whether the program goes on after a host that could
\* not be reached, or dies, is left to DiesUnreached.
RtimeReports(args, service, hosts) ==
  LET lines == LinesFor(args, service, hosts) IN
  /\ Usage(args, hosts) => lines = << >>
  /\ Len(lines) <= Len(hosts)
  /\ \A k \in DOMAIN lines : IsLineOf(lines[k], service, hosts, k)
  /\ ~Usage(args, hosts) /\ Len(lines) < Len(hosts) =>
       \E k \in DOMAIN lines : lines[k][1] = "unreached"

\* "Print error message and die": a host that could not be reached is the last
\* one that has a line.
DiesUnreached(args, service, hosts) ==
  LET lines == LinesFor(args, service, hosts) IN
  \A k \in DOMAIN lines : lines[k][1] = "unreached" => k = Len(lines)
============================================================================
