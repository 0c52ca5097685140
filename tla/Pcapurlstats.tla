---------------------------- MODULE Pcapurlstats ---------------------------
(***************************************************************************)
(* src/tr7/pcapurlstats.cc: prints the "Host:" line of every HTTP request  *)
(* in a file of captured packets.                                          *)
(*                                                                         *)
(* A packet is a record: is its frame an Ethernet frame with IP; the       *)
(* lengths of its IP and TCP headers, as these headers give them; the      *)
(* text of the request; how many bytes of all of it were captured; and     *)
(* what lies in memory behind these bytes.  A character is "Host:" (taken  *)
(* as one byte), "\r", "\n", "0" for a null byte or any other.  The filter *)
(* tests the flags of the TCP header and the length on the wire: it takes  *)
(* packets that were cut off behind the flags.  It takes no VLAN frames.   *)
(***************************************************************************)
EXTENDS Integers, Sequences, FiniteSets

CONSTANTS
  Ether,     \* sizeof (ether_header): 14
  Ip,        \* sizeof (ip), without options: 20
  Tcp,       \* sizeof (tcphdr), without options: 20
  Flags,     \* how much of the TCP header there is up to its flags: 14
  BufLen,    \* sizeof (buf): 128
  Base,      \* the address of the packet
  Word,      \* 2^w, for addresses and size_t of w bits
  Bounded    \* is there strnstr (FreeBSD), or only strstr?

\* The difference of two numbers of type size_t, or of two addresses.
Minus(a, b) == (a - b) % Word

Headers(p) == Ether + p.ipLen + p.tcpLen

\* What the filter accepts is captured at least as far as the flags.
Accepted(p) == p.isIp => p.cap >= Ether + p.ipLen + Flags

\* Mutant: IP options are forgotten.
GetHdrLenFixed(p) ==
  IF p.cap < Ether \/ ~p.isIp \/ Minus(p.cap, Ether) < Ip THEN -1
  ELSE IF Minus(Minus(p.cap, Ether), Ip) < Tcp THEN -1
  ELSE Ether + Ip + p.tcpLen

\* getHdrLen: -1 if it aborts.
GetHdrLen(p) ==
  IF p.cap < Ether \/ ~p.isIp \/ Minus(p.cap, Ether) < Ip THEN -1
  ELSE IF Minus(Minus(p.cap, Ether), p.ipLen) < Tcp THEN -1
  ELSE Headers(p)

\* The byte at an offset from the packet, behind its captured bytes too.
Byte(p, i) ==
  IF i < p.cap THEN IF i < Headers(p) THEN "header" ELSE p.text[i - Headers(p) + 1]
  ELSE IF i - p.cap < Len(p.behind) THEN p.behind[i - p.cap + 1] ELSE "0"

\* The offsets that a search from there on over n bytes looks at.
Within(p, from, n) ==
  {i \in from..(Headers(p) + Len(p.text) + Len(p.behind)) : i - from < n}

FirstOf(S) == IF S = {} THEN -1 ELSE CHOOSE i \in S : \A j \in S : i <= j

\* strstr and strnstr end at a null byte; -1: not found.
FindHost(p, from) ==
  LET range == Within(p, from, IF Bounded THEN Minus(p.cap, from) ELSE Word) IN
  FirstOf({i \in range : Byte(p, i) = "Host:" /\ \A j \in from..i : Byte(p, j) # "0"})

\* memchr: the address of the newline, or NULL.
FindEnd(p, host) ==
  LET at == FirstOf({i \in Within(p, host, Minus(p.cap, host)) : Byte(p, i) = "\n"}) IN
  IF at = -1 THEN 0 ELSE Base + at

\* What is printed of n bytes that strncpy has copied.
Copied(p, host, n) ==
  LET null == FirstOf({i \in 0..(n - 1) : Byte(p, host + i) = "0"})
  IN [i \in 1..(IF null = -1 THEN n ELSE null) |-> Byte(p, host + i - 1)]

\* findHostname, once getHdrLen has returned: the offsets and the name in the
\* line that it prints, and the byte of buf that is set to null.
FindHostname(p, hdrOffset) ==
  LET host    == FindHost(p, hdrOffset)
      end     == FindEnd(p, host)
      hostlen == Minus(end, Base + host)
      null    == IF hostlen > BufLen THEN BufLen ELSE hostlen - 1
  IN IF host = -1 THEN [found |-> FALSE]
     ELSE [found |-> TRUE, host |-> host, end |-> end - Base, null |-> null,
           name |-> Copied(p, host, null)]

\* The command line: its options are known, if not of any effect; it names
\* one file, which can be opened; the filter suits the file.
Usable(c) == c.options \in {"none", "-d", "-o file"} /\ c.files = 1 /\ c.opens /\ c.compiles

\* The body of the loop: one packet of the file.
Handle(s, p) ==
  IF s.status = "abort" \/ ~Accepted(p) THEN s
  ELSE IF GetHdrLen(p) = -1 THEN [s EXCEPT !.status = "abort"]
  ELSE [s EXCEPT !.lines = Append(@, FindHostname(p, GetHdrLen(p)))]

\* The loop over pcap_next_ex: the lines and how things stand after each packet.
After(packets) ==
  LET s[n \in 0..Len(packets)] ==
        IF n = 0 THEN [lines |-> << >>, status |-> "success"] ELSE Handle(s[n - 1], packets[n])
  IN s

\* main: the lines for the packets of a file and how it ends.  A file that is
\* damaged behind its last packet ends like any other.
Main(c, packets) ==
  IF ~Usable(c) THEN [lines |-> << >>, status |-> "failure"] ELSE After(packets)[Len(packets)]

----------------------------------------------------------------------------

\* As much of the request as was captured.
Captured(p) ==
  IF p.cap <= Headers(p) THEN << >> ELSE SubSeq(p.text, 1, p.cap - Headers(p))

\* The place of the first "Host:" that is not behind a null byte, and of the
\* end of its line, or -1.
HostAt(t) == FirstOf({k \in DOMAIN t : t[k] \in {"Host:", "0"}})
EndAt(t, h) == FirstOf({k \in DOMAIN t : k >= h /\ t[k] = "\n"})

\* The line for a packet that has a Host: line among its captured bytes: the
\* offsets are right and the name is the line without its last character and
\* the newline, as long as it fits into the buffer.  Nothing is written behind
\* the buffer, unless the line does not fit or does not end.
LineRight(p, line) ==
  LET t == Captured(p)
      h == HostAt(t)
      e == EndAt(t, h)
  IN /\ line.found
     /\ line.host = Headers(p) + h - 1
     /\ IF e # -1 /\ e - h <= BufLen
        THEN /\ line.end = Headers(p) + e - 1
             /\ line.null < BufLen
             /\ (\A k \in h..e : t[k] # "0") => line.name = SubSeq(t, h, e - 2)
        ELSE line.null = BufLen

\* Each packet before the first one that was cut off inside the TCP header, or
\* is not IP, has one line, in order; such a packet ends the program.  The
\* line is right if the captured bytes hold the Host: line; with strnstr
\* nothing is found in what lies behind them, as long as all of the TCP header
\* was captured.
UrlstatsReports(c, packets) ==
  LET result   == Main(c, packets)
      Short(p) == ~p.isIp \/ p.cap < Ether + p.ipLen + Tcp
      chosen   == {k \in DOMAIN packets : Usable(c) /\ Accepted(packets[k])}
      good     == {k \in chosen : \A j \in chosen : j <= k => ~Short(packets[j])}
  IN /\ Len(result.lines) = Cardinality(good)
     /\ result.status = (IF ~Usable(c) THEN "failure" ELSE IF good # chosen THEN "abort" ELSE "success")
     /\ \A k \in good :
          LET p    == packets[k]
              line == result.lines[Cardinality({j \in good : j <= k})]
              t    == Captured(p)
          IN IF HostAt(t) # -1 /\ t[HostAt(t)] = "Host:" THEN LineRight(p, line)
             ELSE (HostAt(t) # -1 \/ Bounded) /\ p.cap >= Headers(p) => ~line.found
============================================================================
