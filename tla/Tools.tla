-------------------------------- MODULE Tools ------------------------------
(***************************************************************************)
(* The programs that compute one result from their input, together: each   *)
(* keeps nothing from one run to the next, so that a behaviour is a choice *)
(* of a tool and of what it is given, and the properties compare the       *)
(* result with what it should be.                                          *)
(***************************************************************************)
EXTENDS Integers, Sequences, FiniteSets

CONSTANTS
  MaxSockets, Word, Epoch,                                 \* see Rtime
  MaxFiles, LdVersionBsd,                                  \* see Exdump
  Step, Memory,                                            \* see Linkchk
  Gone,                                                    \* see Psio
  Ether, Ip, Tcp, Flags, BufLen, Base, UrlWord,            \* see Pcapurlstats
  BufSize,                                                 \* see Cvspwd
  HexWord,                                                 \* see Hexvert
  RowLen, Printable                                        \* see Pod

\* For each tool the inputs that it may get; where a source file can be built
\* in two ways the build is a part of the input.
CONSTANTS
  QuoteInputs, HistogramInputs, LddInputs, PsioInputs, ExdumpInputs, RtimeInputs, UrlInputs,
  CvspwdInputs, ShpathInputs, HttpqInputs, LinkchkInputs, HexInputs, PodInputs, FixInputs

Quote       == INSTANCE QuoteInsert
H           == INSTANCE Fhist1d
Ldd         == INSTANCE ElfLdd
Ps          == INSTANCE Psio
Ex(sun)     == INSTANCE Exdump WITH Sun <- sun
R           == INSTANCE Rtime
Url(within) == INSTANCE Pcapurlstats WITH Word <- UrlWord, Bounded <- within
Cvs         == INSTANCE Cvspwd
Sh          == INSTANCE Shpath
Http(dies)  == INSTANCE Httpq WITH HandlerDies <- dies
L           == INSTANCE Linkchk
Hex         == INSTANCE Hexvert WITH Word <- HexWord
Od          == INSTANCE Pod
Fix         == INSTANCE Fixlines

----------------------------------------------------------------------------
(* What the inputs are.                                                    *)

IsSeq(s) == s \in Seq({s[k] : k \in DOMAIN s})

\* quote-insert: the lengths of the lines, and a region in the text.
IsRegion(text, beg, end) ==
  /\ text \in Seq(Nat) /\ text # << >>
  /\ beg \in Nat \ {0} /\ end \in Nat /\ beg <= end
  /\ end < Quote!Begin(text, Quote!Unquoted(text), Len(text) + 1)

ASSUME QuoteAssumption == \A i \in QuoteInputs : IsRegion(i.text, i.beg, i.end)

\* fhist1d: the options and the two columns.
Row == [v : Int, w : Int]

ASSUME HistogramAssumption ==
  \A i \in HistogramInputs : H!IsOptions(i.o) /\ i.rows \in Seq(Row)

\* rtime: its options, whether the service is known, and the hosts.
Host == [name : {"address", "known", "unknown"}, accepts : BOOLEAN, answers : BOOLEAN, now : Nat]

RtimeNumbers == MaxSockets \in Nat /\ Word \in Nat \ {0} /\ Epoch \in Nat

ASSUME RtimeAssumption ==
  /\ RtimeNumbers
  /\ \A i \in RtimeInputs : i.service \in BOOLEAN /\ i.hosts \in Seq(Host)

\* linkchk: the files it is asked about.
Id == [inode : Nat, dev : Nat]

LinkchkNumbers == Step \in Nat \ {0} /\ Memory \in Nat

ASSUME LinkchkAssumption == LinkchkNumbers /\ LinkchkInputs \subseteq Seq(Id)

\* elf-ldd: what the files need, the program that is looked at among them.
IsSystem(s) ==
  LET names == DOMAIN s.needed IN
  /\ IsFiniteSet(names) /\ "prog" \in names
  /\ s.needed \in [names -> Seq(names)]

ASSUME LddAssumption == \A s \in LddInputs : IsSystem(s)

\* psio: what one ps after the other shows of the pids there are.
Process == [process : Nat, io : Nat]

IsSamples(samples, pids) ==
  /\ IsFiniteSet(pids) /\ Gone \notin Process /\ Gone \notin Nat
  /\ samples \in Seq([pids -> Process \cup {Gone}]) /\ samples # << >>
  /\ \A pid \in pids : Ps!IsHistory([n \in 1..Len(samples) |-> samples[n][pid]])

ASSUME PsioAssumption ==
  \A i \in PsioInputs : i.top \in Nat /\ IsSamples(i.samples, DOMAIN i.samples[1])

\* exdump: the files, with their lists of libraries.
ExdumpNumbers == MaxFiles \in Nat /\ LdVersionBsd \in Nat

Byte == 0..255

IsList(f) ==
  LET libs == DOMAIN f.next IN
  /\ IsFiniteSet(libs) /\ libs \subseteq Nat \ {0}
  /\ f.next \in [libs -> libs \cup {0}] /\ f.first \in libs \cup {0}

IsFile(f) ==
  /\ f.opens \in BOOLEAN /\ f.short \in BOOLEAN /\ f.foreign \in BOOLEAN
  /\ f.dynamic \in BOOLEAN /\ f.maps \in BOOLEAN
  /\ f.magic \in {"O", "N", "Z", "Q", "other"} /\ f.version \in Nat
  /\ f.size \in Byte \X Byte \X Byte \X Byte
  /\ IsList(f)

ASSUME ExdumpAssumption ==
  /\ ExdumpNumbers
  /\ \A i \in ExdumpInputs :
       /\ i.sun \in BOOLEAN /\ IsSeq(i.files)
       /\ \A k \in DOMAIN i.files : IsFile(i.files[k])

\* shpath: the arguments and the paths.
ASSUME ShpathAssumption ==
  \A i \in ShpathInputs :
    /\ IsSeq(i.args) /\ IsSeq(i.env["PATH"]) /\ IsSeq(i.env["MANPATH"])
    /\ i.named \in BOOLEAN

\* httpq: what the server does, and when the alarm goes off.
IsAnswer(answer) ==
  LET last == Len(answer) IN
  \/ answer = << >> \/ answer = <<"refused">>
  \/ /\ last > 0
     /\ answer = [k \in 1..last |-> IF k = 1 THEN "accepted" ELSE "piece"]
  \/ /\ last > 2
     /\ answer = [k \in 1..last |-> IF k = 1 THEN "accepted" ELSE IF k = last THEN "ignore"
                                  ELSE IF k = last - 1 THEN "end" ELSE "piece"]

Events(answer, alarm) ==
  [k \in 1..(Len(answer) + 1) |-> IF k < alarm THEN answer[k]
                                 ELSE IF k = alarm THEN "alarm" ELSE answer[k - 1]]

ASSUME HttpqAssumption ==
  \A i \in HttpqInputs :
    /\ i.dies \in BOOLEAN /\ IsSeq(i.args) /\ IsSeq(i.answer) /\ IsAnswer(i.answer)
    /\ i.alarm \in 1..(Len(i.answer) + 1)

\* pcapurlstats: the packets; no address in one, nor of what is counted in it,
\* wraps around, nor does the end of the buffer from there.
IsPacket(p) ==
  /\ p.isIp \in BOOLEAN /\ p.ipLen \in Nat /\ p.tcpLen \in Nat
  /\ IsSeq(p.text) /\ IsSeq(p.behind)
  /\ p.cap \in 0..(Ether + p.ipLen + p.tcpLen + Len(p.text))
  /\ Base + BufLen + Ether + p.ipLen + p.tcpLen + Len(p.text) + Len(p.behind) < UrlWord

UrlNumbers ==
  /\ Ether \in Nat /\ Ip \in Nat /\ Tcp \in Nat /\ Flags \in Nat /\ Ip <= Tcp
  /\ BufLen \in Nat /\ Base \in Nat \ {0} /\ UrlWord \in Nat

ASSUME UrlAssumption ==
  /\ UrlNumbers
  /\ \A i \in UrlInputs :
       /\ i.bounded \in BOOLEAN /\ IsSeq(i.packets)
       /\ \A k \in DOMAIN i.packets : IsPacket(i.packets[k])

\* cvspwd: the accounts that CVS keeps, and what stands before each of them in
\* the file: nothing, or a line with fewer than three colons.  No text holds a
\* null, no part of an account a newline, and no user a colon.
Code       == 1..255
CvsNumbers == BufSize \in Nat

IsAccount(a) ==
  /\ a.user \in Seq(Code) /\ a.path \in Seq(Code) /\ a.pass \in Seq(Code)
  /\ \A k \in DOMAIN a.user : a.user[k] # Cvs!Colon /\ a.user[k] # Cvs!Newline
  /\ \A k \in DOMAIN a.path : a.path[k] # Cvs!Newline
  /\ \A k \in DOMAIN a.pass : a.pass[k] # Cvs!Newline

IsLine(line) ==
  /\ line \in Seq(Code) /\ Len(line) > 0 /\ Len(line) < BufSize
  /\ \A k \in 1..Len(line) : line[k] = Cvs!Newline <=> k = Len(line)

TwoColons(text) ==
  \A i, j, k \in DOMAIN text :
    text[i] = Cvs!Colon /\ text[j] = Cvs!Colon /\ text[k] = Cvs!Colon => i = j \/ j = k \/ i = k

IsOther(text) == text = << >> \/ (IsLine(text) /\ TwoColons(text))

ASSUME CvspwdAssumption ==
  /\ CvsNumbers
  /\ \A i \in CvspwdInputs :
       /\ IsSeq(i.accounts) /\ IsOther(i.other)
       /\ \A k \in DOMAIN i.accounts : IsAccount(i.accounts[k])

\* hexvert, pod and fixlines: the lines, a file, and a text.
Char       == 0..Hex!Other
HexNumbers == HexWord \in Nat \ {0}
PodNumbers == RowLen \in Nat \ {0}

ASSUME ConvertersAssumption ==
  /\ HexNumbers /\ HexInputs \subseteq Seq(Seq(Char))
  /\ PodNumbers /\ \A file \in PodInputs : IsSeq(file)
  /\ \A text \in FixInputs : IsSeq(text)

----------------------------------------------------------------------------

VARIABLE input    \* the tool and what it is given

ToolsInit == input = [tool |-> "none"]

Run(tool, inputs) == \E of \in inputs : input' = [tool |-> tool, of |-> of]

ToolsNext ==
  /\ input.tool = "none"
  /\ \/ Run("quote-insert", QuoteInputs) \/ Run("fhist1d", HistogramInputs)
     \/ Run("elf-ldd", LddInputs) \/ Run("psio", PsioInputs) \/ Run("exdump", ExdumpInputs)
     \/ Run("rtime", RtimeInputs) \/ Run("pcapurlstats", UrlInputs) \/ Run("cvspwd", CvspwdInputs)
     \/ Run("shpath", ShpathInputs) \/ Run("httpq", HttpqInputs) \/ Run("linkchk", LinkchkInputs)
     \/ Run("hexvert", HexInputs) \/ Run("pod", PodInputs) \/ Run("fixlines", FixInputs)

ToolsSpec == ToolsInit /\ [][ToolsNext]_input

----------------------------------------------------------------------------
\* quote-insert.el: see QuotesRegion.
QuotesRegion ==
  input.tool = "quote-insert" => Quote!QuotesRegion(input.of.text, input.of.beg, input.of.end)

\* quote-insert.el: see QuotesEveryLine.
QuotesEveryLine ==
  input.tool = "quote-insert" => Quote!QuotesEveryLine(input.of.text, input.of.beg, input.of.end)

\* fhist1d: see HistogramRight.
HistogramRight ==
  input.tool = "fhist1d" => H!HistogramRight(input.of.o, input.of.rows)

\* fhist1d: see OverflowCounted.
OverflowCounted == input.tool = "fhist1d" => H!OverflowCounted(input.of.o, input.of.rows)

\* elf-ldd.pl: see LddReports.
LddReports == input.tool = "elf-ldd" => Ldd!LddReports(input.of, "prog")

\* elf-ldd.pl: see LddWholeNet.
LddWholeNet == input.tool = "elf-ldd" => Ldd!LddWholeNet(input.of, "prog")

\* elf-ldd.pl: see ReportedOnce.
LddReportsOnce == input.tool = "elf-ldd" => Ldd!ReportedOnce(input.of, "prog")

\* exdump.c: see ExdumpReports.
ExdumpReports == input.tool = "exdump" => Ex(input.of.sun)!ExdumpReports(input.of.args, input.of.files)

\* rtime.c: see RtimeReports.
RtimeReports == input.tool = "rtime" => R!RtimeReports(input.of.args, input.of.service, input.of.hosts)

\* rtime.c: see DiesUnreached.
DiesUnreached == input.tool = "rtime" => R!DiesUnreached(input.of.args, input.of.service, input.of.hosts)

\* pcapurlstats.cc: see UrlstatsReports.
UrlstatsReports ==
  input.tool = "pcapurlstats" => Url(input.of.bounded)!UrlstatsReports(input.of.c, input.of.packets)

\* cvspwd.c: see CvspwdReports.
CvspwdReports ==
  input.tool = "cvspwd" => Cvs!CvspwdReports(input.of.accounts, input.of.other)

\* shpath.c and shpath.sh: see ShpathReports.
ShpathReports ==
  input.tool = "shpath" => Sh!ShpathReports(input.of.args, input.of.env, input.of.named, input.of.at)

\* httpq: see HttpqAnswers.
HttpqAnswers ==
  input.tool = "httpq" =>
    Http(input.of.dies)!HttpqAnswers(input.of.args, input.of.known,
                                     Events(input.of.answer, input.of.alarm))

\* linkchk of fswaste.c: see LinksCountedOnce.
LinksCountedOnce == input.tool = "linkchk" => L!LinksCountedOnce(input.of)

\* hexvert.c, pod.c and fixlines: nothing is lost in what they print; see
\* HexvertInverts, PodShowsAll and FixlinesInverts.
ConvertersInvert ==
  /\ input.tool = "hexvert" => Hex!HexvertInverts(input.of)
  /\ input.tool = "pod" => Od!PodShowsAll(input.of)
  /\ input.tool = "fixlines" => Fix!FixlinesInverts(input.of)

\* psio.pl: see TopReported.
TopReported == input.tool = "psio" => Ps!TopReported(input.of.samples, input.of.top)
============================================================================
