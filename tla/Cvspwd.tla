------------------------------- MODULE Cvspwd ------------------------------
(***************************************************************************)
(* src/cvspwd.c: prints the passwords that CVS keeps, scrambled, in the    *)
(* file .cvspass, or the one given as argument.  Characters are their      *)
(* codes; no text holds a null.                                            *)
(***************************************************************************)
EXTENDS Integers, Sequences

CONSTANT BufSize    \* BUFFSZ, 8192

Newline == 10
Return  == 13
Blank   == 32
Colon   == 58
MethodA == 65

\* The table of cvs_pwd.
Shifts ==
 <<  0,  1,  2,  3,  4,  5,  6,  7,  8,  9, 10, 11, 12, 13, 14, 15,
    16, 17, 18, 19, 20, 21, 22, 23, 24, 25, 26, 27, 28, 29, 30, 31,
   114,120, 53, 79, 96,109, 72,108, 70, 64, 76, 67,116, 74, 68, 87,
   111, 52, 75,119, 49, 34, 82, 81, 95, 65,112, 86,118,110,122,105,
    41, 57, 83, 43, 46,102, 40, 89, 38,103, 45, 50, 42,123, 91, 35,
   125, 55, 54, 66,124,126, 59, 47, 92, 71,115, 78, 88,107,106, 56,
    36,121,117,104,101,100, 69, 73, 99, 63, 94, 93, 39, 37, 61, 48,
    58,113, 32, 90, 44, 98, 60, 51, 33, 97, 62, 77, 84, 80, 85,223,
   225,216,187,166,229,189,222,188,141,249,148,200,184,136,248,190,
   199,170,181,204,138,232,218,183,255,234,220,247,213,203,226,193,
   174,172,228,252,217,201,131,230,197,211,145,238,161,179,160,212,
   207,221,254,173,202,146,224,151,140,196,205,130,135,133,143,246,
   192,159,244,239,185,168,215,144,139,165,180,157,147,186,214,176,
   227,231,219,169,175,156,206,198,129,164,150,210,154,177,134,127,
   182,128,158,208,162,132,167,209,149,241,153,251,237,236,171,195,
   243,233,253,240,194,250,191,155,142,137,245,235,163,242,178,152 >>

Shift(text) == [i \in DOMAIN text |-> Shifts[text[i] + 1]]

\* cvs_pwd: only the method 'A' is known.
CvsPwd(pwd) ==
  IF pwd = << >> \/ pwd[1] # MethodA THEN [known |-> FALSE]
  ELSE [known |-> TRUE, text |-> Shift(Tail(pwd))]

Joined(seqs) ==
  LET all[k \in 0..Len(seqs)] == IF k = 0 THEN << >> ELSE all[k - 1] \o seqs[k]
  IN all[Len(seqs)]

\* fgets ends a piece at a newline, or when the buffer is full.
IsEnded(piece) == piece[Len(piece)] = Newline \/ Len(piece) = BufSize - 1

\* A character goes to the last piece, or begins one.
Put(pieces, ch) ==
  LET last == Len(pieces) IN
  IF last = 0 \/ IsEnded(pieces[last]) THEN Append(pieces, <<ch>>)
  ELSE [pieces EXCEPT ![last] = Append(@, ch)]

\* What fgets returns one after the other: lines, the long ones in pieces.
Pieces(text) ==
  LET pieces[n \in 0..Len(text)] == IF n = 0 THEN << >> ELSE Put(pieces[n - 1], text[n])
  IN pieces[Len(text)]

\* strchr from a place on; 0: not found.
StrChr(text, ch, from) ==
  LET at == {k \in from..Len(text) : text[k] = ch} IN
  IF at = {} THEN 0 ELSE CHOOSE k \in at : \A j \in at : k <= j

\* Mutant: the blank is searched from the user's name on.
FieldsBlankAnywhere(line) ==
  LET first  == StrChr(line, Colon, 1)
      second == StrChr(line, Colon, first + 1)
      third  == StrChr(line, Colon, second + 1)
      blank  == StrChr(line, Blank, second + 1)
  IN IF 0 \in {first, second, third, blank} THEN << >>
     ELSE <<SubSeq(line, second + 1, third - 1), CvsPwd(SubSeq(line, blank + 1, Len(line)))>>

\* The user, between the second and the third colon, and the password, behind
\* the first blank after that; nothing if one of them is missing.
Fields(line) ==
  LET first  == StrChr(line, Colon, 1)
      second == StrChr(line, Colon, first + 1)
      third  == StrChr(line, Colon, second + 1)
      blank  == StrChr(line, Blank, third + 1)
  IN IF 0 \in {first, second, third, blank} THEN << >>
     ELSE <<SubSeq(line, second + 1, third - 1), CvsPwd(SubSeq(line, blank + 1, Len(line)))>>

\* if (*pass > '\r'); the message for an unknown method counts as a password.
IsShown(pass) == ~pass.known \/ (pass.text # << >> /\ pass.text[1] > Return)

\* What main prints for a line, for a file, and for an argument that is not
\* a file.
OfLine(line) == IF Fields(line) # << >> /\ IsShown(Fields(line)[2]) THEN <<Fields(line)>> ELSE << >>
OfFile(text) == Joined([k \in DOMAIN Pieces(text) |-> OfLine(Pieces(text)[k])])
OfArgument(pwd) == CvsPwd(pwd)

----------------------------------------------------------------------------

\* What CVS writes for an account: ":p:user@h:path Apassword"; the table of
\* its scramble is the same.
Scramble(pass) == <<MethodA>> \o Shift(pass)
CvsLine(a) ==
  <<Colon, 112, Colon>> \o a.user \o <<64, 104, Colon>> \o a.path \o <<Blank>>
    \o Scramble(a.pass) \o <<Newline>>

UserOf(a) == a.user \o <<64, 104>>

\* From a file that CVS has written, with lines in it that are not accounts,
\* every account comes out with its user and its password, in order, however
\* the scrambled password may look; the ones with an empty password (or one
\* that begins with a control character) do not.  This holds for repositories
\* without a blank in their path, and lines that fit into the buffer.  The
\* argument is decoded to the password that CVS has scrambled.
CvspwdReports(accounts, other) ==
  LET lines    == Joined([k \in DOMAIN accounts |-> other \o CvsLine(accounts[k])])
      Shown(a) == IF a.pass # << >> /\ a.pass[1] > Return
                  THEN << <<UserOf(a), [known |-> TRUE, text |-> a.pass \o <<Newline>>]>> >> ELSE << >>
      fit      == \A k \in DOMAIN accounts :
                    /\ Len(CvsLine(accounts[k])) < BufSize
                    /\ \A j \in DOMAIN accounts[k].path : accounts[k].path[j] # Blank
  IN /\ fit => OfFile(lines) = Joined([k \in DOMAIN accounts |-> Shown(accounts[k])])
     /\ \A k \in DOMAIN accounts :
          OfArgument(Scramble(accounts[k].pass)) = [known |-> TRUE, text |-> accounts[k].pass]
============================================================================
