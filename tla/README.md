# Verification of home-base

`home-base` is a collection of small programs: scripts in `bin/`, dotfiles and
Emacs Lisp in `home/`, C, C++ and Perl programs in `src/`. There is no single
system; each program stands alone. This directory holds TLA+ models of the ones
whose behaviour is hard to get right (several processes or threads, signals,
files that others change, calls that fail half way), the TLC configurations
that check them, and machine-checked proofs about all of them.

Paths below are relative to the root of the repository.

## Inventory

| Program | State | Operations | What is hard |
|---|---|---|---|
| `bin/incmail` | spool file, folder `+tmp`, lock file | test and make the lock, `inc`, loop over the folder, `slocal`, `rm` | runs that overlap, a run that dies, `inc`, `slocal` or `rm` failing |
| `src/tr7/malloc-bench.cc` | timers, mutex, counter, condition variable | launch, work, count out, signal, wait, report | lost wake-ups, a counter set too late, threads that were never created |
| `src/mmap-tests.c` | mapped page, file, `caught_sigint`, buffers of stdout | six rounds of write, fork, signal, wait, compare | signals against `pause()`, inherited buffers and counters, order of reads and writes |
| `src/tr7/suspend.c` | two threads, the lock of stdout | print, suspend, resume | suspending a thread that holds a lock |
| `src/psort.cc` | lines in memory, output file | read, match, sort, write back in place | overlapping patterns; reads, opens and writes that fail, and a kill, between truncation and writing |
| `src/tr7/kbdtst.c` | keyboard mode, line settings | save, set raw, read, restore | any call failing, state that was never saved |
| `src/tr7/perfmon.c` | performance counter, readings | stop, read, reset, start, run the command | order of the requests, first and last reading |
| `src/fswaste.c` | directory walk, sums; a table of files seen | lstat, opendir, readdir, recurse; `linkchk` | a tree that changes during the walk, entries without permission, running out of descriptors; the table that grows |
| `home/.emacs.d/elisp/quote-insert.el` | buffer, point | quote a line, go up | positions that do not move with the text |
| `bin/fhist1d` | bins, sums | bin a value, print labels and cumulative column | edges, negative values, truncation |
| `src/elf-ldd.pl` | libraries checked | look a library up, recurse | cycles, what is looked up and where |
| `src/tr7/psio.pl` | last two samples | sample, subtract, print the top | processes that come and go, pids used again |
| `src/exdump.c` | open files, output | dump a header, swap its bytes, follow the library list | errors that end the program, list ends, descriptors, byte order |
| `src/tr7/rtime.c` | open sockets, output | ask one host after the other | failures of one host, descriptors that the lookups need too, four bytes of time |
| `src/tr7/pcapurlstats.cc` | one packet, a buffer | measure headers, search, copy, print | packets that were cut off, unsigned arithmetic |
| `src/cvspwd.c` | a table, a line | split a line, unscramble | characters that separate fields, long lines |
| `src/shpath.c`, `src/shpath.sh` | a path | split it, look each directory up | empty components; two programs for one question |
| `bin/httpq` | a connection, an alarm | connect, ask, read, switch the alarm off | the alarm against the last byte |
| `src/hexvert.c`, `src/pod.c`, `bin/fixlines` | a line, a row | convert, dump | signs, prefixes, ends of lines and of the file |

What makes each program correct:

* **incmail**: two runs never work on the folder together; no message is lost,
  and none is delivered twice without a fault; a run offers `slocal` every
  message; mail does not stay in the spool for ever.
* **malloc-bench**: results are printed after the work they are about; every
  thread does its share; the wake-up is not lost; main returns.
* **mmap-tests**: each verdict is true and printed once; the processes alternate;
  the program ends.
* **suspend**: each key toggles the first thread, the second one is left alone.
* **psort**: the result is one stable rule (first matching pattern, then
  alphabet) over what could be read; a run that is killed or cannot write leaves
  nothing but the old file or a part of the result.
* **kbdtst**, **perfmon**: what was set is restored; each reading is of one run.
* **fswaste**: what stays is counted once, what never was there is not counted,
  and only `lstat` ends the program early.
* the **tools**: the result agrees with an independent definition of it; where
  two conversions are each other's inverse, nothing is lost between them.

### Not modelled

* `bin/fhist1d -g`, `-a`, `-s`, `-n`, `-h`, `-z`: sums, statistics and layout in
  floating point; the bins, weights, labels and the cumulative column are
  modelled. `getRpath` of `elf-ldd.pl`: the output of `objdump` taken apart; the
  path is an input of the model.
* The column tools (`sumcol`, `avgcols`, `wtdavg`, `window-avg`): sums and
  averages in floating point, one line at a time.
* The text tools (`concordance.pl`, `concord-combine.pl`, `tgrep`, `aligrep`,
  `pkgdiff.pl`, `addr2ip.pl`, `port_remap.pl`, `combo-tourney.pl`): one pass over
  lines, with no state but a table of counts.
* The other scripts (`mailchk`, `scanpick`, `titlebar`, `mp3-rename.sh`,
  `httpd-info.pl`, `ldd-dump`, `obj-disassem.sh`, ...): a few commands around
  other programs.
* `finfo.c` and `xfontinfo.c`: the first is third-party code, both print what a
  file or the X server says of a font.
* Experiments and templates (`memtest.c`, `getpwtest.c`, `except-test.cc`,
  `simple-loop.cc`, `test-atomic.cc`, `slc.c`, `proftest.c`, `template.c`): one
  thread, one loop or one library call, and nothing but their output.
* The dotfiles, and the Emacs Lisp other than `quote-insert.el`: configuration,
  key bindings, colours.

## Modules

| Module | Models | Correspondence |
|---|---|---|
| `Incmail` | `bin/incmail` | `pc` is the command a run executes next; one action per command; `tmp` is the folder, `work` what is left of the `for` list |
| `MallocBench` | `malloc-bench.cc` | `mpc` and `tpc` are the places of main and of each thread; one action per access to shared state |
| `Custody` | (abstract) | what a mail drop promises: a message moves from spool to folder, is handed over from there and released after that; `Incmail!C` maps to it |
| `ForkJoin` | (abstract) | what a program that forks and waits promises; `MallocBench!FJ` maps to it |
| `MmapTests` | `mmap-tests.c` | `pc` of parent and child; the gap between the test and `pause()` is the mode "pausing" |
| `Suspend` | `suspend.c` | `doing` is the place of each thread; a call of stdio is two steps, with the lock of stdout (`holder`) in between |
| `Psort` | `psort.cc` | `newsgroups`, the stream's `buffer`, what of it is on `stdout` or in the `file`; `readable` is the input up to the first read that fails, `bad` the failure of the output stream; `copy_if` and the sorts are stated by what they promise about positions (`Taken`, `Sorted`) |
| `Kbdtst` | `kbdtst.c` | one action per call (`call`); each may fail |
| `Perfmon` | `perfmon.c` | one action per request (`request`) to the driver; the size of `buf` is computed modulo the range of `size_t` |
| `Fswaste` | `fswaste.c` | the recursion is a `stack` of open directories; others act in between. `Unstatable` and `Unreadable` are the entries that `lstat` and `opendir` fail for although they are there |
| `Linkchk` | `linkchk` of `fswaste.c` | a recursive function over the files that are asked about; `calc_usage` does not call it |
| `QuoteInsert`, `Fhist1d`, `ElfLdd`, `Psio`, `Exdump`, `Rtime`, `Pcapurlstats`, `Cvspwd`, `Shpath`, `Httpq`, `Hexvert`, `Pod`, `Fixlines` | the tools | operators from input to result, beside a definition of what the result should be. A loop is a recursive function of the number of its rounds, whose value is the loop's state: after each event in `Httpq`, each host in `Rtime`, each row in `Fhist1d` |
| `Tools` | the tools together | a tool keeps nothing from one run to the next, so that a behaviour is the choice of a tool and of its input. The inputs are constants, and the assumptions on them (`RtimeAssumption`, ...) say no more than what such an input is; where a source file can be built in two ways (`exdump.c` for BSD or SunOS, `pcapurlstats.cc` with `strnstr` or `strstr`) the build is a part of the input |
| `MC...` | | instances for TLC; `MCTools` gives `Tools` its inputs, all those of a certain size; `MCThreads` and `MCPrograms` put programs into one specification (below) |
| `MallocBenchProofs`, `IncmailProofs`, `MmapTestsProofs`, `FswasteProofs`, `PsortProofs`, `PerfmonProofs` | | theorems about the modules they are named for |
| `ToolsProofs` | | theorems about `Suspend` and about `Tools` |
| `TextProofs` | | theorems about `Kbdtst`, and about the tools that convert text; it begins with the same lemmas about loops as `ToolsProofs` |

Each `Mutant` operator is a plausible mistake in the definition that follows
it; with it in place of that definition TLC finds the property that
`PROJECT.json` names violated. They are not part of the models.

The programs do not call each other, so that the only composition is that of a
program with its surroundings: cron, delivery and faults in `Incmail`; the
kernel's signals in `MmapTests`; the others who change the tree in `Fswaste`;
the server and the alarm in `Httpq`. `Shpath` holds the program and the script
that answer the same question, and compares their answers.

Two modules put programs together that share nothing, so that one run checks
them all: a behaviour is a run of one of them (`program`, `running`), while the
others do nothing. In `MCThreads` (malloc-bench, mmap-tests, suspend) the others
are over, so that the fairness of their modules asks for no step of them; in
`MCPrograms` (the tools, psort, kbdtst, perfmon) the properties are about states
alone, and the others are before their first step. The modules that are put
together have names of their own (`MmapSpec`, `SuspendSpec`, `KbdtstSpec`, ...).

## Runs

| Run | Bounds | What it shows |
|---|---|---|
| `incmail` | 2 runs, 3 messages, 3 message numbers of one, two and three digits, 2 faults (a run dies, `inc` or `rm` fails) | all its properties, `KeepsCustody` being the refinement of `Custody`. Two runs are enough for the lock, whose state does not count runs; three files give one name to each pattern |
| `incmail_slow_start` | 2 runs, no faults, `SlowStart` | the lock does not exclude: two runs pass the test before either makes the file |
| `threads` | malloc-bench: 10 command lines with 1 to 3 threads and batches of 2 pairs, failing `pthread_create`; mmap-tests: 4 kernels, failing `fork`, both values of the byte nobody initialises; suspend: up to 5 keys | their properties, safety and liveness. Shares are below, equal to and above a batch; five keys are more than two full rounds of suspend and resume at every place of the printing threads |
| `malloc_bench_hang` | malloc-bench alone, every thread created | main may wait for ever |
| `fswaste` | 4 trees, 2 arguments, 3 changes, 2 open directories, a directory that cannot be opened, a file that `lstat` fails for | the walk beside others; one tree is deeper than can be opened. Three changes are the fewest with which an entry that was never removed is counted twice: its empty directory goes, comes back and gets the entry while it is open (`NothingIsInTwice` says that this is the only way) |
| `programs` | psort: inputs of up to 4 of 3 lines, 5 control files, any read, open or write failing, a kill anywhere. kbdtst: any combination of failures, 3 modes. perfmon: up to 4 runs, 2 events each, arguments below and above the limit. The tools: texts of 4 lines, 3 rows, 3 libraries, 2 pids over 3 samples, 3 files, 3 hosts, 2 descriptors, packets with 4 characters of text and 2 of buffer, 3 packets, 2 accounts and every password of one character, 3 components of a path, an alarm at each place of 6 answers to every kind of command line, 4 files for a table that grows by 2 and cannot exceed 3, all numbers of 8 bits, texts of 6 characters | every input of that size. Each bound is one beyond the place where the code changes its mind: the buffer that is full, the table that grows, the row that is complete. For perfmon `size_t` counts to 10 and an element has 2 bytes, so that the size of `buf` wraps around for the largest arguments |
| `elf_ldd_once`, `elf_ldd_net` | 3 libraries that need any of the three | a missing library is reported more than once; the program does not come back |
| `quote_insert_start` | texts of 2 lines | the first line is quoted again and again |
| `psort_in_place` | psort alone, nothing fails, nobody kills it | the file may hold less than the result |
| `rtime_dies` | 2 hosts | the second host is asked after the first could not be reached |
| `fhist1d_overflow` | 1 row | a value above the upper limit is not counted as overflow |

`CHECK_DEADLOCK FALSE` is given wherever the program ends or may stand still:
all of them end, but for suspend (where a thread may take the lock with it) and
incmail (where nothing happens when no mail comes).

Each module with variables defines a type invariant (`TypeOK`, `MmapTypeOK`,
...). All of them are proved (below); the runs list the properties about the
programs.

### Divergences shown by runs

* **incmail**: the test of the lock (line 28) and `touch` (line 31) are two
  steps, and `touch` does not fail on a file that exists. "Use a file in ~/Mail
  to protect against multiple incmail's being launched from cron" holds only
  while cron starts runs further apart than a lock test takes; the run
  `incmail` assumes that (`SlowStart = FALSE`), `incmail_slow_start` does not.
* **malloc-bench**: `_running` is set (line 183) after the threads were
  launched. A thread that counts itself out before is forgotten, and "wait for
  all to finish" never ends. `NoLostWakeup` shows that this is the only way for
  the wake-up to miss main, and `MainGetsOut` that nothing else keeps it.
* **elf-ldd**: `$DEPS{lib} = 1` (line 62) writes a constant key, so that no
  library is ever known as checked, although the comments at lines 53 and 61 say
  so. The recursion of line 88 therefore does not end where libraries need each
  other (`elf_ldd_net`; the shortest trace is a library that needs itself), and
  line 39 opens the bare name, so that a library found along the search path is
  taken to need nothing: the "whole net of dependencies" of lines 4-6 is not
  looked into.
* **quote-insert**: "at every line in the current region" (lines 8-9). The loop
  of line 14 ends when point is before `beg`, which it never is when `beg` is the
  beginning of the buffer: `forward-line` stays on the first line, which is
  quoted in every round.
* **psort**: the manual page (`psort.1:24-26`) says that the result will overwrite
  the file. The `ofstream` of line 140 is neither closed nor deleted, so that
  what its buffer holds need not come out at exit.
* **rtime**: "Print error message and die" (lines 66-68): the message is printed
  and the loop goes on with the next host.
* **fhist1d**: `oflow` is the "number of values outside lower and upper limits"
  (lines 18-19), and `u` the "upper edge of last bin" (line 78). With `-d` the
  number of bins is rounded up (line 134), and a value between `u` and the end of
  the last bin is counted in that bin (line 163).

### Conditions inside properties

Some programs keep their promise only under a condition, which the property
states, so that the run checks that nothing *else* breaks it:

* `TerminatesOrMissesSignal`: a signal between the test of `caught_sigint` and
  `pause()` (lines 129, 140, 145) leaves the process asleep.
* `VerdictsTrue`: lines 174 and 196 read 12 bytes from a file of 11, so that
  the verdict WRITE hangs on a byte of `buf` that was never initialised.
* `EveryKeyToggles`, `OthersKeepPrinting`: a thread suspended inside `putchar`
  takes the lock of stdout with it.
* `PrioritySorted` is about stdout, with no write that fails; what could not be
  read is missing from the result (line 131 takes a failure for the end of the
  file). In place, see the divergence above; `KilledLeavesPrefix` says that what
  is in the file is right as far as it goes.
* `TerminalComesBack`: any keyboard mode but K_XLATE is lost (line 120).
* `ReadingsFit`: `(loops + 1) * sizeof *buf` (line 110) wraps around where
  `size_t` has 32 bits, for arguments that `getnum` accepts. Up to there every
  reading has its place.
* `SumsRight`: below a directory that could not be opened nothing is counted, and
  what lies below a directory that is removed and made again while it is open
  can be counted twice.
* `HistogramRight`: `-p` with `-c` divides by the number of rows twice (lines
  189 and 210), and one bin divides by zero (188); the property leaves both out.
  Where `-d` does not divide the range it claims nothing of the last bin, of the
  overflow and of the labels (see the divergence above).
* `LddReports` is about nets without a cycle whose files that need others are
  seen by their own names. There the lines name exactly what is missing.
* `TopReported`: a pid that is used again is compared with its predecessor.
* `QuotesRegion` is about regions that begin with a line, and not with the first
  one. Of a region that starts inside a line nothing is claimed.
* `ResultsComplete` speaks of threaded mode: with a first argument like `02`
  main works alone, does not wait for the two threads it has launched, and
  prints timers that may still run.
* `MutualExclusion` holds with a lock that is stale after a fault; mail then
  waits until somebody removes the file, hence `Attended` for `SpoolDrains`. It
  needs a lock that was made: a `touch` that fails (line 31, a full disk, say) is
  not noticed, and the run goes on without one. The module has that outcome
  (`Faults` with "touch"), which `TypeCorrect` covers; the run and the other
  theorems are without it.
* `RtimeReports`, `ExdumpReports`: descriptors are never closed. A list of
  libraries with a cycle is printed for ever. The time is wrong from 2036 on,
  where numbers are wider than the four bytes of the protocol. When the
  descriptors have run out the lookups fail as well: a host that is given by its
  name gets "can't get addr", one that is given by its address "couldn't reach".
* `UrlstatsReports`: the filter tests the length on the wire, so that a packet
  that was cut off inside its TCP header aborts the program. The last character
  before the newline is dropped, whether it is a carriage return or not (line
  133). A line that does not fit, or has no newline, has its null written one
  behind the end of `buf` (line 130). With `strstr` in place of `strnstr` (line
  115) the search does not end with the packet.
* `CvspwdReports`: a blank in the path of the repository is taken for the one
  before the password; a line longer than the buffer comes in pieces.
* `ShpathReports`: the program skips empty components of a path, the script
  looks them up in the root directory; a variable that is not set crashes the
  program.
* `HttpqAnswers`: the alarm is set to `http'timeout`, the handler in the file is
  `main'timeout`; whether the first exists in `html.pl`, which is not here, is a
  parameter. With it, an alarm between the last byte and line 94 discards a
  complete answer; without it, the program can wait for ever.
* `HexvertInverts`: a prefix that no hexadecimal number follows, like `0xzz`, and
  `0X` are read as a decimal zero.
* `FixlinesInverts`: only a text that follows one convention all through can come
  back.

## Fairness

* `Incmail`: cron keeps starting runs and a run is not suspended for good (weak
  fairness of `Launch` and of the steps of each run), and a stale lock is noticed
  (`ClearStaleLock`). No fairness of `slocal`'s success, of arrivals or of faults.
* `MallocBench` (`Fairness`): weak fairness of main and of each thread: the scheduler
  runs what can run. The mutex needs none of its own, as each thread takes it
  once. Spurious wake-ups stop at last: POSIX allows them but nobody produces
  them for ever.
* `MmapTests` (`MmapFairness`): both processes run and a pending signal is delivered.
* `Suspend` (`SuspendFairness`): strong fairness of each thread: all of them take the lock of
  stdout again and again, and the implementation's queue serves each of them.
* `Fswaste`: the program runs. The others need not do anything.
* `Psort`, `Kbdtst`, `Perfmon` and the tools have safety properties only.

## Proofs

`MallocBenchProofs` proves, for every set of command lines that satisfies
`IsCommandLine`, every batch size and with or without failing
`pthread_create`:

| Theorem | States |
|---|---|
| `TypeCorrect` | `Spec => []TypeOK` |
| `ResultsAreComplete` | `Spec => []ResultsComplete` |
| `WakeupIsNotLost` | `Spec => []NoLostWakeup` |
| `WorkIsDone` | `Spec => []WorkDone` |
| `Implements` | `Spec => ForksAndJoins`, the refinement of `ForkJoin` |

The argument: `TypeOK` is inductive by itself. The invariant that carries the
rest is `IInv`, the conjunction of `ModeInv`, `LaunchInv`, `TimerInv`,
`LockInv`, `CountInv`, `WaitInv` and `JoinInv` with it. The other safety properties are
not: the counter alone says nothing about the threads. The invariant that
carries them relates `_running` to the set of threads that are past their
decrement (`Out`) and to `early`, the number of threads that were past it when
the counter was set: from then on the counter is the number of threads minus
those that have counted themselves out since. With the mutex (only its holder
is between lock and unlock) a counter of zero means that all have stopped
their timers, which gives `ResultsComplete` and the `Join` step of the
refinement; and when `early` is zero the last decrement finds 1 and leads to
the signal, while main can only be waiting or before its test, which gives
`NoLostWakeup`. The set facts (cardinality of the threads that are out grows by
one with each decrement) are separate lemmas.

The assumptions are those of `MallocBenchAssumption`, which TLC evaluates in the
runs of `MCMallocBench`.

`IncmailProofs` proves, for any number of runs, messages, file numbers and
faults, and for every choice of the kinds of fault:

| Theorem | States | Assumes |
|---|---|---|
| `TypeCorrect` | `Spec => []TypeOK` | |
| `LockKeepsApart` | `Spec => []MutualExclusion` | `LockWorks` |
| `MailIsKept` | `Spec => []NoMailLost` | `LockWorks` |
| `FaultsExplainDuplicates` | `Spec => []DuplicatesNeedFaults` | `LockWorks` |
| `LoopReachesAll` | `Spec => []EveryMessageTried` | `LockWorks` |
| `KeepsItsCustody` | `Spec => KeepsCustody`, the refinement of `Custody` | `LockWorks` |

`LockWorks` says that cron does not start a run while another is between its
test of the lock file and its `touch` (`~SlowStart`), and that no `touch` fails;
the run `incmail_slow_start` shows that the lock does not work without the first.
The argument: `TypeOK` needs `CursorInv`
(`$i` names a file wherever it is used). `LockInv` says that a run in the
folder implies a lock file, that one run at a time is in its lock test, and
that nobody is in the folder while a run is about to `touch`; with these,
`MutualExclusion` is inductive. Given that, nobody but the run itself changes
the folder, so that the file of `$i` is still there at `slocal`, and at `rm` is
the one that `slocal` accepted (`FileInv`): so `rm` loses no mail. That a message is
in one place at most and is not delivered from the spool (`PlaceInv`) bounds the
deliveries by the faults (`FaultInv`); `LoopInv` extends `EveryMessageTried` to
the states inside a round of the loop. The refinement follows from the same
invariants: `CustodyStep` maps a successful `inc` to `Fetch`, `slocal` to
`Deliver`, `rm` to `Release`, an arrival to `Arrive` and everything else to a
stutter. `PlaceInv` says what `inc` moves and what it leaves, and `FileInv` that
the file that `rm` removes was delivered. The conjunction of all of them was also
checked by TLC on the instance of the run `incmail`.

The assumptions are those of `IncmailAssumption`, which TLC evaluates in the
runs of `Incmail`.

`MmapTestsProofs` proves, for every list of mappings, every kernel, with or
without a failing `fork`, and with either value of the byte nobody initialises:

| Theorem | States |
|---|---|
| `TypeCorrect` | `MmapSpec => []MmapTypeOK` |
| `TheyTakeTurns` | `MmapSpec => []TakesTurns` |
| `NoSignalAstray` | `MmapSpec => []NoStraySignal` |
| `EachLineOnce` | `MmapSpec => []NoLineTwice` |
| `VerdictsAreTrue` | `MmapSpec => []VerdictsTrue` |
| `NoKillIsLost` | `MmapSpec => EveryKillCounts`, an action property: no signal is sent while another is pending |

The argument has two halves. `ControlInv` is about who may go on: `PcInv` and
`RoundInv` say which places of the parent go with which places of the child,
and `SignalInv` that between the two there is one signal, which is either still
to be sent, pending, or caught and not yet seen by the test; it gives
`TakesTurns`, `NoStraySignal` and `EveryKillCounts`. With the turns known,
`DataInv` says at each place what the page (`PageInv`), the file (`FileInv`) and
the buffers (`BufInv`) hold, by the kind of mapping and kernel, and `SaidInv`
which lines exactly have been said, so that a line about to be printed is not
among them. `NoLineTwice` follows with
`BufInv`: the buffer that `fork` copies is empty, which is what the `fflush`
before it is for. `VerdictsTrue` is `SaidInv` and, within a round, that nothing is
said which the mapping does not deserve.

`FswasteProofs` proves, for every set of directories and files, all trees,
argument lists, limits of open directories, missing permissions and any number of
changes:

| Theorem | States |
|---|---|
| `TypeCorrect` | `Spec => []TypeOK` |
| `EverySumIsRight` | `Spec => []SumsRight` |
| `DiesOnlyOfLstat` | `Spec => []DiesOfLstat` |

The sums alone are not inductive: what a line will count is spread over the
sums, the entry in hand and what the open directories have still to give.
`KnownInv` says that whatever the walk has come across was there at some time,
which with `ErrorInv` leaves three causes of an error: an argument that does
not exist, an entry that was removed, or one that `lstat` may not look at.
`OnceInv` follows an entry that neither was removed nor lies below one that was:
at any time it is in one of those places at most, and in none before its
directory was met. `MetInv` follows what stayed: once its directory was opened it
is in exactly one of them, so that it is in the sums when nothing is left. A
first version of `SumsRight` demanded that nothing that was never removed be
counted twice; the proof of its step failed at `Create`, and the run with three
changes shows why (see the run's bounds). What is below an argument (`Below`) is
the smallest set closed under `Descends`, so that no induction over the depth of
the tree is needed.

`PsortProofs` proves, for all inputs, all control files, both places for the
result, and with or without reads, opens and writes that fail:

| Theorem | States |
|---|---|
| `TypeCorrect` | `Spec => []TypeOK` |
| `SortedByPriority` | `Spec => []PrioritySorted` |
| `KilledLeavesPart` | `Spec => []KilledLeavesPrefix` |

`MatchInv` says of the state between two patterns that the lines that are out or
in the buffer (`Written`) and those left in `newsgroups` are those of the input,
that `Written` is in the order `Priority`, and that a rank below `next` is what
tells the two apart, the input being what could be read. A pass keeps this (`PassStep`), and in the end everything
is written (`RestStep`). That the result then *is* the reference, and at any time
before a beginning of it (`Completes`, `OutputIsPrefix`), is `OneOrder`: two
sequences in order that have as many lines of each kind do not differ. The
algorithms of the library are stated by contract, a list of positions none of
which comes after one it is before (`Listed`), so that the proofs hold for any
implementation; that there is such a list is proved (`Listing`: the place of a
position is the number of those up to it), as is what follows for
`copy_if` and the sorts (`TakenIs`, `SortedIs`). All of it is done by counting
(`Count`, `CountConcat`, `CountSplit`), without induction over sequences.

Three smaller modules are proved in the same way, each from one inductive
invariant and for all values of its constants:

| Theorem | States | From |
|---|---|---|
| `ToolsProofs!TypeCorrect`, `TogglesKeepStep` | `SuspendSpec => []SuspendTypeOK`, `SuspendSpec => []TogglesInStep` | `KeysInv`: main's place tells whether bg1 stands still and whether a key that was read has not been acted on |
| `TextProofs!TypeCorrect`, `TerminalIsRestored` | `KbdtstSpec => []KbdtstTypeOK`, `KbdtstSpec => []TerminalComesBack` | `LineInv`, `KeyboardInv`: what each half of the terminal's state is before, between and behind the calls that change it, given the calls that have failed (`Ahead`: those to come have not) |
| `PerfmonProofs!TypeCorrect`, `ReadingsHavePlaces`, `ReportIsComplete` | `PerfmonSpec => []PerfmonTypeOK`, `PerfmonSpec => []ReadingsFit`, `PerfmonSpec => []ReportComplete` | `ReadingInv`: the counter holds the events of the last run wherever it is read, and `buf` the readings up to it; `SlotsInv`: `buf` has one element more than there are runs, unless its size wraps around (`AskedFor`) |

Their assumptions are those that the modules name, which TLC evaluates in their
runs.

`Perfmon`'s total is proved to be the sum of the right readings, whatever a sum
is.

### The tools

`ToolsProofs` (and `TextProofs`, of the converters and `cvspwd`) proves, for all
inputs that satisfy the assumptions of `Tools` and all values of the other constants (sizes of buffers and headers, limits, widths
of numbers):

| Theorem: `ToolsSpec => []...` | For all | Along |
|---|---|---|
| `RtimeAlwaysReports`: `RtimeReports` | hosts, descriptors, times | what is open and which lines there are after each host: whether the descriptors have run out is the number of hosts that have cost one |
| `LinksAlwaysCountedOnce`: `LinksCountedOnce` | files asked about, steps of growth, memory | `SeenIs`: the table holds the files asked about, each once, in the order of their first questions; `RoomIs`: it is never smaller than that |
| `TopAlwaysReported`: `TopReported` | samples of any processes | `PsioKnows`: what `%NEW` and `%RW` hold of a pid after so many samples |
| `ExdumpAlwaysReports`: `ExdumpReports` | files, options, both builds | `LibrariesRight`: a list without a cycle is followed to its end, and the rounds of a cycle differ until they repeat; `ByteswapTwice` |
| `HttpqAlwaysAnswers`: `HttpqAnswers` | options, answers, places of the alarm, with and without the handler | `HttpOptionsAre`: the level and the pragma of the request are what the options ask for; the events up to the alarm leave the program where they would without one |
| `RegionAlwaysQuoted`: `QuotesRegion` | texts and regions that begin with a line other than the first | `PastSame`: what is inserted does not move the lines above; each round quotes the next line up |
| `ShpathAlwaysReports`: `ShpathReports` | paths, directories, options | what is kept of a sequence is in the order of its ranks |
| `UrlstatsAlwaysReports`: `UrlstatsReports` | packets, sizes, both builds | `GetHdrLenIs`, `FindHostIs`, `FindEndIs`: the unsigned arithmetic is exact as long as no address wraps around; `Ranked` for the lines |
| `HistogramAlwaysRight`: `HistogramRight` | data, range, bins, weights; the last bin and the overflow where the bins fill the range | `Division` and `IbinIs`: cutting off towards zero and the two corrections give the bin whose edges enclose the value; `WeightAdds` for the column |
| `LddAlwaysReports`: `LddReports` | files without a cycle, those that need others seen by their own names | `ReachedIs`, `DeepIs`: the names within reach are the smallest closed set, those with an endless way the largest that leads on into itself, and as many rounds as there are names are enough for both (`Saturates`); the name with the fewest others in reach lies on the cycle |
| `ConvertersAlwaysInvert`: `ConvertersInvert` | lines and widths of an `int`; bytes and lengths of a row; texts | `ReadAny`, `DigitsRead`: `sscanf` finds the decimal numbers, and reads what `printf` writes; `ConvertForms`: the two forms of a number are each other's results; `PodRounds`: what the rows hold and what is left is the file; `UnixThereAndBack`, `DosThereAndBack` for the ends of lines |
| `CvspwdAlwaysReports`: `CvspwdReports` | accounts, passwords, size of the buffer; what stands before each account is nothing, or a line with fewer than three colons | `PiecesIs`, `CutBehind`, `CutLine`: text behind a piece that is ended is cut as if it were alone, and a line that fits is one piece; `WrittenFields`: the colons and the blank found in a line are those that CVS put there; `ShiftsTwice`: the table is its own inverse, and only a newline becomes a newline |

The prover has no induction over data, as the library's theorems about it take
an operator for a parameter. Here the statement to prove is a *set* of numbers
instead (`Induction`), which follows from `Smallest` and that from the library's
well-founded orders; `Loop` shows in the same way that a function defined by
recursion over `0..N` exists. Each tool then has a lemma that its loop is what
its definition says, one that a round keeps the invariant of the loop, and one
that the property follows from it after the last round. The instances that
depend on a build are parametrised (`Ex(sun)`, `Http(dies)`, `Url(within)`), so
that one theorem covers both builds.

`InputInv` (`TextInputInv` in `TextProofs`), that a tool is given one of its
inputs, is the invariant of `ToolsSpec` itself. All the assumptions are evaluated
by TLC in the run `programs`, whose inputs satisfy them.

### Only model-checked

* Liveness (`MainGetsOut` and all other `~>` and `<>` properties): fairness and
  `ENABLED` are out of the prover's reach.

Every safety property of the runs that pass is proved.

## Abstractions

* Data: messages, lines and files are model values or small numbers; wording
  and layout of output are left out. A pattern of psort is the set of lines it
  matches.
* incmail: the tests of line 21 and 24 are part of `Launch`; that the folder
  can be entered (`cd`, line 35) is assumed. Numbers of one, two and three digits
  begin at `TwoDigits` and `ThreeDigits`, so that three files have names of all
  lengths.
* malloc-bench: a batch of mallocs is one step, as is a batch of frees; no
  other thread looks at them. `malloc` does not fail. work() ends without a
  return statement, which is taken to return.
* mmap-tests: stdout is a file or a pipe, that is, fully buffered. Parent and
  child alternate on the page, so that a `strcpy` is one step.
* psort: any part of the stream's buffer may be out before the end, in whole
  lines.
* suspend: stdin is the terminal, in the mode that the program sets: every key is
  a character, ^D among them, so that `getchar()` does not return EOF.
* kbdtst, perfmon: a call either works or fails and does nothing. The events that
  perfmon itself causes are left out.
* fswaste: `readdir` gives what was there at `opendir`, and may or may not give
  what has come or gone since; it does not fail. A path that is too long, an I/O
  error and a missing permission are all one: `lstat` or `opendir` may fail at any
  time for an entry that is in `Unstatable` or `Unreadable`.
* fhist1d: exact fractions for floating point; `-g`, `-a`, `-s`, `-n`, `-h`, `-z`
  left out.
* pcapurlstats: "Host:" is one character, as are the headers' lengths one number
  each. VLAN frames and libpcap's own errors are left out.
* httpq: the answer is a number of pieces. A server that neither answers nor
  closes is a sequence of events without an end.
  `socket()` that fails (line 77) counts as a connection that is refused: `get`
  returns `undef` for both.
* rtime: looking up a name or the service takes a descriptor for a moment.
* shpath: the fixed buffers of `shpath.c` are long enough for every name. No
  component holds a blank, which the script would split.
* cvspwd: the same text, or none, stands before every account of a file.
* hexvert: an `int` has 8 bits in the run, any number of values in the proofs.

## Plan

Done: the modules above, their runs, and the proofs listed.

What could come next: `getRpath` of `elf-ldd.pl`, and the remaining options of
`fhist1d`.
