SPECIFICATION ProgramsSpec
CONSTANTS
  Gone = Gone
  MaxLines = 4
  MaxRows = 3
  MaxArgs = 3
  MaxSockets = 2
  Word = 16
  Epoch = 8
  MaxFiles = 2
  LdVersionBsd = 8
  Step = 2
  Memory = 3
  Ether = 1
  Ip = 2
  Tcp = 2
  Flags = 1
  BufLen <- ShortBuffer
  Base = 100
  UrlWord = 1024
  BufSize = 14
  HexWord = 256
  RowLen = 2
  Printable <- Printables
  QuoteInputs <- TestQuoteInputs
  HistogramInputs <- TestHistogramInputs
  LddInputs <- TestLddInputs
  PsioInputs <- TestPsioInputs
  ExdumpInputs <- TestExdumpInputs
  RtimeInputs <- TestRtimeInputs
  UrlInputs <- TestUrlInputs
  CvspwdInputs <- TestCvspwdInputs
  ShpathInputs <- TestShpathInputs
  HttpqInputs <- TestHttpqInputs
  LinkchkInputs <- TestLinkchkInputs
  HexInputs <- TestHexInputs
  PodInputs <- TestPodInputs
  FixInputs <- TestFixInputs
  Lines = {1, 2, 3}
  MaxLen = 4
  Controls <- TestControls
  MayFail = TRUE
  MayBeKilled = TRUE
  KbModes = {"xlate", "code", "raw"}
  MaxRead = 2
  MayBeInterrupted = TRUE
  LoopArgs = {0, 1, 3, 4, 5}
  MaxLoops = 4
  QuadSize = 2
  SizeMod = 10
  MaxEvents = 2
  MaxOld = 1
  IoctlMayFail = TRUE
INVARIANTS
  QuotesRegion
  HistogramRight
  LddReports
  TopReported
  ExdumpReports
  RtimeReports
  UrlstatsReports
  CvspwdReports
  ShpathReports
  HttpqAnswers
  LinksCountedOnce
  ConvertersInvert
  PrioritySorted
  KilledLeavesPrefix
  TerminalComesBack
  ReadingsFit
  ReportComplete
CHECK_DEADLOCK FALSE
