SPECIFICATION ToolsSpec
CONSTANTS
  Gone = Gone
  MaxLines = 2
  MaxRows = 1
  MaxArgs = 1
  MaxSockets = 1
  Word = 16
  Epoch = 8
  MaxFiles = 1
  LdVersionBsd = 8
  Step = 2
  Memory = 3
  Ether = 1
  Ip = 2
  Tcp = 2
  Flags = 1
  BufLen <- ShortBuffer
  Base = 100
  UrlWord = 1024
  BufSize = 14
  HexWord = 256
  RowLen = 2
  Printable <- Printables
  QuoteInputs <- TestQuoteInputs
  HistogramInputs <- TestHistogramInputs
  LddInputs <- TestLddInputs
  PsioInputs <- TestPsioInputs
  ExdumpInputs <- TestExdumpInputs
  RtimeInputs <- TestRtimeInputs
  UrlInputs <- TestUrlInputs
  CvspwdInputs <- TestCvspwdInputs
  ShpathInputs <- TestShpathInputs
  HttpqInputs <- TestHttpqInputs
  LinkchkInputs <- TestLinkchkInputs
  HexInputs <- TestHexInputs
  PodInputs <- TestPodInputs
  FixInputs <- TestFixInputs
INVARIANT LddWholeNet
CHECK_DEADLOCK FALSE
