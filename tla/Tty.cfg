SPECIFICATION TtySpec
CONSTANTS
  Width = 3
  Height = 2
  TabWidth = 2
  EscapeBufSize = 24
  MaxArgs = 16
  Streams <- MCStreams
  Notice <- MCNotice
  LastWords <- MCLastWords
  MaxLogs = 1
INVARIANT TtyTypeOK
INVARIANT ParserFaithful
INVARIANT NeverStuck
PROPERTY PanicShown
