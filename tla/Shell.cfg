CONSTANTS
  Width = 4
  Height = 3
  HistSize = 3
  BufSize = 6
  PromptLen = 2
  Chars <- MCChars
  ClearWord <- MCClearWord
  MaxLine = 5
  MaxKeys = 10
SPECIFICATION Spec
INVARIANT TypeOK
INVARIANT ScreenFaithful
PROPERTY ExecutesLine
PROPERTY ImplementsLineEdit
CHECK_DEADLOCK FALSE
