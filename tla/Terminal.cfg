SPECIFICATION TerminalSpec
CONSTANTS
  Chars = {"31", "[", "esc"}
  Newline = "enter"
  Backspace = "backspace"
  CarriageReturn = "return"
  Esc = "esc"
  Bracket = "["
  Semicolon = ";"
  EndOfSgr = "m"
  NumberOf <- MCNumberOf
  EscBufLen = 4
  MouseCellX = 1
  MouseCellY = 1
  Blank = " "
  Star = "*"
  Pin <- MCPin
  Keyword <- MCKeyword
  ExitLines <- MCExitLines
  Banner <- MCBanner
  Greeting <- MCGreeting
  Messages <- MCMessages
  Prompt <- MCPrompt
  PromptShown <- MCPromptShown
  GateLineLen = 3
  ShellLineLen = 3
  MaxPinFails = 2
  MaxKeys = 3
  MaxRows = 2
  MaxCols = 2
  MaxLog = 3
INVARIANTS
  ConsoleTypeOK
  LockoutMeansFails
  LineIsEdited
  LineOnScreen
  NothingAfterCursor
  VideoShowsView
PROPERTIES
  GateOrder
  TypingIsSeen
CHECK_DEADLOCK FALSE
