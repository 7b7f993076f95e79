SPECIFICATION TypingSpec
CONSTANTS
  Chars = {"a", "A"}
  Newline = "enter"
  Backspace = "backspace"
  Pin <- MCPin
  Keyword <- MCKeyword
  ExitLines = {}
  GateLineLen = 2
  ShellLineLen = 2
  MaxPinFails = 2
  LeftShift = "LeftShift"
  RightShift = "RightShift"
  CharKeys = {"keyA"}
  NavKeys = {"Up"}
  Keymap <- MCKeymap
  KeymapShift <- MCKeymapShift
  MaxWire = 8
  MaxPresses = 6
INVARIANTS
  ShiftFollowsKeys
  LostOnlyAfterFakes
CHECK_DEADLOCK FALSE
