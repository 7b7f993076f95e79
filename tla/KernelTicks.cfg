SPECIFICATION KernelSpec
CONSTANTS
  Chars = {"1", "s"}
  Newline = "enter"
  Backspace = "backspace"
  Pin <- MCPin
  Keyword <- MCKeyword
  ExitLines = {}
  GateLineLen = 3
  ShellLineLen = 2
  MaxPinFails = 2
  LeftShift = "LeftShift"
  RightShift = "RightShift"
  CharKeys = {"key1", "keyS", "Enter"}
  NavKeys = {"Up"}
  Keymap <- MCKeymap
  KeymapShift <- MCKeymap
  Scripts <- MCScripts
  LongLines <- MCLongLines
  TickMod = 2
  MaxLost = 1
INVARIANT EveryPulseCounts
