SPECIFICATION FileShellSpec
CONSTANTS
  MaxBlocks = 3
  BlockSize = 2
  MaxFiles = 2
  Names <- MCNames
  Stored <- MCStored
  NoName = ""
  Bytes = {"x", "y"}
  NUL = "nul"
  Data <- MCData
  FileLines <- MCFileLines
INVARIANT CreateMakesEmptyFile
