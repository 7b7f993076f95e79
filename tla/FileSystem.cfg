SPECIFICATION FileShellSpec
CONSTANTS
  MaxBlocks = 4
  BlockSize = 2
  MaxFiles = 3
  Names <- MCNames
  Stored <- MCStored
  NoName = ""
  Bytes = {"x", "y"}
  NUL = "nul"
  Data <- MCData
  FileLines <- MCFileLines
INVARIANTS
  TypeOK
  ChainsDisjoint
  ReadShowsText
PROPERTIES
  ImplementsFileStore
  CallReturns
