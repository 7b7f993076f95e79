SPECIFICATION Spec
CONSTANTS
  Null = Null
  Chars = {"nikli", "calc", " "}
  Delims = {" "}
  ExitWord = "nikli"
  CalcWord = "calc"
  Builtins = {"calc"}
  LineChunk = 2
  TokenChunk = 2
  StaleTexts <- MCStaleTexts
  MaxLine = 7
  MaxFailures = 1
INVARIANTS
  TypeOK
  ArgsAreWords
  PromptMeansNoChild
  FreedAtPrompt
PROPERTIES
  EndsKnown
  PromptsAgain
CHECK_DEADLOCK FALSE
