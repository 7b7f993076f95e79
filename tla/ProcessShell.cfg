\* CallBound <= CounterMod, so no counter wraps, and it leaves room for a `sched`
\* loop long enough to drain the whole table.
SPECIFICATION ProcessShellSpec
CONSTANTS
  MaxProcesses = 3
  Bursts <- MCBursts
  ParentPids = {7}
  MaxTimes = 7
  CounterMod = 16
  CallBound = 9
  Space = " "
  Minus = "-"
  Digits <- MCDigits
  MaxTokens = 3
  MaxInt = 63
  Lines <- MCLines
  DefaultBurst = 1
  DefaultThreadBurst = 2
  DefaultTimes = 3
  MaxLineChecked = 8
INVARIANTS
  StatsConsistent
  BoundedOvertaking
  TokenizeFindsWords
  CalcIsExact
PROPERTIES
  SchedDrains
  CommandsAreOperations
