SPECIFICATION ShellSpec
CONSTANTS
  MaxProcesses = 3
  Bursts = {1, 2}
  ParentPids = {1}
  MaxTimes = 2
  CounterMod = 1
  CallBound = 4
INVARIANT ThreadsAttached
