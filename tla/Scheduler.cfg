\* The whole interface of process.h, the two resets included.
SPECIFICATION Spec
CONSTANTS
  MaxProcesses = 3
  Bursts = {0, 2, 3}
  ParentPids = {1}
  MaxTimes = 2
  CounterMod = 2
  CallBound = 4
INVARIANTS
  TypeOK
  OneRunning
  NoStrandedTask
  BurstServed
PROPERTY SRTFDispatchesShortest
