SPECIFICATION Spec
CONSTANTS
  idle = idle
  Boot = Boot
  Null = Null
  Threads = {idle, a, b}
  NTicks = 2
  MaxMillis = 5
INVARIANTS
  RunListIntact
  CurrentQueued
  OwnContext
  OneRunning
  QuantumBound
PROPERTIES
  DeadIsFinal
  EveryThreadRuns
  DeadIsReaped
