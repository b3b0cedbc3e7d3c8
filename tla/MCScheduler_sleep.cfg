SPECIFICATION Spec
CONSTANTS
  idle = idle
  Boot = Boot
  Null = Null
  Threads = {idle, a, b}
  NTicks = 2
  MaxMillis = 1
PROPERTIES
  SleepTakesEffect
