SPECIFICATION Spec
CONSTANTS
  Threads = {i, a, b}
  idle = i
  Boot = Boot
  Null = Null
  NTicks = 0
  MaxMillis = 0
  Keys <- MCKeys
  Legend <- MCLegend
  Lengths = {1}
  Garbage = {0}
  RingSize = 1
PROPERTY PartsKept
PROPERTY ReadsComplete
