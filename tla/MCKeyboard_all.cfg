SPECIFICATION Spec
CONSTANTS
  Null = Null
  Keys <- KeysTyping
  Legend <- MCLegend
  Readers = {r1, r2}
  Lengths = {0, 1, 2}
  Garbage = {1}
  RingSize = 1
INVARIANTS
  QueueIsFifo
  ModifiersAreHeld
PROPERTIES
  PressGoesToOldest
  ReadersServed
