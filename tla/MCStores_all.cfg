SPECIFICATION PartSpec
CONSTANTS
  Ids = {i1, i2}
  Slots = {p1, p2}
  Every = 2
  Forget = 1
  Pieces = 2
INVARIANTS OneWorker RingRight
PROPERTIES NamesArrive RemovesOnlyOldest
CHECK_DEADLOCK FALSE
