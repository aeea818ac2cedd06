SPECIFICATION PartSpec
CONSTANTS
  r1 = r1
  r2 = r2
  Clients = {c1, c2}
  Cap = 1
  Skips = {1, 2}
  MaxFrame = 2
INVARIANTS NoGaps QueryNewest
PROPERTIES NoGhosts KeepsNewest
CHECK_DEADLOCK FALSE
