SPECIFICATION ChatSpec
CONSTANTS
  c1 = c1
  c2 = c2
  NoConv = NoConv
  Conv = {c1, c2}
  MaxTurns = 2
  MaxActs = 2
  Pieces = 1
  MayDrop = TRUE
  Apart = TRUE
INVARIANT HealedIsSettled
CHECK_DEADLOCK FALSE
