SPECIFICATION ChatSpec
CONSTANTS
  c1 = c1
  c2 = c2
  NoConv = NoConv
  Conv = {c1, c2}
  MaxTurns = 2
  MaxActs = 2
  Pieces = 2
  MayDrop = TRUE
  Apart = TRUE
INVARIANTS
 OneRunningBubble OwnText TextInOrder NoLazyCreate RestoredIsWhole
PROPERTIES EndedStands RunEnds RetriesEnd
CHECK_DEADLOCK FALSE
