SPECIFICATION RunGuardSpec
CONSTANTS
  t1 = t1
  t2 = t2
  k1 = k1
  None = None
  Turn = {t1, t2}
  Clear = {k1}
  Supply = {}
  Overlap = FALSE
INVARIANT ClearStartsAfresh
CHECK_DEADLOCK FALSE
