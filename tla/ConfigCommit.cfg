SPECIFICATION ConfigSpec
CONSTANTS
  u1 = u1
  u2 = u2
  u3 = u3
  p1 = p1
  None = None
  Initial = Initial
  Default = Default
  Update = {u1, u2, u3}
  Put = {p1}
  MaxCrashes = 1
SYMMETRY Requests
INVARIANTS SettledAgrees PersistedIsActive
PROPERTY RestartKeepsAcked
CHECK_DEADLOCK FALSE
