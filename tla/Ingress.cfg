CONSTANTS
  Ops = {}
  Flows = {}
  Users = {u1}
  NoUser = NoUser
  NumListeners = 1
  MaxRevision = 4
  Starts = {s1, s2}
  NoStart = NoStart
  MaxPending = 2
SPECIFICATION IngressSafetySpec
SYMMETRY Symmetric
CHECK_DEADLOCK FALSE
INVARIANTS
  EndedIsStopped
  ExitsOnlyDesynced
  DerivedInOrder
