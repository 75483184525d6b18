CONSTANTS
  Ops = {o1, o2, o3}
  Flows = {}
  Users = {k1, k2}
  NoUser = NoUser
  NumListeners = 0
  MaxRevision = 4
SPECIFICATION LifecycleSpec
SYMMETRY Symmetric
CHECK_DEADLOCK FALSE
INVARIANTS
  EndedIsCleared
  SessionIsBacked
  RefresherFollowsSession
  RejectedForAReason
PROPERTIES
  OnlyLoginsReviveInOrder
