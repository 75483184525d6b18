CONSTANTS
  Ops = {}
  Flows = {}
  Users = {u1}
  NoUser = NoUser
  NumListeners = 1
  MaxRevision = 7
SPECIFICATION RecoverySpec
INVARIANTS
  DrivenUnlessSwallowed
PROPERTIES
  RecoveryConcludes
CHECK_DEADLOCK FALSE
