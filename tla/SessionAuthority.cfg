CONSTANTS
  Ops = {o1, o2}
  Flows = {f1, f2}
  Users = {u1}
  NoUser = NoUser
  NumListeners = 0
  MaxRevision = 4
SPECIFICATION Spec
INVARIANTS
  TypeOK
  LeasesOnlyWhileActive
  NoFlowEscapes
  ClosedAtMostOnce
  CommitsAreExclusive
  RegisteredIsCurrent
PROPERTIES
  RevokedFlowsAreCut
  ImplementsGate
CHECK_DEADLOCK FALSE
