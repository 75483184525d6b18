CONSTANTS
  Ops = {}
  Flows = {}
  Users = {u1}
  NoUser = NoUser
  NumListeners = 1
  MaxRevision = 3
  Browsers = {b1}
  Local = {b1}
  NoEvent = NoEvent
  MaxInstance = 2
  MaxDrops = 1
SPECIFICATION EventsSpec
INVARIANTS
  StreamLosesNothing
PROPERTIES
  ViewNeverMovesBack
  PageConverges
