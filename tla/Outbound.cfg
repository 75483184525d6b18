SPECIFICATION OutboundSpec
CONSTANTS
  i1 = i1
  i2 = i2
  d1 = d1
  NoInst = NoInst
  Inst = {i1, i2}
  Dial = {d1}
  Threshold = 3
  MaxAttempts = 3
INVARIANT OneMonitorOfTheCurrent
PROPERTIES RefreshReturns LinkHeals
