SPECIFICATION MCSpec
CONSTANTS
  Mac = {m1, m2}
  Slot = {s1, s2}
  NoMac = NoMac
  Allows <- Behaviours
  MaxCalls <- MCMaxCalls
  MaxEvents = 2
CHECK_DEADLOCK FALSE
INVARIANTS StationsAgree
PROPERTIES IndicationsServed
