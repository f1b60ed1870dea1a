SPECIFICATION RegistrySpec
CONSTANTS
  Offer = {o1}
  Session = {s1, s2}
  Worker = {w1, w2}
  None = None
  MaxTime = 1
  MaxRegistrations = 2
SYMMETRY Symmetry
PROPERTIES
  ImplementsLifecycle
  FailsForItsOwnReason
CHECK_DEADLOCK FALSE
