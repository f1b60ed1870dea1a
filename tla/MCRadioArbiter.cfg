SPECIFICATION Spec
CONSTANTS
  Subject = {w1, w2}
  MaxLeases = 3
  MaxRollbacks = 2
  DriverOutcomes = {"Ok", "Err"}
SYMMETRY Symmetry
INVARIANTS
  NoForgottenChange
  NoSilentPreemption
CHECK_DEADLOCK FALSE
