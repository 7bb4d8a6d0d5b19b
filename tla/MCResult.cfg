SPECIFICATION Spec
CONSTANTS
  Errors = {typed, erased}
  Typed = {typed}
  Failures = {f1, f2}
  Results = {r1, r2, r3}
SYMMETRY Symmetry
CHECK_DEADLOCK FALSE
INVARIANTS
  FailuresOnly
  OneHolder
  NoFailureLost
