SPECIFICATION Spec
CONSTANTS
  Starts = {0, 1, 2, 3, 4}
  Garbage = Garbage
  Banner = Banner
  Faults = {"dangling"}
INVARIANTS
  TypeOK
  PrintsLate
CHECK_DEADLOCK FALSE
