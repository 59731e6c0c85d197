SPECIFICATION FairSpec
CONSTANTS
  t1 = t1
  t2 = t2
  t3 = t3
  Nobody = Nobody
  Callers = {t1, t2, t3}
  Faults = {"reorder", "stale", "nomem"}
INVARIANTS
  OneReactor
  UnbuiltOnlyInRace
PROPERTY
  AllReturn
CHECK_DEADLOCK FALSE
