SPECIFICATION Spec
CONSTANTS
  Nobody = Nobody
  Conns = {c1, c2}
  AllowInterruption = TRUE
  DbusInterface = TRUE
  Orderly = TRUE
  MaxPolls = 2
CHECK_DEADLOCK FALSE
INVARIANT NeverCrashed
