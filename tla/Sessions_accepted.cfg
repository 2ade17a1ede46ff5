SPECIFICATION Spec
CONSTANTS
  Nobody = Nobody
  Conns = {c1, c2}
  AllowInterruption = FALSE
  DbusInterface = FALSE
  Orderly = TRUE
  MaxPolls = 2
CHECK_DEADLOCK FALSE
PROPERTY AcceptedMeansPlayer
