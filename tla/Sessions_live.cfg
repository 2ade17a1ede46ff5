SPECIFICATION FairSpec
CONSTANTS
  Nobody = Nobody
  Conns = {c1, c2}
  AllowInterruption = FALSE
  DbusInterface = TRUE
  Orderly = TRUE
  MaxPolls = 2
CHECK_DEADLOCK FALSE
PROPERTY StoppedSessionReleases
