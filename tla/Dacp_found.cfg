CONSTANTS
  Remotes = {"r1", "r2"}
  Advanced = {"r1"}
  NoId = "none"
  scan_max_bad_response_count = 2
  MaxStarts = 3
  MaxRestarts = 1
  MaxLosses = 2
SPECIFICATION DacpSpec

PROPERTIES ReachableIsFound
CHECK_DEADLOCK FALSE
