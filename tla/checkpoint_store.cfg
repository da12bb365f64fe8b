\* Three projects share an index of two; the terminal and the browser.
CONSTANTS
  Project = {p, q, r}
  Max = 2
  Settings = {"terminal", "terminals", "browser"}
  MaxClock = 5
SPECIFICATION Spec
SYMMETRY Symmetry
INVARIANTS TypeOK RecentCheckpointsKept NothingLostBelowCapacity NewestListedLoads
CHECK_DEADLOCK FALSE
