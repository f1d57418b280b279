\* The packaged service, started once.
SPECIFICATION Spec
CONSTANTS
  Flags <- WaylandOnly
  MaxStarts = 1
  MaxRemovals = 0
INVARIANT KeymapHasItsFd
CHECK_DEADLOCK FALSE
