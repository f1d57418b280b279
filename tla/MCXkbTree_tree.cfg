SPECIFICATION Spec
CONSTANTS
  Files = {"us", "de", "de-x"}
  Upstreams <- TheUpstreams
  DataTrees <- TheDataTrees
  Hands = {"first", "second"}
  NoFile = NoFile
  Scripts <- TheScripts
INVARIANT TypeOK
INVARIANT FinishedTreeIsDropIn
INVARIANT ReportIsTrue
INVARIANT HandWrittenIsKept
CHECK_DEADLOCK FALSE
