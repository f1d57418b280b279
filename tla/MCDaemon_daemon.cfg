\* Two starts of the daemon, killed at any step, with one global withdrawn.
SPECIFICATION FairSpec
CONSTANTS
  Flags <- Documented
  MaxStarts = 2
  MaxRemovals = 1
INVARIANT EventsFindHandlers
INVARIANT SocketsFollowListeners
PROPERTY StartupEnds
PROPERTY NoIdleDaemon
CHECK_DEADLOCK FALSE
