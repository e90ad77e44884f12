CONSTANTS
  Handles = {c1, c2}
  Limits = {1}
  QueueLimits = {0}
SPECIFICATION WatchedSpec
INVARIANTS NoTransferMissed FailuresWithinAccepted
PROPERTIES VanishedLeaves EveryRelayEnds
