SPECIFICATION Spec
CONSTANTS
  Size = 3
  Served = {"m", "n"}
  Motds <- EndedMotds
  Requests <- OurRequests
  Openings <- OurOpenings
INVARIANTS StreamsIntact NoMutualWait DiscoveryFindsModules
PROPERTY TalkEnds
CHECK_DEADLOCK FALSE
