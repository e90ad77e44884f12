SPECIFICATION Spec
CONSTANTS
  Size = 3
  Served = {"m", "n"}
  Motds <- UnendedMotds
  Requests <- OurRequests
  Openings <- OurOpenings
INVARIANT DiscoveryFindsModules
CHECK_DEADLOCK FALSE
