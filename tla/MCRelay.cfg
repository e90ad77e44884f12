CONSTANTS
  Handles = {c1, c2, c3}
  Limits = {0, 1}
  QueueLimits = {0, 1}
SPECIFICATION Spec
SYMMETRY ConnSymmetry
INVARIANTS TypeOK UpstreamWithinSlots SlotWhileNeeded OccupantsListed
