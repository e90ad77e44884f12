CONSTANTS
  Handles = {h1, h2, h3, h4}
  Limits = {2}
  QueueLimits = {2}
  Forgetful = {}
  Repeating = {}
SPECIFICATION Spec
SYMMETRY HandleSymmetry
INVARIANTS QueueOnlyWhenFull PositionExact
