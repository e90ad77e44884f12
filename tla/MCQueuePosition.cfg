CONSTANTS
  Handles = {h1, h2, h3}
  Limits = {1, 2}
  QueueLimits = {0}
  Forgetful = {}
  Repeating = {}
SPECIFICATION Spec
INVARIANTS PositionIsPositive
