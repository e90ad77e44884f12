CONSTANTS
  Handles = {h1, h2, h3}
  Limits = {0, 1}
  QueueLimits = {0}
  Forgetful = {}
  Repeating = {}
SPECIFICATION FairSpec
PROPERTIES WaiterServed
