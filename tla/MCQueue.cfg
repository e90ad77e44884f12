CONSTANTS
  Handles = {h1, h2, h3}
  Limits = {0, 1}
  QueueLimits = {0, 1}
  Forgetful = {h1, h2, h3}
  Repeating = {h1, h2, h3}
SPECIFICATION Spec
SYMMETRY HandleSymmetry
INVARIANTS TypeOK ChannelDiscipline GrantMatchesSlot InOnePlace NeverStuck
PROPERTIES NoOvershoot FifoPromotion OnlyReleasedLeave ImplementsAdmission
