SPECIFICATION Spec
CONSTANTS
  Instances = {i1, i2}
  Configs <- OurConfigs
INVARIANTS TypeOK ControlReachable CertificateAtHand LoggingGoesOn
PROPERTIES ReloadReopens NoHalfDeath
