SPECIFICATION Spec
CONSTANTS
  k1 = k1
  Count = 2
  Workers = {}
  Editors = {1}
  MinIdle = 1
  Lease = 1
  Useful = 1
  NoWork = 2
  Cool = 0
  Bounds <- MCSwitches
PROPERTIES NoReviewInCooldown
