SPECIFICATION Spec
CONSTANTS
  k1 = k1
  Count = 2
  Workers = {k1}
  Editors = {1, 2}
  MinIdle = 1
  Lease = 1
  Useful = 1
  NoWork = 2
  Cool = 1
  Bounds <- MCBounds
INVARIANTS Mirrored OrientationAlone
PROPERTIES ReviewIsDue KeepsLooking
