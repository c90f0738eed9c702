CONSTANTS
  Sessions = {s1, s2, s3, s4}
  Groups = {g1, g2}
  MaxObjects = 7
SPECIFICATION Spec
INVARIANTS OneDriverUnlessMoved
PROPERTIES MovedNeverGranted
CHECK_DEADLOCK FALSE
