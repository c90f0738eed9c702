CONSTANTS
  d1 = d1  d2 = d2  s1 = s1  s2 = s2
  Devices = {d1, d2}
  Sessions = {s1, s2}
  Clients = {k1}
  Cameras = {c1, c2}
  Groups = {g1}
  Unstart = Unstart
  NULL = NULL
  Absent = Absent
  Minus1 = Minus1
SPECIFICATION Spec
SYMMETRY Symmetry
INVARIANTS OwnCameraShown ShownUntilRegrouped
PROPERTIES OfflineOnlyByRegrouping
