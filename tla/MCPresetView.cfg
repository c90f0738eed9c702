CONSTANTS
  c1 = c1  g1 = g1
  NULL = NULL
  Sessions = {s1, s2, s3}
  Cameras = {c1}
  Groups = {g1}
  CamsOf <- MCCamsOf
  PresetTotal <- MCPresetTotal
  TurnFailLimit = 1
SPECIFICATION ViewSpec
SYMMETRY Symmetry
CONSTRAINT NotAllStray
INVARIANTS FacesScheduleUnlessMoved ExclusiveUnlessStray PositionInRangeUnlessStray
