CONSTANTS
  c1 = c1  c2 = c2  g1 = g1
  NULL = NULL
  Sessions = {s1, s2}
  Cameras = {c1, c2}
  Groups = {g1}
  CamsOf <- MCCamsOf
  PresetTotal <- MCPresetTotal
  TurnFailLimit = 1
SPECIFICATION Spec
INVARIANTS BusyIffDrivenUnlessStray CameraHasLoop
PROPERTIES CameraComesBack
