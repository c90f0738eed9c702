CONSTANTS
  c1 = c1  c2 = c2
  NULL = NULL
  Cameras = {c1, c2}
  PresetTotal <- MCPresetTotal
  TurnFailLimit = 1
  MaxStarts = 2
  Hold = 2
  MaxDelay = 1
  MaxLag = 2
  MaxLead = 2
SPECIFICATION Spec
INVARIANTS OneIterationPerStart
PROPERTIES HeldWithOneLoop CameraComesBackUnlessReplaced AllLoopsEnd
