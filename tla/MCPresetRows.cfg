CONSTANTS
  Cams = {c1}
  CapDevs = {d1}
  Groups = {0}
  Clients = {k1, k2}
  NULL = NULL
  PresetNums = {1}
  Width = 3
  MaxSame = 1
  MaxRows = 3
SPECIFICATION PresetSpec
SYMMETRY Symmetry
CONSTRAINT Small
INVARIANTS AgreeUnlessStray ListedUnlessStray PresetsAgreeUnlessEdited AllRowsLoadUnlessAddedAgain
