CONSTANTS
  MaxUnits = 4
  MaxFrame = 3
  MaxRead = 2
SPECIFICATION Spec
INVARIANTS OneReadPerAnswer ResultWhole
PROPERTIES ClosedIsDeleted
CHECK_DEADLOCK FALSE
