CONSTANTS
  Clients = {c1, c2, c3}
  NULL = NULL
  Services = 2
  MaxErrors = 2
  MaxTalks = 2
SPECIFICATION FairSpec
INVARIANTS SpreadUnlessError
PROPERTIES ServedUnlessDeviceError
CHECK_DEADLOCK FALSE
