CONSTANTS
  Cams = {c1, c2}
  CapDevs = {d1}
  Groups = {0, 1}
  MaxMoves = 1
  MaxResults = 4
  NULL = NULL
SPECIFICATION UpdateSpec
INVARIANTS AnnouncedUnlessLate NoResultLost
PROPERTIES CompleteUnlessDisturbed ShownAtLast
CHECK_DEADLOCK FALSE
