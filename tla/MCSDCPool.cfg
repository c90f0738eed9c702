CONSTANTS
  c1 = c1  c2 = c2  c3 = c3
  n1 = n1  n2 = n2
  NULL = NULL
  MaxSDC = 3
  Cameras = {c1, c2, c3}
  CamNums = {n1, n2}
  CamNum <- MCCamNum
  Sessions = {s1, s2, s3}
SPECIFICATION FairSpec
INVARIANTS BusyIffHeld ExaminedSlotHoldsCamera
PROPERTIES NoMissedCamera RefinesLease ScanTerminates NoOvertaking
