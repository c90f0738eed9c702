CONSTANTS
  Sessions = {s1, s2}
  Cars = {k1}
  Times = {1, 2}
  MaxPics = 2
  MaxUploads = 2
  MaxReceived = 2
SPECIFICATION Spec
INVARIANTS StoredUpToFailure OnePictureUnlessRepeated DescribedUnlessOddUpload
