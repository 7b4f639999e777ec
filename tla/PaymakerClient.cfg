CONSTANTS
  Entries = {e1, e2}
  MaxRestarts = 1
SPECIFICATION FairSpec
INVARIANTS TypeOK LostOnlyIfLate
PROPERTIES NoFileTruncated PaylogsDrain
