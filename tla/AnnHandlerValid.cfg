CONSTANTS
  Workers = {w0, w1}
  Worker0 = w0
  Posts = {p1, p2}
  good = good  bad = bad  later = later  zero = zero  minus = minus
  Anns = {good, bad, later, zero, minus}
  Requests <- MCRepeats
  HeightOf <- MCHeightOf
  ParentOf <- MCParentOf
  Sound = {good, later, minus}
  Ours = {good, bad, later, minus}
  Heights = {1, 3}
  Hashes = {"A", "B"}
  Tracking = 2
  QueueLen = 1
  U32 = 65536
  USize = 65536
  MaxUpdates = 2
SPECIFICATION Spec
INVARIANTS AcceptedAreValid
