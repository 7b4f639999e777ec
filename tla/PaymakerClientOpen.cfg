CONSTANTS
  Entries = {e1, e2}
  MaxRestarts = 0
SPECIFICATION Spec
INVARIANTS NamedFileNotPublished
