\* The smallest instance in which two processes race for a snapshot and a lock file is
\* for another commit, or another policy, than the one before.
CONSTANTS
  p1 = p1
  p2 = p2
  a = a
  b = b
  v = v
  w = w
  Processes = {p1, p2}
  Revisions = {a, b}
  Versions = {v, w}
  MaxEdits = 1
SPECIFICATION Spec
INVARIANTS
  StoreIsWhole
PROPERTIES
  ImplementsSnapshots
  ProcessesEnd
\* Every process may have ended, and nobody edits any more.
CHECK_DEADLOCK FALSE
