\* Two invocations at a time for two versions of a chart in two files.
CONSTANTS
  p1 = p1
  p2 = p2
  f1 = f1
  f2 = f2
  Invocations = {p1, p2}
  Files = {f1, f2}
  Versions = {0, 1, 2}
  MaxCommits = 3
  MaxActive = 2
SYMMETRY Symmetric
SPECIFICATION Spec
INVARIANTS
  OnePRPerRequest
  OnTheTimeline
PROPERTIES
  NoSilentDowngrade
  BranchIsNeverRewritten
\* Every invocation may have ended and every commit been made.
CHECK_DEADLOCK FALSE
