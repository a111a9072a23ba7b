\* Three releases on two threads: one waits in the queue while two run.
CONSTANTS
  r1 = r1
  r2 = r2
  r3 = r3
  Releases = {r1, r2, r3}
  Stage = "HELM_TEST"
  Concurrency = 2
  TotalTimeout = 1
  FailFast = FALSE
  Emits = TRUE
  MaxTime = 1
  MaxInterrupts = 2
SYMMETRY Symmetric
SPECIFICATION Spec
INVARIANTS
  ResultIsTrue
  TerminalEventIsTrue
  IntervalClosed
