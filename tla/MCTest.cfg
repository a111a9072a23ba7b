\* Two releases of two test pods each on one thread: one waits in the queue while the
\* other is tested, beside somebody else who starts a test at any time.
CONSTANTS
  r1 = r1
  r2 = r2
  Releases = {r1, r2}
  Stage = "HELM_TEST"
  Concurrency = 1
  TotalTimeout = 2
  FailFast = FALSE
  Emits = TRUE
  MaxTime = 2
  MaxInterrupts = 1
  PodNames = {"p", "q"}
  TestStatuses <- SomeStatuses
  PerHR = 1
  Slack = 1
  MaxTaken = 1
SPECIFICATION MCFairSpec
PROPERTIES
  ImplementsFanout
  ReapingIsSafe
  RunEnds
