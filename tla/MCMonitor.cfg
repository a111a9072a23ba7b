\* Two releases watched at the same time, under fairness, with an outage and an interrupt.
CONSTANTS
  r1 = r1
  r2 = r2
  Releases = {r1, r2}
  Stage = "ROLLOUT"
  Concurrency = 2
  TotalTimeout = 2
  FailFast = TRUE
  Emits = TRUE
  MaxTime = 2
  MaxInterrupts = 1
  Statuses <- FewStatuses
  Rollouts <- SomeRollouts
  Faults = {"down"}
  Version <- MCVersion
  PerHR = 1
  PollInterval = 1
  TransitionsMax = 1
SPECIFICATION MonitorFairSpec
INVARIANTS
  CancelIsExplained
  VerdictIsExplained
PROPERTIES
  ImplementsFanout
  RunEnds
