\* The peers of an interrupted run.
CONSTANTS
  r1 = r1
  r2 = r2
  Releases = {r1, r2}
  Stage = "ROLLOUT"
  Concurrency = 2
  TotalTimeout = 3
  FailFast = FALSE
  Emits = FALSE
  MaxTime = 3
  MaxInterrupts = 1
  Statuses <- FewStatuses
  Rollouts <- SomeRollouts
  Faults = {"down"}
  Version <- MCVersion
  PerHR = 2
  PollInterval = 1
  TransitionsMax = 1
SYMMETRY Symmetric
SPECIFICATION MonitorSpec
INVARIANTS
  InterruptTellsPeers
