\* Three runs, one after the other, over two pull requests.
CONSTANTS
  Updates = {"image", "dependency"}
  MaxRuns = 3
  MaxActive = 1
  MaxPRs = 2
SPECIFICATION UpgradeSpec
INVARIANTS
  UpgradeTypeOK
  BranchIsFinalized
  ProposalsAreOnRecord
\* Every run may have ended.
CHECK_DEADLOCK FALSE
