\* Two runs are the fewest that write one event twice; two charts are the fewest of which
\* one is pushed and the other is not.
CONSTANTS
  c1 = c1
  c2 = c2
  d1 = d1
  d2 = d2
  i1 = i1
  i2 = i2
  Charts = {c1, c2}
  Digests = {d1, d2}
  Invocations = {i1, i2}
  Requests <- MCRequests
SPECIFICATION Spec
INVARIANTS
  NothingIsPushedUnprepared
  LedgerIsSound
  SuccessIsOnRecord
\* Every run may have ended.
CHECK_DEADLOCK FALSE
