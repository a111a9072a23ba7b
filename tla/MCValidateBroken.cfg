\* One thread and one chart are enough for a tool to break.
CONSTANTS
  web = web
  api = api
  t1 = t1
  t2 = t2
  Threads = {t1}
  Charts = {web}
  Rows <- MCRows
  Settings <- MCSettings
  Providers = {}
  MaxChanges = 0
SPECIFICATION ValidateSpec
INVARIANTS
  BrokenToolIsError
\* Every row may be answered.
CHECK_DEADLOCK FALSE
