\* Two rows of one chart are the fewest that race for its dependencies and for the schemas;
\* one edit is enough to change a chart between any two steps of the preparation.
CONSTANTS
  web = web
  api = api
  t1 = t1
  t2 = t2
  Threads = {t1, t2}
  Charts = {web, api}
  Rows <- MCRows
  Settings <- MCSettings
  Providers = {web, api}
  MaxChanges = 1
SPECIFICATION ValidateSpec
INVARIANTS
  VerdictIsEarned
PROPERTIES
  SharedIsSettled
  RunEnds
\* Every row may be answered, and every edit made.
CHECK_DEADLOCK FALSE
