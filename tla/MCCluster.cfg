\* Two node containers, four commands one after the other, any of them cut short.
CONSTANTS
  control = control
  worker = worker
  Nodes = {control, worker}
  Control = control
  Bootstrap <- MCBootstrap
  Targets <- MCTargets
  HelmTests <- MCHelmTests
  MaxCommands = 4
SPECIFICATION Spec
INVARIANTS
  ConvergesInOrder
  TestIsEarned
PROPERTIES
  ClusterIsKept
  CommandsEnd
\* The last command may have ended.
CHECK_DEADLOCK FALSE
