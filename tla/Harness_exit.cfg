\* One scenario, whose proxy may exit before it is ready.
SPECIFICATION FairSpec
CONSTANTS
  Kinds = {"postgres", "mysql"}
  Scenarios = 1
  None = None
PROPERTY CleansUp
\* The command ends.
CHECK_DEADLOCK FALSE
