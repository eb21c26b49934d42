\* Two scenarios, one after the other, with up to three databases each.
SPECIFICATION FairSpec
CONSTANTS
  Kinds = {"postgres", "mysql", "mariadb"}
  Scenarios = 2
  None = None
INVARIANTS
  SuccessMeansClean
  ProxyGoneFirst
PROPERTY CloseFinishes
\* The command ends.
CHECK_DEADLOCK FALSE
