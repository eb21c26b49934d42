\* Every configuration of MC_Startup, over TCP, in memory, with a certificate of
\* the caller's, and by the command; ports 1 to 3, so that ephemeral ports can
\* meet fixed ones.
SPECIFICATION Spec
CONSTANTS
  Configs <- MCConfigs
  Options <- MCOptions
  Ports = {1, 2, 3}
  DefaultPort = 3
  None = None
INVARIANTS
  ValidateExact
  RoutesExact
  DialHostsCertified
  OnlyLoopbackBound
\* Start returns.
CHECK_DEADLOCK FALSE
